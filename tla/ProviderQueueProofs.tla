------------------------ MODULE ProviderQueueProofs ------------------------
(***************************************************************************)
(* Proofs about ProviderQueue, for every number of requests, messages,     *)
(* workers and lifecycle calls.  The inductive invariant IInv of           *)
(* ProviderQueueInvariant is proved in three layers: types and the control *)
(* of the mutex, then who owns each message, then what each request has    *)
(* cost so far.  The generations of queues and their workers stand on it,  *)
(* and so does the refinement of RequestLife at the end.                   *)
(***************************************************************************)
EXTENDS ProviderQueueRefinement, TLAPS

------------------------------------------------------------------------------
(* First layer: types, and who holds the provider mutex.                   *)

(* Counting one more keeps a counter a natural number. *)
LEMMA CounterType ==
  ASSUME NEW f \in [Requests -> Nat], NEW x
  PROVE  [f EXCEPT ![x] = f[x] + 1] \in [Requests -> Nat]
<1>1. CASE x \in Requests BY <1>1
<1>2. CASE x \notin Requests BY <1>2
<1> QED BY <1>1, <1>2

(* Post hooks that run or not keep their counter's type. *)
LEMMA HooksType ==
  ASSUME TypeOK, NEW r, UNCHANGED hooks \/ RunHooks(r)
  PROVE  hooks' \in [Requests -> Nat]
<1>1. hooks \in [Requests -> Nat]
  BY DEF TypeOK
<1> QED
  BY <1>1, CounterType DEF RunHooks

(* Failing a message writes a request into an error channel, or nothing. *)
LEMMA FailType ==
  ASSUME TypeOK, NEW m, FailMsg(m)
  PROVE  errs' \in [Msgs -> Requests \cup {NoReq}]
<1>1. CASE errs[m] = NoReq /\ errs' = [errs EXCEPT ![m] = body[m]]
  BY <1>1 DEF TypeOK
<1>2. CASE errs' = errs
  BY <1>2 DEF TypeOK
<1> QED BY <1>1, <1>2 DEF FailMsg

(* A receive from a queue leaves sequences of messages and yields one. *)
LEMMA DequeueType ==
  ASSUME TypeOK, NEW g \in Gens, queue[g] # <<>>, Dequeue(g)
  PROVE  queue' \in [Gens -> Seq(Msgs)] /\ Head(queue[g]) \in Msgs
BY DEF TypeOK, Dequeue

(* A step of any drain loop touches queues and error channels only. *)
LEMMA DrainControl ==
  ASSUME TypeOK, Control, NEW g \in Gens, DrainOne(g),
         UNCHANGED <<registry, closing, workers, callers, pool, body, response,
                     counts, ops>>
  PROVE  TypeOK' /\ Control'
<1>1. errs' \in [Msgs -> Requests \cup {NoReq}]
  BY FailType DEF DrainOne
<1>2. queue' \in [Gens -> Seq(Msgs)]
  BY DequeueType DEF DrainOne
<1> QED
  BY <1>1, <1>2 DEF TypeOK, Control, PrepareLocked, PrepareNewest,
        RemovalLocked, UpdateLocked, ShutdownKnows, CallerHolds, WorkerHolds, registry,
        workers, callers, channels, counts, ops, Gens, NoGen, Ops, Workers

(* What a caller's step must respect to keep the control invariant: it    *)
(* changes only its own state, and holds a queue and a message when it     *)
(* should.                                                                 *)
LEMMA CallerFrame ==
  ASSUME TypeOK, Control, NEW r \in Requests, pc[r] # "prepare",
         UNCHANGED <<requestQueues, lastGen, mutex, prep, worker, job, opc, old, hand>>,
         \A q \in Requests : q # r =>
            pc'[q] = pc[q] /\ pq'[q] = pq[q] /\ msg'[q] = msg[q],
         pc'[r] \in {"have", "send", "await"} => pq'[r] \in Gens,
         msg'[r] # NoMsg <=> pc'[r] \in {"send", "await"}
  PROVE  Control'
<1>1. PrepareLocked' /\ PrepareNewest'
  BY DEF Control, PrepareLocked, PrepareNewest
<1>2. RemovalLocked' /\ UpdateLocked' /\ ShutdownKnows'
  BY DEF Control, RemovalLocked, UpdateLocked, ShutdownKnows
<1>3. CallerHolds' /\ WorkerHolds'
  BY DEF Control, CallerHolds, WorkerHolds
<1> QED BY <1>1, <1>2, <1>3 DEF Control

(* The same for a worker or a cleanup goroutine: a busy worker has a job.  *)
LEMMA WorkerFrame ==
  ASSUME TypeOK, Control,
         UNCHANGED <<requestQueues, lastGen, mutex, prep, pc, pq, msg, opc, old, hand>>,
         WorkerHolds'
  PROVE  Control'
<1>1. PrepareLocked' /\ PrepareNewest' /\ CallerHolds'
  BY DEF Control, PrepareLocked, PrepareNewest, CallerHolds
<1>2. RemovalLocked' /\ UpdateLocked' /\ ShutdownKnows'
  BY DEF Control, RemovalLocked, UpdateLocked, ShutdownKnows
<1> QED BY <1>1, <1>2 DEF Control

(* And for a step of a lifecycle operation that neither takes nor releases *)
(* the mutex: its new state must be one it may be in.                      *)
LEMMA OpFrame ==
  ASSUME TypeOK, Control, NEW o \in Ops, opc[o] # "prepare",
         UNCHANGED <<requestQueues, lastGen, mutex, prep, pc, pq, msg, worker, job>>,
         \A p \in Ops : p # o =>
            opc'[p] = opc[p] /\ old'[p] = old[p] /\ hand'[p] = hand[p],
         o \in Removals /\ opc'[o] \in {"wait", "drain", "retired"} =>
            mutex = o /\ old'[o] \in Gens,
         o \in Updates /\ opc'[o] \in {"transfer", "cancel", "signal"} =>
            mutex = o /\ old'[o] \in Gens /\ requestQueues \in Gens,
         o \in Updates /\ hand'[o] # NoMsg => opc'[o] = "transfer",
         o \in Shutdowns /\ opc'[o] = "drain" => old'[o] \in Gens
  PROVE  Control'
<1>1. PrepareLocked' /\ PrepareNewest'
  BY DEF Control, PrepareLocked, PrepareNewest
<1>2. CallerHolds' /\ WorkerHolds'
  BY DEF Control, CallerHolds, WorkerHolds
<1>3. RemovalLocked' /\ UpdateLocked' /\ ShutdownKnows'
  BY DEF Control, RemovalLocked, UpdateLocked, ShutdownKnows, Ops
<1> QED BY <1>1, <1>2, <1>3 DEF Control

(* Whoever leaves prepareProvider held the mutex there, and goes on with   *)
(* the queue if there are workers for it.                                  *)
LEMMA PrepareReturnControl ==
  ASSUME TypeOK, Control, prep # "none", NEW x \in {"have", "over"}, PrepareReturn(x),
         UNCHANGED <<requestQueues, lastGen, msg, old, hand>>, WorkerHolds',
         \A q \in Requests : q # mutex => pq'[q] = pq[q],
         x = "have" => \A q \in Requests : q = mutex => pq'[q] \in Gens
  PROVE  Control'
<1>1. /\ mutex' = Free /\ prep' = "none"
      /\ \A q \in Requests : pc'[q] = IF q = mutex THEN x ELSE pc[q]
      /\ \A o \in Ops : opc'[o] = IF o = mutex THEN "over" ELSE opc[o]
  BY DEF PrepareReturn
<1>2. /\ mutex \in Requests => pc[mutex] = "prepare"
      /\ mutex \in Ops => opc[mutex] = "prepare"
  BY ActorAssumption DEF Control, PrepareLocked
<1>3. PrepareLocked' /\ PrepareNewest'
  BY <1>1 DEF PrepareLocked, PrepareNewest
<1>4. RemovalLocked' /\ UpdateLocked' /\ ShutdownKnows'
  BY <1>1, <1>2 DEF Control, RemovalLocked, UpdateLocked, ShutdownKnows, Ops
<1>5. CallerHolds'
  BY <1>1, <1>2 DEF Control, CallerHolds
<1> QED BY <1>3, <1>4, <1>5 DEF Control

(* Prepare keeps the types and the mutex discipline. *)
LEMMA PrepareKeepsControl ==
  ASSUME TypeOK, Control, Prepare
  PROVE  TypeOK' /\ Control'
<1>1. CASE PrepareQueue
  <2>1. /\ prep = "queue" /\ lastGen \in Nat /\ lastGen + 1 \in Gens
        /\ lastGen' = lastGen + 1 /\ requestQueues' = lastGen + 1
        /\ prep' = "waitgroup"
        /\ UNCHANGED <<waitGroups, providers, mutex, queue, closing, workers,
                       callers, channels, counts, ops>>
    BY <1>1, MaxGenAssumption DEF PrepareQueue, TypeOK, Control, PrepareNewest, Gens
  <2>2. TypeOK'
    BY <2>1, MaxGenAssumption DEF TypeOK, Gens, registry, workers, callers, channels, counts, ops
  <2>3. PrepareLocked' /\ PrepareNewest' /\ CallerHolds' /\ WorkerHolds'
    BY <2>1 DEF Control, PrepareLocked, PrepareNewest, CallerHolds, WorkerHolds,
       workers, callers, ops
  <2>4. RemovalLocked' /\ UpdateLocked' /\ ShutdownKnows'
    BY <2>1 DEF Control, RemovalLocked, UpdateLocked, ShutdownKnows, ops
  <2> QED BY <2>2, <2>3, <2>4 DEF Control
<1>2. CASE PrepareWaitGroup \/ PrepareCreate
  <2>1. /\ prep \in {"waitgroup", "create"} /\ prep' \in {"create", "workers"}
        /\ waitGroups' \in {waitGroups, lastGen} /\ providers' \in BOOLEAN
        /\ UNCHANGED <<requestQueues, lastGen, mutex, queue, closing, workers,
                       callers, channels, counts, ops>>
    BY <1>2 DEF PrepareWaitGroup, PrepareCreate, TypeOK
  <2>2. TypeOK'
    BY <2>1 DEF TypeOK, Control, PrepareNewest, registry, workers, callers, channels, counts, ops
  <2>3. PrepareLocked' /\ PrepareNewest' /\ CallerHolds' /\ WorkerHolds'
    BY <2>1 DEF Control, PrepareLocked, PrepareNewest, CallerHolds, WorkerHolds,
       workers, callers, ops
  <2>4. RemovalLocked' /\ UpdateLocked' /\ ShutdownKnows'
    BY <2>1 DEF Control, RemovalLocked, UpdateLocked, ShutdownKnows, ops
  <2> QED BY <2>2, <2>3, <2>4 DEF Control
<1>3. CASE PrepareFail
  <2>1. TypeOK'
    BY <1>3 DEF PrepareFail, PrepareReturn, TypeOK, registry, workers, callers, channels, counts, ops
  <2>2. WorkerHolds'
    BY <1>3 DEF PrepareFail, Control, WorkerHolds, workers
  <2> QED BY <1>3, <2>1, <2>2, PrepareReturnControl DEF PrepareFail
<1>4. CASE PrepareWorkers
  <2>1. /\ prep = "workers" /\ requestQueues \in Gens /\ StartWorkers(lastGen)
        /\ pq' = [q \in Requests |-> IF q = mutex THEN requestQueues ELSE pq[q]]
        /\ UNCHANGED <<requestQueues, waitGroups, providers, lastGen, queue, closing,
                       job, task, cleanup, msg, ctxDone, got, early, channels,
                       counts, old, hand>>
        /\ PrepareReturn("have")
    BY <1>4 DEF PrepareWorkers, Control, PrepareNewest
  <2>2. TypeOK'
    BY <2>1 DEF PrepareReturn, StartWorkers, TypeOK, registry, workers, callers, channels, counts, ops
  <2>3. WorkerHolds'
    BY <2>1 DEF StartWorkers, Control, WorkerHolds, TypeOK
  <2> QED BY <2>1, <2>2, <2>3, PrepareReturnControl
<1> QED
  BY <1>1, <1>2, <1>3, <1>4 DEF Prepare

(* LookupLocked, step by step. *)
LEMMA LookupLockedControl ==
  ASSUME TypeOK, Control, NEW r \in Requests, LookupLocked(r)
  PROVE  TypeOK' /\ Control'
<1>1. CASE requestQueues # NoGen
  <2>1. /\ pq' = [pq EXCEPT ![r] = requestQueues]
        /\ pc' = [pc EXCEPT ![r] = "have"]
        /\ UNCHANGED <<mutex, prep>>
    BY <1>1 DEF LookupLocked
  <2>2. pc[r] = "lock" /\ UNCHANGED <<requestQueues, waitGroups, providers,
           lastGen, queue, closing, workers, msg, ctxDone, got, early, channels,
           counts, ops>>
    BY DEF LookupLocked
  <2>3. TypeOK'
    BY <2>1, <2>2 DEF TypeOK, registry, workers, callers, channels, counts, ops
  <2>4. /\ msg[r] = NoMsg
        /\ requestQueues \in Gens
    BY <1>1, <2>2 DEF TypeOK, Control, CallerHolds
  <2>5. Control'
    BY <2>1, <2>2, <2>4, CallerFrame DEF TypeOK, registry, workers, ops
  <2> QED BY <2>3, <2>5
<1>2. CASE /\ requestQueues = NoGen
           /\ pc' = [pc EXCEPT ![r] = "over"]
           /\ UNCHANGED <<mutex, prep, pq>>
  <2>1. pc[r] = "lock" /\ UNCHANGED <<requestQueues, waitGroups, providers,
           lastGen, queue, closing, workers, msg, ctxDone, got, early, channels,
           counts, ops>>
    BY DEF LookupLocked
  <2>2. TypeOK'
    BY <1>2, <2>1 DEF TypeOK, registry, workers, callers, channels, counts, ops
  <2>3. msg[r] = NoMsg
    BY <2>1 DEF TypeOK, Control, CallerHolds
  <2>4. Control'
    BY <1>2, <2>1, <2>3, CallerFrame DEF TypeOK, registry, workers, ops
  <2> QED BY <2>2, <2>4
<1>3. CASE /\ BeginPrepare(r)
           /\ pc' = [pc EXCEPT ![r] = "prepare"]
           /\ UNCHANGED pq
  <2>1. /\ pc[r] = "lock" /\ mutex = Free
        /\ UNCHANGED <<requestQueues, waitGroups, providers, lastGen, queue,
              closing, workers, msg, ctxDone, got, early, channels, counts, ops>>
    BY DEF LookupLocked
  <2> USE RequestAssumption, NullAssumption, ActorAssumption, MaxGenAssumption
      DEF TypeOK, Control, PrepareLocked, PrepareNewest, RemovalLocked,
          UpdateLocked, ShutdownKnows, CallerHolds, WorkerHolds, registry,
          workers, callers, channels, counts, ops, Gens, NoGen, Ops, Workers
  <2> QED BY <1>3, <2>1 DEF BeginPrepare
<1> QED BY <1>1, <1>2, <1>3 DEF LookupLocked

(* Enter, step by step. *)
LEMMA EnterControl ==
  ASSUME TypeOK, Control, NEW r \in Requests, Enter(r)
  PROVE  TypeOK' /\ Control'
<1>1. /\ pc[r] = "have"
      /\ UNCHANGED <<registry, queue, closing, workers, ctxDone, got, early,
                     counts, ops>>
  BY DEF Enter
<1>2. PICK m \in pool :
         /\ Fill(r, m)
         /\ \/ /\ pc' = [pc EXCEPT ![r] = "over"]
               /\ UNCHANGED <<pq, msg, pool>>
            \/ \E g \in Target(r) :
                 /\ pq' = [pq EXCEPT ![r] = g]
                 /\ msg' = [msg EXCEPT ![r] = m]
                 /\ pool' = pool \ {m}
                 /\ pc' = [pc EXCEPT ![r] = "send"]
  BY DEF Enter
<1>3. CASE pc' = [pc EXCEPT ![r] = "over"] /\ UNCHANGED <<pq, msg, pool>>
  <2>1. /\ body' = [body EXCEPT ![m] = r]
        /\ response' = [response EXCEPT ![m] = NoReq]
        /\ errs' = [errs EXCEPT ![m] = NoReq]
    BY <1>2 DEF Fill
  <2>2. TypeOK'
    BY <1>1, <1>3, <2>1 DEF TypeOK, registry, workers, callers, channels, counts, ops
  <2>3. msg[r] = NoMsg
    BY <1>1 DEF TypeOK, Control, CallerHolds
  <2>4. Control'
    BY <1>1, <1>3, <2>3, CallerFrame DEF TypeOK, registry, workers, ops
  <2> QED BY <2>2, <2>4
<1>4. CASE \E g \in Target(r) :
              /\ pq' = [pq EXCEPT ![r] = g]
              /\ msg' = [msg EXCEPT ![r] = m]
              /\ pool' = pool \ {m}
              /\ pc' = [pc EXCEPT ![r] = "send"]
  <2>1. Target(r) \subseteq Gens
    BY <1>1 DEF Target, TypeOK, Control, CallerHolds, Gens, NoGen
  <2>2. PICK g \in Gens : pq' = [pq EXCEPT ![r] = g]
    BY <1>4, <2>1
  <2>3. /\ msg' = [msg EXCEPT ![r] = m]
        /\ pool' = pool \ {m}
        /\ pc' = [pc EXCEPT ![r] = "send"]
    BY <1>4
  <2>4. /\ body' = [body EXCEPT ![m] = r]
        /\ response' = [response EXCEPT ![m] = NoReq]
        /\ errs' = [errs EXCEPT ![m] = NoReq]
    BY <1>2 DEF Fill
  <2>5. TypeOK'
    BY <1>1, <1>2, <2>2, <2>3, <2>4 DEF TypeOK, registry, workers, callers, channels, counts, ops
  <2>6. Control'
    <3>1. m # NoMsg
      BY <1>2, NullAssumption DEF TypeOK
    <3> QED BY <1>1, <2>2, <2>3, <3>1, CallerFrame DEF TypeOK, registry, workers, ops
  <2> QED BY <2>5, <2>6
<1> QED BY <1>2, <1>3, <1>4

(* Receive, step by step. *)
LEMMA ReceiveControl ==
  ASSUME TypeOK, Control, NEW r \in Requests, Receive(r)
  PROVE  TypeOK' /\ Control'
<1>1. /\ pc[r] = "await"
      /\ pc' = [pc EXCEPT ![r] = "over"]
      /\ msg' = [msg EXCEPT ![r] = NoMsg]
      /\ pool' = pool \cup {msg[r]}
      /\ UNCHANGED <<registry, queue, closing, workers, pq, ctxDone, early, body,
                     runs, ops>>
  BY DEF Receive, Release
<1>2. hooks' \in [Requests -> Nat]
  BY HooksType DEF Receive, RunResultHooks
<1>3. msg[r] \in Msgs
  BY <1>1 DEF TypeOK, Control, CallerHolds
<1>4. /\ got' \in [Requests -> Requests \cup {NoReq}]
      /\ response' \in [Msgs -> Requests \cup {NoReq}]
      /\ errs' \in [Msgs -> Requests \cup {NoReq}]
  <2>1. CASE /\ got' = [got EXCEPT ![r] = response[msg[r]]]
             /\ response' = [response EXCEPT ![msg[r]] = NoReq]
             /\ errs' = errs
    BY <1>3, <2>1 DEF TypeOK
  <2>2. CASE /\ got' = [got EXCEPT ![r] = errs[msg[r]]]
             /\ errs' = [errs EXCEPT ![msg[r]] = NoReq]
             /\ response' = response
    BY <1>3, <2>2 DEF TypeOK
  <2> QED BY <2>1, <2>2 DEF Receive
<1>5. TypeOK'
  BY <1>1, <1>2, <1>3, <1>4, NullAssumption DEF TypeOK, registry, workers, callers, channels, counts, ops
<1>6. Control'
  BY <1>1, CallerFrame DEF TypeOK, registry, workers, callers, channels, counts, ops
<1> QED BY <1>5, <1>6

(* Caller keeps the types and the mutex discipline. *)
LEMMA CallerKeepsControl ==
  ASSUME TypeOK, Control, NEW r \in Requests, Caller(r)
  PROVE  TypeOK' /\ Control'
<1>1. CASE Lookup(r)
  <2>0. /\ pc[r] = "start" /\ UNCHANGED <<registry, queue, closing, workers, msg,
                 ctxDone, got, early, channels, counts, ops>>
        /\ pq' = [pq EXCEPT ![r] = requestQueues]
        /\ pc' = [pc EXCEPT ![r] = IF requestQueues = NoGen THEN "lock" ELSE "have"]
    BY <1>1 DEF Lookup
  <2>1. TypeOK'
    BY <2>0 DEF TypeOK, registry, workers, callers, channels, counts, ops
  <2>2. Control'
    <3>1. /\ pc'[r] \in {"have", "send", "await"} => pq'[r] \in Gens
          /\ msg'[r] = NoMsg /\ pc'[r] \notin {"send", "await"}
      BY <2>0 DEF TypeOK, Control, CallerHolds, NoGen
    <3> QED BY <2>0, <3>1, CallerFrame DEF TypeOK, registry, workers, ops
  <2> QED BY <2>1, <2>2
<1>2. CASE LookupLocked(r)
  BY <1>2, LookupLockedControl
<1>3. CASE ShortCircuit(r)
  <2>1. TypeOK'
    BY <1>3, NullAssumption DEF ShortCircuit, RunHooks, TypeOK, Gens, NoGen, Ops,
       registry, workers, callers, channels, counts, ops
  <2>2. Control'
    BY <1>3, CallerFrame, NullAssumption DEF ShortCircuit, RunHooks, TypeOK, Control, CallerHolds, Gens, NoGen,
       registry, workers, callers, channels, counts, ops
  <2> QED BY <2>1, <2>2
<1>4. CASE Enter(r)
  BY <1>4, EnterControl
<1>5. CASE Send(r)
  <2>0. /\ pc[r] = "send" /\ UNCHANGED <<registry, closing, workers, pq, msg, ctxDone,
                 got, channels, counts, ops>>
        /\ queue' = [queue EXCEPT ![pq[r]] = Append(queue[pq[r]], msg[r])]
        /\ pc' = [pc EXCEPT ![r] = "await"]
        /\ early' \subseteq Requests
    BY <1>5 DEF Send, TypeOK
  <2>3. pq[r] \in Gens /\ msg[r] \in Msgs /\ msg[r] # NoMsg
    BY <2>0, NullAssumption DEF TypeOK, Control, CallerHolds
  <2>4. queue' \in [Gens -> Seq(Msgs)]
    BY <2>0, <2>3 DEF TypeOK
  <2>1. TypeOK'
    BY <2>0, <2>4 DEF TypeOK, registry, workers, callers, channels, counts, ops
  <2>2. Control'
    BY <2>0, <2>3, CallerFrame DEF TypeOK, registry, workers, ops
  <2> QED BY <2>1, <2>2
<1>6. CASE SendRefused(r)
  <2>0. /\ pc[r] = "send" /\ UNCHANGED <<registry, queue, closing, workers, pq,
                 ctxDone, got, early, body, response, errs, counts, ops>>
        /\ pool' = pool \cup {msg[r]}
        /\ msg' = [msg EXCEPT ![r] = NoMsg]
        /\ pc' = [pc EXCEPT ![r] = "over"]
    BY <1>6 DEF SendRefused, Release
  <2>3. msg[r] \in Msgs
    BY <2>0 DEF TypeOK, Control, CallerHolds
  <2>1. TypeOK'
    BY <2>0, <2>3 DEF TypeOK, registry, workers, callers, channels, counts, ops
  <2>2. Control'
    BY <2>0, CallerFrame DEF TypeOK, registry, workers, ops
  <2> QED BY <2>1, <2>2
<1>7. CASE Receive(r)
  BY <1>7, ReceiveControl
<1>8. CASE Abandon(r)
  <2>1. TypeOK'
    BY <1>8, NullAssumption DEF Abandon, Forget, TypeOK, Gens, NoGen, Ops,
       registry, workers, callers, channels, counts, ops
  <2>2. Control'
    BY <1>8, CallerFrame, NullAssumption DEF Abandon, Forget, TypeOK, Control, CallerHolds, Gens, NoGen,
       registry, workers, callers, channels, counts, ops
  <2> QED BY <2>1, <2>2
<1> QED
  BY <1>1, <1>2, <1>3, <1>4, <1>5, <1>6, <1>7, <1>8 DEF Caller

(* Take, step by step. *)
LEMMA TakeControl ==
  ASSUME TypeOK, Control, NEW w \in Workers, Take(w)
  PROVE  TypeOK' /\ Control'
<1>1. w[1] \in Gens
  BY DEF Workers
<1>2. /\ queue' \in [Gens -> Seq(Msgs)]
      /\ Head(queue[w[1]]) \in Msgs
  BY <1>1, DequeueType DEF Take
<1>3. runs' \in [Requests -> Nat]
  BY CounterType DEF Take, TypeOK
<1>4. /\ job' = [job EXCEPT ![w] = Head(queue[w[1]])]
      /\ task' = [task EXCEPT ![w] = body[Head(queue[w[1]])]]
      /\ worker' = [worker EXCEPT ![w] = "busy"]
      /\ UNCHANGED <<registry, closing, cleanup, callers, channels, hooks, ops>>
  BY DEF Take
<1>5. TypeOK'
  BY <1>2, <1>3, <1>4, NullAssumption DEF TypeOK, registry, workers, callers, channels, counts, ops
<1>6. Control'
  <2>1. WorkerHolds'
    BY <1>2, <1>3, <1>4, NullAssumption DEF TypeOK, Control, WorkerHolds
  <2> QED BY <1>4, <2>1, WorkerFrame DEF registry, callers, ops
<1> QED BY <1>5, <1>6

(* Deliver, step by step. *)
LEMMA DeliverControl ==
  ASSUME TypeOK, Control, NEW w \in Workers, Deliver(w)
  PROVE  TypeOK' /\ Control'
<1>1. /\ response' \in [Msgs -> Requests \cup {NoReq}]
      /\ errs' \in [Msgs -> Requests \cup {NoReq}]
  <2>1. CASE response' = [response EXCEPT ![job[w]] = task[w]] /\ errs' = errs
    BY <2>1 DEF TypeOK
  <2>2. CASE errs' = [errs EXCEPT ![job[w]] = task[w]] /\ response' = response
    BY <2>2 DEF TypeOK
  <2> QED BY <2>1, <2>2 DEF Deliver
<1>2. /\ job' = [job EXCEPT ![w] = NoMsg]
      /\ task' = [task EXCEPT ![w] = NoReq]
      /\ worker' = [worker EXCEPT ![w] = "idle"]
      /\ UNCHANGED <<registry, queue, closing, cleanup, callers, pool, body,
                     counts, ops>>
  BY DEF Deliver
<1>5. TypeOK'
  BY <1>1, <1>2, NullAssumption DEF TypeOK, registry, workers, callers, channels, counts, ops
<1>6. Control'
  <2>1. WorkerHolds'
    BY <1>1, <1>2, NullAssumption DEF TypeOK, Control, WorkerHolds
  <2> QED BY <1>2, <2>1, WorkerFrame DEF registry, callers, ops
<1> QED BY <1>5, <1>6

(* BillAbandonedTerminal, step by step. *)
LEMMA BillAbandonedTerminalControl ==
  ASSUME TypeOK, Control, NEW w \in Workers, BillAbandonedTerminal(w)
  PROVE  TypeOK' /\ Control'
<1>1. hooks' \in [Requests -> Nat]
  BY HooksType DEF BillAbandonedTerminal, RunResultHooks
<1>2. /\ job' = [job EXCEPT ![w] = NoMsg]
      /\ task' = [task EXCEPT ![w] = NoReq]
      /\ worker' = [worker EXCEPT ![w] = "idle"]
      /\ UNCHANGED <<registry, queue, closing, cleanup, callers, channels, runs,
                     ops>>
  BY DEF BillAbandonedTerminal
<1>5. TypeOK'
  BY <1>1, <1>2, NullAssumption DEF TypeOK, registry, workers, callers, channels, counts, ops
<1>6. Control'
  <2>1. WorkerHolds'
    BY <1>1, <1>2, NullAssumption DEF TypeOK, Control, WorkerHolds
  <2> QED BY <1>2, <2>1, WorkerFrame DEF registry, callers, ops
<1> QED BY <1>5, <1>6

(* Worker keeps the types and the mutex discipline. *)
LEMMA WorkerKeepsControl ==
  ASSUME TypeOK, Control, NEW w \in Workers, Worker(w)
  PROVE  TypeOK' /\ Control'
<1>1. CASE Take(w)
  BY <1>1, TakeControl
<1>2. CASE Deliver(w)
  BY <1>2, DeliverControl
<1>3. CASE BillAbandonedTerminal(w)
  BY <1>3, BillAbandonedTerminalControl
<1>5. CASE WorkerDrain(w)
  <2>1. w[1] \in Gens
    BY <1>5 DEF WorkerDrain, Workers
  <2> QED BY <1>5, <2>1, DrainControl DEF WorkerDrain
<1>4. CASE SeeDone(w)
  <2>1. TypeOK'
    BY <1>4 DEF SeeDone, TypeOK, registry, workers, callers, channels, counts, ops
  <2>2. WorkerHolds'
    BY <1>4 DEF SeeDone, TypeOK, Control, WorkerHolds, workers
  <2>3. Control'
    BY <1>4, <2>2, WorkerFrame DEF SeeDone, registry, callers, ops
  <2> QED BY <2>1, <2>3
<1>6. CASE Exit(w)
  <2>1. TypeOK'
    BY <1>6 DEF Exit, TypeOK, registry, workers, callers, channels, counts, ops
  <2>2. WorkerHolds'
    BY <1>6 DEF Exit, TypeOK, Control, WorkerHolds, workers
  <2>3. Control'
    BY <1>6, <2>2, WorkerFrame DEF Exit, registry, callers, ops
  <2> QED BY <2>1, <2>3
<1> QED
  BY <1>1, <1>2, <1>3, <1>4, <1>5, <1>6 DEF Worker

(* Cleanup keeps the types and the mutex discipline. *)
LEMMA CleanupKeepsControl ==
  ASSUME TypeOK, Control, NEW g \in Gens, Cleanup(g)
  PROVE  TypeOK' /\ Control'
<1>2. CASE CleanupDrain(g)
  <2>1. g \in Gens
    BY <1>2 DEF CleanupDrain, Gens
  <2> QED BY <1>2, <2>1, DrainControl DEF CleanupDrain
<1>1. CASE CleanupWait(g)
  <2>1. TypeOK'
    BY <1>1 DEF CleanupWait, TypeOK, registry, workers, callers, channels, counts, ops
  <2>2. WorkerHolds'
    BY <1>1 DEF CleanupWait, TypeOK, Control, WorkerHolds, workers
  <2>3. Control'
    BY <1>1, <2>2, WorkerFrame DEF CleanupWait, registry, callers, ops
  <2> QED BY <2>1, <2>3
<1>3. CASE CleanupEnd(g)
  <2>1. TypeOK'
    BY <1>3 DEF CleanupEnd, TypeOK, registry, workers, callers, channels, counts, ops
  <2>2. WorkerHolds'
    BY <1>3 DEF CleanupEnd, TypeOK, Control, WorkerHolds, workers
  <2>3. Control'
    BY <1>3, <2>2, WorkerFrame DEF CleanupEnd, registry, callers, ops
  <2> QED BY <2>1, <2>3
<1> QED
  BY <1>1, <1>2, <1>3 DEF Cleanup

(* UpdateBegin, step by step. *)
LEMMA UpdateBeginControl ==
  ASSUME TypeOK, Control, NEW u \in Updates, UpdateBegin(u)
  PROVE  TypeOK' /\ Control'
<1>1. PICK x \in {"over", "lock"} : opc' = [opc EXCEPT ![u] = x]
  BY DEF UpdateBegin
<1>2. /\ opc[u] = "start"
      /\ UNCHANGED <<registry, queue, closing, workers, callers, channels,
                     counts, old, hand>>
  BY DEF UpdateBegin
<1>5. TypeOK'
  BY <1>1, <1>2, NullAssumption DEF TypeOK, Ops, registry, workers, callers, channels, counts, ops
<1>6. Control'
  BY <1>1, <1>2, OpFrame, ActorAssumption, NullAssumption DEF TypeOK, Control, UpdateLocked, Ops,
     registry, workers, callers, channels, counts, ops
<1> QED BY <1>5, <1>6

(* TransferCancel, step by step. *)
LEMMA TransferCancelControl ==
  ASSUME TypeOK, Control, NEW u \in Updates, TransferCancel(u)
  PROVE  TypeOK' /\ Control'
<1>1. errs' \in [Msgs -> Requests \cup {NoReq}]
  BY FailType DEF TransferCancel
<1>2. /\ opc[u] = "transfer"
      /\ hand' = [hand EXCEPT ![u] = NoMsg]
      /\ opc' = [opc EXCEPT ![u] = "cancel"]
      /\ UNCHANGED <<registry, queue, closing, workers, callers, pool, body,
                     response, counts, old>>
  BY DEF TransferCancel
<1>5. TypeOK'
  BY <1>1, <1>2, NullAssumption DEF TypeOK, Ops, registry, workers, callers, channels, counts, ops
<1>6. Control'
  BY <1>1, <1>2, OpFrame, ActorAssumption, NullAssumption DEF TypeOK, Control, UpdateLocked, Ops,
     registry, workers, callers, channels, counts, ops
<1> QED BY <1>5, <1>6

(* Update keeps the types and the mutex discipline. *)
LEMMA UpdateKeepsControl ==
  ASSUME TypeOK, Control, NEW u \in Updates, Update(u)
  PROVE  TypeOK' /\ Control'
<1>1. CASE UpdateBegin(u)
  BY <1>1, UpdateBeginControl
<1>7. CASE TransferCancel(u)
  BY <1>7, TransferCancelControl
<1>8. CASE CancelRest(u)
  <2>1. old[u] \in Gens
    BY <1>8 DEF CancelRest, Control, UpdateLocked
  <2> QED BY <1>8, <2>1, DrainControl DEF CancelRest
<1>3. CASE UpdateFail(u)
  <2>1. TypeOK'
    BY <1>3, NullAssumption DEF UpdateFail, TypeOK, Gens, NoGen, Ops,
       registry, workers, callers, channels, counts, ops
  <2>2. Control'
    BY <1>3, OpFrame, ActorAssumption, NullAssumption DEF UpdateFail, TypeOK, Control, UpdateLocked, Ops, Gens, NoGen,
       registry, workers, callers, channels, counts, ops
  <2> QED BY <2>1, <2>2
<1>5. CASE TransferTake(u)
  <2>0. /\ opc[u] = "transfer" /\ old[u] \in Gens /\ queue[old[u]] # <<>>
        /\ mutex = u /\ requestQueues \in Gens
        /\ Dequeue(old[u])
        /\ hand' = [hand EXCEPT ![u] = Head(queue[old[u]])]
        /\ UNCHANGED <<registry, closing, workers, callers, channels, counts, opc, old>>
    BY <1>5 DEF TransferTake, Control, UpdateLocked
  <2>3. queue' \in [Gens -> Seq(Msgs)] /\ Head(queue[old[u]]) \in Msgs
    BY <2>0, DequeueType
  <2>1. TypeOK'
    BY <2>0, <2>3 DEF TypeOK, registry, workers, callers, channels, counts, ops
  <2>2. Control'
    BY <2>0, OpFrame, ActorAssumption DEF TypeOK, Ops, registry, workers, callers
  <2> QED BY <2>1, <2>2
<1>6. CASE TransferPut(u)
  <2>0. /\ opc[u] = "transfer" /\ mutex = u /\ old[u] \in Gens
        /\ requestQueues \in Gens /\ hand[u] \in Msgs
        /\ queue' = [queue EXCEPT ![requestQueues] = Append(queue[requestQueues], hand[u])]
        /\ hand' = [hand EXCEPT ![u] = NoMsg]
        /\ UNCHANGED <<registry, closing, workers, callers, channels, counts, opc, old>>
    BY <1>6 DEF TransferPut, TypeOK, Control, UpdateLocked, Ops
  <2>3. queue' \in [Gens -> Seq(Msgs)]
    BY <2>0 DEF TypeOK
  <2>1. TypeOK'
    BY <2>0, <2>3 DEF TypeOK, registry, workers, callers, channels, counts, ops
  <2>2. Control'
    BY <2>0, OpFrame, ActorAssumption DEF TypeOK, Ops, registry, workers, callers
  <2> QED BY <2>1, <2>2
<1>9. CASE TransferEnd(u)
  <2>1. TypeOK'
    BY <1>9, NullAssumption DEF TransferEnd, TypeOK, Gens, NoGen, Ops,
       registry, workers, callers, channels, counts, ops
  <2>2. Control'
    BY <1>9, OpFrame, ActorAssumption, NullAssumption DEF TransferEnd, TypeOK, Control, UpdateLocked, Ops, Gens, NoGen,
       registry, workers, callers, channels, counts, ops
  <2> QED BY <2>1, <2>2
<1> USE RequestAssumption, NullAssumption, ActorAssumption, MaxGenAssumption
    DEF TypeOK, Control, PrepareLocked, PrepareNewest, RemovalLocked,
        UpdateLocked, ShutdownKnows, CallerHolds, WorkerHolds, registry,
        workers, callers, channels, counts, ops, Gens, NoGen, Ops, Workers
<1>2. CASE UpdateAbsent(u)
  BY <1>2 DEF UpdateAbsent, BeginPrepare
<1>4. CASE UpdatePublish(u)
  BY <1>4 DEF UpdatePublish, StartWorkers
<1>10. CASE UpdateFinish(u)
  BY <1>10 DEF UpdateFinish, signalClosing
<1> HIDE DEF TypeOK, Control
<1> QED
  BY <1>1, <1>2, <1>3, <1>4, <1>5, <1>6, <1>7, <1>8, <1>9, <1>10 DEF Update

(* RemoveBegin, step by step. *)
LEMMA RemoveBeginControl ==
  ASSUME TypeOK, Control, NEW d \in Removals, RemoveBegin(d)
  PROVE  TypeOK' /\ Control'
<1>1. /\ opc[d] = "start" /\ mutex = Free
      /\ UNCHANGED <<requestQueues, waitGroups, providers, lastGen, prep, queue,
                     workers, callers, channels, counts, hand>>
  BY DEF RemoveBegin
<1>2. CASE /\ requestQueues = NoGen
           /\ opc' = [opc EXCEPT ![d] = "over"]
           /\ UNCHANGED <<mutex, closing, old>>
  <2> USE RequestAssumption, NullAssumption, ActorAssumption, MaxGenAssumption
      DEF TypeOK, Control, PrepareLocked, PrepareNewest, RemovalLocked,
          UpdateLocked, ShutdownKnows, CallerHolds, WorkerHolds, registry,
          workers, callers, channels, counts, ops, Gens, NoGen, Ops, Workers
  <2> QED BY <1>1, <1>2
<1>3. CASE /\ requestQueues # NoGen
           /\ opc' = [opc EXCEPT ![d] = "wait"]
           /\ mutex' = d
           /\ old' = [old EXCEPT ![d] = requestQueues]
           /\ signalClosing(requestQueues)
  <2> USE RequestAssumption, NullAssumption, ActorAssumption, MaxGenAssumption
      DEF TypeOK, Control, PrepareLocked, PrepareNewest, RemovalLocked,
          UpdateLocked, ShutdownKnows, CallerHolds, WorkerHolds, registry,
          workers, callers, channels, counts, ops, Gens, NoGen, Ops, Workers
  <2> QED BY <1>1, <1>3 DEF signalClosing
<1> QED BY <1>2, <1>3 DEF RemoveBegin

(* Removal keeps the types and the mutex discipline. *)
LEMMA RemovalKeepsControl ==
  ASSUME TypeOK, Control, NEW d \in Removals, Removal(d)
  PROVE  TypeOK' /\ Control'
<1>1. CASE RemoveBegin(d)
  BY <1>1, RemoveBeginControl
<1>3. CASE RemoveDrain(d)
  <2>1. old[d] \in Gens
    BY <1>3 DEF RemoveDrain, Control, RemovalLocked
  <2> QED BY <1>3, <2>1, DrainControl DEF RemoveDrain
<1>2. CASE RemoveWait(d)
  <2>1. TypeOK'
    BY <1>2, NullAssumption DEF RemoveWait, TypeOK, Gens, NoGen, Ops,
       registry, workers, callers, channels, counts, ops
  <2>2. Control'
    BY <1>2, OpFrame, ActorAssumption, NullAssumption DEF RemoveWait, TypeOK, Control, RemovalLocked, Ops, Gens, NoGen,
       registry, workers, callers, channels, counts, ops
  <2> QED BY <2>1, <2>2
<1>4. CASE RemoveDrained(d)
  <2>1. TypeOK'
    BY <1>4, NullAssumption DEF RemoveDrained, TypeOK, Gens, NoGen, Ops,
       registry, workers, callers, channels, counts, ops
  <2>2. Control'
    BY <1>4, OpFrame, ActorAssumption, NullAssumption DEF RemoveDrained, TypeOK, Control, RemovalLocked, Ops, Gens, NoGen,
       registry, workers, callers, channels, counts, ops
  <2> QED BY <2>1, <2>2
<1>5. CASE RemoveFinish(d)
  <2>1. TypeOK'
    BY <1>5 DEF RemoveFinish, TypeOK, Gens, NoGen, Ops, registry, workers, callers, channels, counts, ops
  <2>2. mutex = d /\ prep = "none" /\ opc[d] = "retired"
    BY <1>5, ActorAssumption DEF RemoveFinish, TypeOK, Control, RemovalLocked,
       PrepareLocked, Ops
  <2>3. /\ mutex' = Free /\ prep' = "none" /\ opc'[d] = "over"
        /\ \A p \in Ops : p # d => opc'[p] = opc[p]
        /\ UNCHANGED <<pc, pq, msg, worker, job, old, hand>>
    BY <1>5, <2>2 DEF RemoveFinish, TypeOK, Ops, workers, callers
  <2>4. PrepareLocked' /\ PrepareNewest' /\ CallerHolds' /\ WorkerHolds' /\ ShutdownKnows'
    BY <2>3, ActorAssumption DEF Control, PrepareLocked, PrepareNewest, CallerHolds,
       WorkerHolds, ShutdownKnows, Ops
  <2>5. RemovalLocked' /\ UpdateLocked'
    BY <2>2, <2>3, ActorAssumption DEF Control, RemovalLocked, UpdateLocked, Ops
  <2> QED BY <2>1, <2>4, <2>5 DEF Control
<1> QED
  BY <1>1, <1>2, <1>3, <1>4, <1>5 DEF Removal

(* GetterLocked, step by step. *)
LEMMA GetterLockedControl ==
  ASSUME TypeOK, Control, NEW k \in Getters, GetterLocked(k)
  PROVE  TypeOK' /\ Control'
<1>1. /\ opc[k] = "lock" /\ mutex = Free
      /\ UNCHANGED <<requestQueues, waitGroups, providers, lastGen, queue, closing,
                     workers, callers, channels, counts, old, hand>>
  BY DEF GetterLocked
<1>2. CASE opc' = [opc EXCEPT ![k] = "over"] /\ UNCHANGED <<mutex, prep>>
  <2> USE RequestAssumption, NullAssumption, ActorAssumption, MaxGenAssumption
      DEF TypeOK, Control, PrepareLocked, PrepareNewest, RemovalLocked,
          UpdateLocked, ShutdownKnows, CallerHolds, WorkerHolds, registry,
          workers, callers, channels, counts, ops, Gens, NoGen, Ops, Workers
  <2> QED BY <1>1, <1>2
<1>3. CASE opc' = [opc EXCEPT ![k] = "prepare"] /\ BeginPrepare(k)
  <2> USE RequestAssumption, NullAssumption, ActorAssumption, MaxGenAssumption
      DEF TypeOK, Control, PrepareLocked, PrepareNewest, RemovalLocked,
          UpdateLocked, ShutdownKnows, CallerHolds, WorkerHolds, registry,
          workers, callers, channels, counts, ops, Gens, NoGen, Ops, Workers
  <2> QED BY <1>1, <1>3 DEF BeginPrepare
<1> QED BY <1>2, <1>3 DEF GetterLocked

(* GetterLook, step by step. *)
LEMMA GetterLookControl ==
  ASSUME TypeOK, Control, NEW k \in Getters, GetterLook(k)
  PROVE  TypeOK' /\ Control'
<1>1. PICK x \in {"over", "lock"} : opc' = [opc EXCEPT ![k] = x]
  BY DEF GetterLook
<1>2. /\ opc[k] = "start"
      /\ UNCHANGED <<registry, queue, closing, workers, callers, channels,
                     counts, old, hand>>
  BY DEF GetterLook
<1>5. TypeOK'
  BY <1>1, <1>2, NullAssumption DEF TypeOK, Ops, registry, workers, callers, channels, counts, ops
<1>6. Control'
  BY <1>1, <1>2, OpFrame, ActorAssumption, NullAssumption DEF TypeOK, Control, UpdateLocked, Ops,
     registry, workers, callers, channels, counts, ops
<1> QED BY <1>5, <1>6

(* Getter keeps the types and the mutex discipline. *)
LEMMA GetterKeepsControl ==
  ASSUME TypeOK, Control, NEW k \in Getters, Getter(k)
  PROVE  TypeOK' /\ Control'
  BY GetterLookControl, GetterLockedControl DEF Getter

(* Shutdown keeps the types and the mutex discipline. *)
LEMMA ShutdownKeepsControl ==
  ASSUME TypeOK, Control, NEW s \in Shutdowns, Shutdown(s)
  PROVE  TypeOK' /\ Control'
<1>6. CASE ShutdownDrain(s)
  <2>1. old[s] \in Gens
    BY <1>6 DEF ShutdownDrain, Control, ShutdownKnows
  <2> QED BY <1>6, <2>1, DrainControl DEF ShutdownDrain
<1>1. CASE ShutdownBegin(s)
  <2>1. TypeOK'
    BY <1>1, NullAssumption DEF ShutdownBegin, TypeOK, Gens, NoGen, Ops,
       registry, workers, callers, channels, counts, ops
  <2>2. Control'
    BY <1>1, OpFrame, ActorAssumption, NullAssumption DEF ShutdownBegin, TypeOK, Control, ShutdownKnows, Ops, Gens, NoGen,
       registry, workers, callers, channels, counts, ops
  <2> QED BY <2>1, <2>2
<1>2. CASE ShutdownSignal(s)
  <2>1. TypeOK'
    BY <1>2, NullAssumption DEF ShutdownSignal, TypeOK, Gens, NoGen, Ops,
       registry, workers, callers, channels, counts, ops
  <2>2. Control'
    BY <1>2, OpFrame, ActorAssumption, NullAssumption DEF ShutdownSignal, TypeOK, Control, ShutdownKnows, Ops, Gens, NoGen,
       registry, workers, callers, channels, counts, ops
  <2> QED BY <2>1, <2>2
<1>3. CASE ShutdownLoad(s)
  <2>1. TypeOK'
    BY <1>3, NullAssumption DEF ShutdownLoad, TypeOK, Gens, NoGen, Ops,
       registry, workers, callers, channels, counts, ops
  <2>2. Control'
    BY <1>3, OpFrame, ActorAssumption, NullAssumption DEF ShutdownLoad, TypeOK, Control, ShutdownKnows, Ops, Gens, NoGen,
       registry, workers, callers, channels, counts, ops
  <2> QED BY <2>1, <2>2
<1>4. CASE ShutdownWait(s)
  <2>1. TypeOK'
    BY <1>4, NullAssumption DEF ShutdownWait, TypeOK, Gens, NoGen, Ops,
       registry, workers, callers, channels, counts, ops
  <2>2. Control'
    BY <1>4, OpFrame, ActorAssumption, NullAssumption DEF ShutdownWait, TypeOK, Control, ShutdownKnows, Ops, Gens, NoGen,
       registry, workers, callers, channels, counts, ops
  <2> QED BY <2>1, <2>2
<1>5. CASE ShutdownCleanups(s)
  <2>1. TypeOK'
    BY <1>5, NullAssumption DEF ShutdownCleanups, TypeOK, Gens, NoGen, Ops,
       registry, workers, callers, channels, counts, ops
  <2>2. Control'
    BY <1>5, OpFrame, ActorAssumption, NullAssumption DEF ShutdownCleanups, TypeOK, Control, ShutdownKnows, Ops, Gens, NoGen,
       registry, workers, callers, channels, counts, ops
  <2> QED BY <2>1, <2>2
<1>7. CASE ShutdownEnd(s)
  <2>1. TypeOK'
    BY <1>7, NullAssumption DEF ShutdownEnd, TypeOK, Gens, NoGen, Ops,
       registry, workers, callers, channels, counts, ops
  <2>2. Control'
    BY <1>7, OpFrame, ActorAssumption, NullAssumption DEF ShutdownEnd, TypeOK, Control, ShutdownKnows, Ops, Gens, NoGen,
       registry, workers, callers, channels, counts, ops
  <2> QED BY <2>1, <2>2
<1> QED
  BY <1>1, <1>2, <1>3, <1>4, <1>5, <1>6, <1>7 DEF Shutdown

------------------------------------------------------------------------------
(* Second layer: every message has one owner.                              *)

(* What is queued, by position. *)
LEMMA QueuedAt ==
  ASSUME queue \in [Gens -> Seq(Msgs)], NEW m
  PROVE  Queued(m) <=> \E g \in Gens : \E i \in 1..Len(queue[g]) : queue[g][i] = m
<1>1. \A g \in Gens : Range(queue[g]) = {queue[g][i] : i \in 1..Len(queue[g])}
  BY DEF Range
<1> QED
  BY <1>1 DEF Queued

(* The same after a step. *)
LEMMA QueuedAtNext ==
  ASSUME queue' \in [Gens -> Seq(Msgs)], NEW m
  PROVE  Queued(m)' <=> \E g \in Gens : \E i \in 1..Len(queue'[g]) : queue'[g][i] = m
<1>1. \A g \in Gens : Range(queue'[g]) = {queue'[g][i] : i \in 1..Len(queue'[g])}
  BY DEF Range
<1> QED
  BY <1>1 DEF Queued

(* A receive takes one message out of every queue's contents and keeps the
   others distinct. *)
LEMMA DequeueFacts ==
  ASSUME TypeOK, QueuedOnce, NEW g \in Gens, queue[g] # <<>>, Dequeue(g)
  PROVE  /\ QueuedOnce'
         /\ Head(queue[g]) \in Msgs /\ Queued(Head(queue[g]))
         /\ \A m : Queued(m)' <=> Queued(m) /\ m # Head(queue[g])
<1> DEFINE q == queue[g]
<1>1. /\ queue \in [Gens -> Seq(Msgs)]
      /\ queue' = [queue EXCEPT ![g] = Tail(q)]
      /\ q \in Seq(Msgs) /\ Len(q) \in Nat /\ Len(q) >= 1
  BY DEF TypeOK, Dequeue
<1>2. /\ Tail(q) \in Seq(Msgs) /\ Len(Tail(q)) = Len(q) - 1
      /\ \A i \in 1..Len(Tail(q)) : Tail(q)[i] = q[i + 1]
      /\ Head(q) = q[1] /\ q[1] \in Msgs
  BY <1>1
<1>3. /\ queue' \in [Gens -> Seq(Msgs)]
      /\ queue'[g] = Tail(q)
      /\ \A h \in Gens : h # g => queue'[h] = queue[h]
  BY <1>1, <1>2
<1>4. QueuedOnce'
  BY <1>1, <1>2, <1>3 DEF QueuedOnce
<1>5. Queued(Head(q))
  BY <1>1, <1>2, QueuedAt
<1>6. ASSUME NEW m PROVE Queued(m)' <=> Queued(m) /\ m # Head(q)
  <2>1. Queued(m)' => Queued(m) /\ m # Head(q)
    <3>1. SUFFICES ASSUME NEW h \in Gens, NEW i \in 1..Len(queue'[h]), queue'[h][i] = m
                   PROVE  Queued(m) /\ m # q[1]
      BY <1>2, <1>3, QueuedAtNext
    <3>2. CASE h = g
      <4>1. i + 1 \in 1..Len(q) /\ q[i + 1] = m
        BY <1>1, <1>2, <1>3, <3>1, <3>2
      <4>2. m # q[1]
        BY <1>1, <4>1 DEF QueuedOnce
      <4> QED BY <1>1, <4>1, <4>2, QueuedAt
    <3>3. CASE h # g
      <4>1. i \in 1..Len(queue[h]) /\ queue[h][i] = m
        BY <1>3, <3>1, <3>3
      <4>2. m # q[1]
        BY <1>1, <3>3, <4>1 DEF QueuedOnce
      <4> QED BY <1>1, <4>1, <4>2, QueuedAt
    <3> QED BY <3>2, <3>3
  <2>2. Queued(m) /\ m # Head(q) => Queued(m)'
    <3>1. SUFFICES ASSUME NEW h \in Gens, NEW i \in 1..Len(queue[h]), queue[h][i] = m,
                          m # q[1]
                   PROVE  Queued(m)'
      BY <1>1, <1>2, QueuedAt
    <3>2. CASE h = g
      <4>1. i - 1 \in 1..Len(Tail(q)) /\ Tail(q)[i - 1] = m
        BY <1>1, <1>2, <3>1, <3>2
      <4> QED BY <1>3, <4>1, QueuedAtNext
    <3>3. CASE h # g
      <4>1. i \in 1..Len(queue'[h]) /\ queue'[h][i] = m
        BY <1>3, <3>1, <3>3
      <4> QED BY <1>3, <4>1, QueuedAtNext
    <3> QED BY <3>2, <3>3
  <2> QED BY <2>1, <2>2
<1> QED BY <1>1, <1>2, <1>4, <1>5, <1>6

(* A send adds one message, which must not be queued already. *)
LEMMA EnqueueFacts ==
  ASSUME TypeOK, QueuedOnce, NEW g \in Gens, NEW n \in Msgs, ~Queued(n),
         queue' = [queue EXCEPT ![g] = Append(queue[g], n)]
  PROVE  /\ QueuedOnce'
         /\ \A m : Queued(m)' <=> Queued(m) \/ m = n
<1> DEFINE q == queue[g]
<1>1. queue \in [Gens -> Seq(Msgs)] /\ q \in Seq(Msgs) /\ Len(q) \in Nat
  BY DEF TypeOK
<1>2. /\ Append(q, n) \in Seq(Msgs) /\ Len(Append(q, n)) = Len(q) + 1
      /\ \A i \in 1..Len(q) : Append(q, n)[i] = q[i]
      /\ Append(q, n)[Len(q) + 1] = n
  BY <1>1
<1>3. /\ queue' \in [Gens -> Seq(Msgs)]
      /\ queue'[g] = Append(q, n)
      /\ \A h \in Gens : h # g => queue'[h] = queue[h]
  BY <1>1, <1>2
<1>4. \A h \in Gens : \A i \in 1..Len(queue[h]) : queue[h][i] # n
  BY <1>1, QueuedAt
<1>5. QueuedOnce'
  <2>1. \A h \in Gens : \A i \in 1..Len(queue'[h]) :
           \/ i \in 1..Len(queue[h]) /\ queue'[h][i] = queue[h][i]
           \/ h = g /\ i = Len(q) + 1 /\ queue'[h][i] = n
    BY <1>1, <1>2, <1>3
  <2> QED BY <1>4, <2>1 DEF QueuedOnce
<1>6. ASSUME NEW m PROVE Queued(m)' <=> Queued(m) \/ m = n
  <2>1. \A h \in Gens : \A i \in 1..Len(queue'[h]) :
           \/ i \in 1..Len(queue[h]) /\ queue'[h][i] = queue[h][i]
           \/ queue'[h][i] = n
    BY <1>1, <1>2, <1>3
  <2>2. \A h \in Gens : \A i \in 1..Len(queue[h]) :
           i \in 1..Len(queue'[h]) /\ queue'[h][i] = queue[h][i]
    BY <1>1, <1>2, <1>3
  <2>3. Len(q) + 1 \in 1..Len(queue'[g]) /\ queue'[g][Len(q) + 1] = n
    BY <1>1, <1>2, <1>3
  <2>4. Queued(m)' => Queued(m) \/ m = n
    BY <1>1, <1>3, <2>1, QueuedAt, QueuedAtNext
  <2>5. Queued(m) => Queued(m)'
    BY <1>1, <1>3, <2>2, QueuedAt, QueuedAtNext
  <2>6. m = n => Queued(m)'
    BY <1>3, <2>3, QueuedAtNext
  <2> QED BY <2>4, <2>5, <2>6
<1> QED BY <1>5, <1>6

(* Steps that move no message and start no send keep the ownership. *)
LEMMA OwnershipFrame ==
  ASSUME Ownership,
         UNCHANGED <<queue, job, task, hand, msg, pool, body, response, errs, got>>,
         \A r \in Requests : msg[r] # NoMsg /\ pc'[r] = "send" => pc[r] = "send"
  PROVE  Ownership'
<1>1. \A m : Queued(m)' <=> Queued(m)
  BY DEF Queued
<1>2. \A m : InTransit(m)' <=> InTransit(m)
  BY <1>1 DEF InTransit
<1>3. QueuedOnce'
  BY DEF Ownership, QueuedOnce
<1>4. OnePlace'
  BY <1>1 DEF Ownership, OnePlace
<1>5. Mine'
  BY <1>2 DEF Ownership, Mine
<1>6. Channels'
  BY <1>2 DEF Ownership, Channels
<1>7. NoCrossTalk'
  BY DEF Ownership, NoCrossTalk
<1> QED
  BY <1>3, <1>4, <1>5, <1>6, <1>7 DEF Ownership

(* getChannelMessage: a message of the pool is in no place and no other    *)
(* request holds it.                                                       *)
LEMMA EnterOwnership ==
  ASSUME TypeOK, Control, Ownership, NEW r \in Requests, Enter(r)
  PROVE  Ownership'
<1>1. /\ pc[r] = "have"
      /\ UNCHANGED <<queue, job, task, hand, got>>
  BY DEF Enter, registry, workers, counts, ops
<1>2. PICK m \in pool :
         /\ Fill(r, m)
         /\ \/ /\ pc' = [pc EXCEPT ![r] = "over"]
               /\ UNCHANGED <<pq, msg, pool>>
            \/ /\ msg' = [msg EXCEPT ![r] = m]
               /\ pool' = pool \ {m}
               /\ pc' = [pc EXCEPT ![r] = "send"]
  BY DEF Enter
<1>3. /\ m \in Msgs /\ ~InTransit(m)
      /\ \A s \in Requests : msg[s] # NoMsg => msg[s] # m
      /\ msg[r] = NoMsg
  <2>1. m \in Msgs
    BY DEF TypeOK
  <2>2. ~InTransit(m)
    BY <2>1 DEF Ownership, Channels
  <2>3. \A s \in Requests : msg[s] # NoMsg => msg[s] # m
    BY DEF Ownership, Mine
  <2>4. msg[r] = NoMsg
    BY <1>1 DEF Control, CallerHolds
  <2> QED BY <2>1, <2>2, <2>3, <2>4
<1>4. /\ body' = [body EXCEPT ![m] = r]
      /\ response' = [response EXCEPT ![m] = NoReq]
      /\ errs' = [errs EXCEPT ![m] = NoReq]
  BY <1>2 DEF Fill
<1>5. \A n : Queued(n)' <=> Queued(n)
  BY <1>1 DEF Queued
<1>6. \A n : InTransit(n)' <=> InTransit(n)
  BY <1>1, <1>5 DEF InTransit
<1>7. QueuedOnce' /\ OnePlace' /\ NoCrossTalk'
  <2>1. \A w \in Workers : job[w] # NoMsg => body'[job[w]] = body[job[w]]
    BY <1>3, <1>4 DEF InTransit, TypeOK
  <2> QED BY <1>1, <1>5, <2>1 DEF Ownership, QueuedOnce, OnePlace, NoCrossTalk
<1>8. Mine'
  BY <1>2, <1>3, <1>4, <1>6 DEF Ownership, Mine, TypeOK
<1>9. Channels'
  BY <1>2, <1>3, <1>4, <1>6 DEF Ownership, Channels, TypeOK
<1> QED
  BY <1>7, <1>8, <1>9 DEF Ownership

(* The send moves the caller's message into a queue. *)
LEMMA SendOwnership ==
  ASSUME TypeOK, Control, Ownership, NEW r \in Requests, Send(r)
  PROVE  Ownership'
<1> DEFINE m == msg[r]
<1>1. /\ pc[r] = "send" /\ pq[r] \in Gens
      /\ m \in Msgs /\ m # NoMsg
      /\ ~InTransit(m) /\ response[m] = NoReq /\ errs[m] = NoReq
      /\ m \notin pool
  BY NullAssumption DEF Send, TypeOK, Control, CallerHolds, Ownership, Mine
<1>2. /\ pc' = [pc EXCEPT ![r] = "await"]
      /\ queue' = [queue EXCEPT ![pq[r]] = Append(queue[pq[r]], m)]
      /\ UNCHANGED <<job, task, hand, msg, got, pool, body, response, errs>>
  BY DEF Send, workers, channels, ops
<1>3. /\ ~Queued(m)
      /\ \A w \in Workers : job[w] # m
      /\ \A o \in Ops : hand[o] # m
  BY <1>1 DEF InTransit
<1>4. QueuedOnce' /\ \A n : Queued(n)' <=> Queued(n) \/ n = m
  BY <1>1, <1>2, <1>3, EnqueueFacts DEF Ownership
<1>5. \A n : InTransit(n)' <=> InTransit(n) \/ n = m
  BY <1>2, <1>4 DEF InTransit
<1>6. OnePlace' /\ NoCrossTalk'
  BY <1>2, <1>3, <1>4 DEF Ownership, OnePlace, NoCrossTalk
<1>7. Mine'
  <2>1. \A s \in Requests : s # r /\ msg[s] # NoMsg => msg[s] # m
    BY <1>1 DEF Ownership, Mine
  <2> QED BY <1>1, <1>2, <1>5, <2>1 DEF Ownership, Mine, TypeOK
<1>8. Channels'
  BY <1>1, <1>2, <1>5 DEF Ownership, Channels
<1> QED
  BY <1>4, <1>6, <1>7, <1>8 DEF Ownership

(* releaseChannelMessage before the send: nobody else has the message. *)
LEMMA SendRefusedOwnership ==
  ASSUME TypeOK, Control, Ownership, NEW r \in Requests, SendRefused(r)
  PROVE  Ownership'
<1> DEFINE m == msg[r]
<1>1. /\ pc[r] = "send" /\ m \in Msgs /\ m # NoMsg
      /\ ~InTransit(m) /\ response[m] = NoReq /\ errs[m] = NoReq
  BY NullAssumption DEF SendRefused, TypeOK, Control, CallerHolds, Ownership, Mine
<1>2. /\ pc' = [pc EXCEPT ![r] = "over"]
      /\ pool' = pool \cup {m}
      /\ msg' = [msg EXCEPT ![r] = NoMsg]
      /\ UNCHANGED <<queue, job, task, hand, got, body, response, errs>>
  BY DEF SendRefused, Release, workers, ops
<1>3. \A n : Queued(n)' <=> Queued(n)
  BY <1>2 DEF Queued
<1>4. \A n : InTransit(n)' <=> InTransit(n)
  BY <1>2, <1>3 DEF InTransit
<1>5. QueuedOnce' /\ OnePlace' /\ NoCrossTalk'
  BY <1>2, <1>3 DEF Ownership, QueuedOnce, OnePlace, NoCrossTalk
<1>6. Mine'
  <2>1. \A s \in Requests : s # r /\ msg[s] # NoMsg => msg[s] # m
    BY <1>1 DEF Ownership, Mine
  <2> QED BY <1>1, <1>2, <1>4, <2>1 DEF Ownership, Mine, TypeOK
<1>7. Channels'
  BY <1>1, <1>2, <1>4 DEF Ownership, Channels
<1> QED
  BY <1>5, <1>6, <1>7 DEF Ownership

(* The answer that is received is the caller's own, and the message it     *)
(* came with has left every place, so it may go back to the pool.          *)
LEMMA ReceiveOwnership ==
  ASSUME TypeOK, Control, Ownership, NEW r \in Requests, Receive(r)
  PROVE  Ownership'
<1> DEFINE m == msg[r]
<1>1. /\ pc[r] = "await" /\ m \in Msgs /\ m # NoMsg
      /\ m \notin pool /\ body[m] = r
  BY NullAssumption DEF Receive, TypeOK, Control, CallerHolds, Ownership, Mine
<1>2. /\ pc' = [pc EXCEPT ![r] = "over"]
      /\ pool' = pool \cup {m}
      /\ msg' = [msg EXCEPT ![r] = NoMsg]
      /\ UNCHANGED <<queue, job, task, hand, body>>
  BY DEF Receive, Release, workers, ops
<1>3. /\ response[m] # NoReq \/ errs[m] # NoReq
      /\ got' = [got EXCEPT ![r] = r]
      /\ \A n \in Msgs : response'[n] = IF n = m THEN NoReq ELSE response[n]
      /\ \A n \in Msgs : errs'[n] = IF n = m THEN NoReq ELSE errs[n]
  <2>1. CASE /\ response[m] # NoReq
             /\ got' = [got EXCEPT ![r] = response[m]]
             /\ response' = [response EXCEPT ![m] = NoReq]
             /\ errs' = errs
    BY <1>1, <2>1 DEF TypeOK, Ownership, Channels
  <2>2. CASE /\ errs[m] # NoReq
             /\ got' = [got EXCEPT ![r] = errs[m]]
             /\ errs' = [errs EXCEPT ![m] = NoReq]
             /\ response' = response
    BY <1>1, <2>2 DEF TypeOK, Ownership, Channels
  <2> QED BY <2>1, <2>2 DEF Receive
<1>4. \A n : Queued(n)' <=> Queued(n)
  BY <1>2 DEF Queued
<1>5. \A n : InTransit(n)' <=> InTransit(n)
  BY <1>2, <1>4 DEF InTransit
<1>6. ~InTransit(m)
  BY <1>1, <1>3 DEF Ownership, Channels
<1>7. QueuedOnce' /\ OnePlace' /\ NoCrossTalk'
  BY <1>2, <1>3, <1>4 DEF Ownership, QueuedOnce, OnePlace, NoCrossTalk, TypeOK
<1>8. Mine'
  <2>1. \A s \in Requests : s # r /\ msg[s] # NoMsg => msg[s] # m /\ msg[s] \in Msgs
    BY <1>1 DEF Ownership, Mine, TypeOK
  <2> QED BY <1>1, <1>2, <1>3, <1>5, <2>1 DEF Ownership, Mine, TypeOK
<1>9. Channels'
  BY <1>1, <1>2, <1>3, <1>5, <1>6 DEF Ownership, Channels
<1> QED
  BY <1>7, <1>8, <1>9 DEF Ownership

(* A caller that gives up leaves its message where it is, out of the pool. *)
LEMMA AbandonOwnership ==
  ASSUME TypeOK, Control, Ownership, NEW r \in Requests, Abandon(r)
  PROVE  Ownership'
<1>1. /\ pc' = [pc EXCEPT ![r] = "over"]
      /\ msg' = [msg EXCEPT ![r] = NoMsg]
      /\ UNCHANGED <<queue, job, task, hand, got, pool, body, response, errs>>
  BY DEF Abandon, Forget, workers, ops
<1>2. \A n : Queued(n)' <=> Queued(n)
  BY <1>1 DEF Queued
<1>3. \A n : InTransit(n)' <=> InTransit(n)
  BY <1>1, <1>2 DEF InTransit
<1>4. QueuedOnce' /\ OnePlace' /\ NoCrossTalk' /\ Channels'
  BY <1>1, <1>2, <1>3 DEF Ownership, QueuedOnce, OnePlace, NoCrossTalk, Channels
<1>5. Mine'
  BY <1>1, <1>3 DEF Ownership, Mine, TypeOK
<1> QED
  BY <1>4, <1>5 DEF Ownership

(* A worker takes the head of its queue: the message changes place. *)
LEMMA TakeOwnership ==
  ASSUME TypeOK, Control, Ownership, NEW w \in Workers, Take(w)
  PROVE  Ownership'
<1> DEFINE m == Head(queue[w[1]])
<1>1. /\ w[1] \in Gens /\ queue[w[1]] # <<>> /\ Dequeue(w[1])
      /\ job' = [job EXCEPT ![w] = m] /\ task' = [task EXCEPT ![w] = body[m]]
      /\ UNCHANGED <<hand, msg, pc, got, pool, body, response, errs>>
  BY DEF Take, Workers, callers, channels, ops
<1>2. /\ QueuedOnce' /\ m \in Msgs /\ Queued(m)
      /\ \A n : Queued(n)' <=> Queued(n) /\ n # m
  BY <1>1, DequeueFacts DEF Ownership
<1>3. /\ \A v \in Workers : job[v] # m
      /\ \A o \in Ops : hand[o] # m
  BY <1>2, NullAssumption DEF Ownership, OnePlace
<1>4. \A n \in Msgs : InTransit(n)' => InTransit(n)
  BY <1>1, <1>2, NullAssumption DEF InTransit, TypeOK
<1>5. OnePlace'
  BY <1>1, <1>2, <1>3 DEF Ownership, OnePlace, TypeOK
<1>6. Mine' /\ NoCrossTalk'
  BY <1>1, <1>4 DEF Ownership, Mine, NoCrossTalk, TypeOK
<1>7. Channels'
  BY <1>1, <1>4 DEF Ownership, Channels
<1> QED
  BY <1>2, <1>5, <1>6, <1>7 DEF Ownership

(* The answer is written once, to empty channels, and the worker lets go   *)
(* of the message.                                                         *)
LEMMA DeliverOwnership ==
  ASSUME TypeOK, Control, Ownership, NEW w \in Workers, Deliver(w)
  PROVE  Ownership'
<1>0. PICK m : m = job[w]
  OBVIOUS
<1>1. /\ job' = [job EXCEPT ![w] = NoMsg] /\ task' = [task EXCEPT ![w] = NoReq]
      /\ UNCHANGED <<queue, hand, msg, pc, got, pool, body>>
  BY DEF Deliver, callers, ops
<1>2. \A n : Queued(n)' <=> Queued(n)
  BY <1>1 DEF Queued
<1>3. \A n \in Msgs : InTransit(n)' => InTransit(n)
  BY <1>1, <1>2, NullAssumption DEF InTransit, TypeOK
<1>4. QueuedOnce' /\ OnePlace' /\ NoCrossTalk'
  BY <1>1, <1>2 DEF Ownership, QueuedOnce, OnePlace, NoCrossTalk, TypeOK
<1>5. m \in Msgs => InTransit(m) /\ ~InTransit(m)'
  <2>1. SUFFICES ASSUME m \in Msgs PROVE InTransit(m) /\ ~InTransit(m)'
    OBVIOUS
  <2>2. InTransit(m)
    BY <1>0 DEF InTransit
  <2>3. ~Queued(m)' /\ \A o \in Ops : hand'[o] # m
    BY <1>0, <1>1, <1>2, <2>1, NullAssumption DEF Ownership, OnePlace
  <2>4. \A v \in Workers : job'[v] # m
    BY <1>0, <1>1, <2>1, NullAssumption DEF Ownership, OnePlace, TypeOK
  <2> QED BY <2>2, <2>3, <2>4 DEF InTransit
<1>6. m \in Msgs => m \notin pool /\ response[m] = NoReq /\ errs[m] = NoReq
  BY <1>5 DEF Ownership, Channels
<1>7. /\ \A n \in Msgs : n # m => response'[n] = response[n] /\ errs'[n] = errs[n]
      /\ m \in Msgs => \/ response'[m] = body[m] /\ errs'[m] = NoReq
                       \/ response'[m] = NoReq /\ errs'[m] = body[m]
  <2>1. task[w] = body[m] \/ m = NoMsg
    BY <1>0 DEF Ownership, OnePlace
  <2>2. CASE response' = [response EXCEPT ![m] = task[w]] /\ errs' = errs
    BY <1>6, <2>1, <2>2, NullAssumption DEF TypeOK
  <2>3. CASE errs' = [errs EXCEPT ![m] = task[w]] /\ response' = response
    BY <1>6, <2>1, <2>3, NullAssumption DEF TypeOK
  <2> QED BY <1>0, <2>2, <2>3 DEF Deliver
<1>8. Mine'
  BY <1>1, <1>3, <1>5, <1>7, NullAssumption DEF Ownership, Mine, TypeOK
<1>9. Channels'
  BY <1>1, <1>3, <1>5, <1>6, <1>7 DEF Ownership, Channels
<1> QED
  BY <1>4, <1>8, <1>9 DEF Ownership

(* The worker lets go of a message without writing to it. *)
LEMMA BillOwnership ==
  ASSUME TypeOK, Control, Ownership, NEW w \in Workers, BillAbandonedTerminal(w)
  PROVE  Ownership'
<1>1. /\ job' = [job EXCEPT ![w] = NoMsg] /\ task' = [task EXCEPT ![w] = NoReq]
      /\ UNCHANGED <<queue, hand, msg, pc, got, pool, body, response, errs>>
  BY DEF BillAbandonedTerminal, callers, channels, ops
<1>2. \A n : Queued(n)' <=> Queued(n)
  BY <1>1 DEF Queued
<1>3. \A n \in Msgs : InTransit(n)' => InTransit(n)
  BY <1>1, <1>2, NullAssumption DEF InTransit, TypeOK
<1>4. QueuedOnce' /\ OnePlace' /\ NoCrossTalk'
  BY <1>1, <1>2 DEF Ownership, QueuedOnce, OnePlace, NoCrossTalk, TypeOK
<1>5. Mine'
  BY <1>1, <1>3 DEF Ownership, Mine, TypeOK
<1>6. Channels'
  BY <1>1, <1>3 DEF Ownership, Channels
<1> QED
  BY <1>4, <1>5, <1>6 DEF Ownership

(* Failing a message that has just left its only place. *)
LEMMA FailOwnership ==
  ASSUME TypeOK, Ownership, NEW m \in Msgs, InTransit(m), FailMsg(m),
         UNCHANGED <<msg, pc, pool, body, response>>,
         ~InTransit(m)',
         \A n \in Msgs : InTransit(n)' => InTransit(n)
  PROVE  Mine' /\ Channels'
<1>1. m \notin pool /\ response[m] = NoReq /\ errs[m] = NoReq
  BY DEF Ownership, Channels
<1>2. /\ \A n \in Msgs : n # m => errs'[n] = errs[n]
      /\ errs'[m] \in {NoReq, body[m]}
  BY <1>1 DEF FailMsg, TypeOK
<1>3. Mine'
  BY <1>1, <1>2, NullAssumption DEF Ownership, Mine, TypeOK
<1>4. Channels'
  BY <1>1, <1>2 DEF Ownership, Channels
<1> QED
  BY <1>3, <1>4

(* A step of any drain loop. *)
LEMMA DrainOwnership ==
  ASSUME TypeOK, Ownership, NEW g \in Gens, DrainOne(g),
         UNCHANGED <<job, task, hand, msg, pc, got, pool, body, response>>
  PROVE  Ownership'
<1>0. PICK m : m = Head(queue[g])
  OBVIOUS
<1>1. /\ QueuedOnce' /\ m \in Msgs /\ Queued(m)
      /\ \A n : Queued(n)' <=> Queued(n) /\ n # m
  BY <1>0, DequeueFacts DEF DrainOne, Ownership
<1>2. InTransit(m) /\ ~InTransit(m)' /\ \A n \in Msgs : InTransit(n)' => InTransit(n)
  <2>1. (\A v \in Workers : job[v] # m) /\ (\A o \in Ops : hand[o] # m)
    BY <1>1, NullAssumption DEF Ownership, OnePlace
  <2> QED BY <1>1, <2>1 DEF InTransit
<1>3. OnePlace' /\ NoCrossTalk'
  BY <1>1 DEF Ownership, OnePlace, NoCrossTalk
<1>4. Mine' /\ Channels'
  BY <1>0, <1>1, <1>2, FailOwnership DEF DrainOne
<1> QED
  BY <1>1, <1>3, <1>4 DEF Ownership

(* The updater takes a message out of the old queue. *)
LEMMA TransferTakeOwnership ==
  ASSUME TypeOK, Control, Ownership, NEW u \in Updates, TransferTake(u)
  PROVE  Ownership'
<1> DEFINE m == Head(queue[old[u]])
<1>1. /\ old[u] \in Gens /\ queue[old[u]] # <<>> /\ Dequeue(old[u])
      /\ hand' = [hand EXCEPT ![u] = m]
      /\ UNCHANGED <<job, task, msg, pc, got, pool, body, response, errs>>
  BY DEF TransferTake, Control, UpdateLocked, workers, callers, channels
<1>2. /\ QueuedOnce' /\ m \in Msgs /\ Queued(m)
      /\ \A n : Queued(n)' <=> Queued(n) /\ n # m
  BY <1>1, DequeueFacts DEF Ownership
<1>3. /\ \A v \in Workers : job[v] # m
      /\ \A o \in Ops : hand[o] # m
  BY <1>2, NullAssumption DEF Ownership, OnePlace
<1>4. \A n \in Msgs : InTransit(n)' => InTransit(n)
  BY <1>1, <1>2, NullAssumption DEF InTransit, TypeOK
<1>5. OnePlace'
  BY <1>1, <1>2, <1>3 DEF Ownership, OnePlace, TypeOK
<1>6. Mine' /\ NoCrossTalk'
  BY <1>1, <1>4 DEF Ownership, Mine, NoCrossTalk, TypeOK
<1>7. Channels'
  BY <1>1, <1>4 DEF Ownership, Channels
<1> QED
  BY <1>2, <1>5, <1>6, <1>7 DEF Ownership

(* ... and puts it into the new one ... *)
LEMMA TransferPutOwnership ==
  ASSUME TypeOK, Control, Ownership, NEW u \in Updates, TransferPut(u)
  PROVE  Ownership'
<1> DEFINE m == hand[u]
<1>1. /\ u \in Ops /\ requestQueues \in Gens /\ m \in Msgs
      /\ queue' = [queue EXCEPT ![requestQueues] = Append(queue[requestQueues], m)]
      /\ hand' = [hand EXCEPT ![u] = NoMsg]
      /\ UNCHANGED <<job, task, msg, pc, got, pool, body, response, errs>>
  BY DEF TransferPut, Control, UpdateLocked, workers, callers, channels, Ops, TypeOK
<1>2. /\ ~Queued(m)
      /\ \A v \in Workers : job[v] # m
      /\ \A o \in Ops : o # u => hand[o] # m
  BY <1>1, NullAssumption DEF Ownership, OnePlace
<1>3. QueuedOnce' /\ \A n : Queued(n)' <=> Queued(n) \/ n = m
  BY <1>1, <1>2, EnqueueFacts DEF Ownership
<1>4. \A n \in Msgs : InTransit(n)' => InTransit(n)
  BY <1>1, <1>3, NullAssumption DEF InTransit, TypeOK
<1>5. OnePlace'
  BY <1>1, <1>2, <1>3, NullAssumption DEF Ownership, OnePlace, TypeOK
<1>6. Mine' /\ NoCrossTalk'
  BY <1>1, <1>4 DEF Ownership, Mine, NoCrossTalk, TypeOK
<1>7. Channels'
  BY <1>1, <1>4 DEF Ownership, Channels
<1> QED
  BY <1>3, <1>5, <1>6, <1>7 DEF Ownership

(* ... or fails it because there is no room. *)
LEMMA TransferCancelOwnership ==
  ASSUME TypeOK, Control, Ownership, NEW u \in Updates, TransferCancel(u)
  PROVE  Ownership'
<1>0. PICK m : m = hand[u]
  OBVIOUS
<1>1. /\ u \in Ops /\ m \in Msgs /\ FailMsg(m)
      /\ hand' = [hand EXCEPT ![u] = NoMsg]
      /\ UNCHANGED <<queue, job, task, msg, pc, got, pool, body, response>>
  BY <1>0 DEF TransferCancel, workers, callers, Ops, TypeOK
<1>2. \A n : Queued(n)' <=> Queued(n)
  BY <1>1 DEF Queued
<1>3. InTransit(m) /\ ~InTransit(m)' /\ \A n \in Msgs : InTransit(n)' => InTransit(n)
  <2>1. /\ ~Queued(m)
        /\ \A v \in Workers : job[v] # m
        /\ \A o \in Ops : o # u => hand[o] # m
    BY <1>0, <1>1, NullAssumption DEF Ownership, OnePlace
  <2>2. \A o \in Ops : hand'[o] = IF o = u THEN NoMsg ELSE hand[o]
    BY <1>1 DEF TypeOK
  <2> QED BY <1>0, <1>1, <1>2, <2>1, <2>2, NullAssumption DEF InTransit
<1>4. QueuedOnce' /\ OnePlace' /\ NoCrossTalk'
  BY <1>1, <1>2, NullAssumption
     DEF Ownership, QueuedOnce, OnePlace, NoCrossTalk, TypeOK
<1>5. Mine' /\ Channels'
  BY <1>1, <1>3, FailOwnership
<1> QED
  BY <1>4, <1>5 DEF Ownership

(* Prepare keeps every message with one owner. *)
LEMMA PrepareKeepsOwnership ==
  ASSUME TypeOK, Control, Ownership, Prepare
  PROVE  Ownership'
<1>1. CASE PrepareQueue
  <2>1. /\ UNCHANGED <<queue, job, task, hand, msg, pool, body, response, errs, got>>
        /\ \A q \in Requests : pc'[q] = "send" => pc[q] = "send"
    BY <1>1 DEF PrepareQueue, TypeOK, registry, workers, callers, channels, ops
  <2> QED BY <2>1, OwnershipFrame
<1>2. CASE PrepareWaitGroup
  <2>1. /\ UNCHANGED <<queue, job, task, hand, msg, pool, body, response, errs, got>>
        /\ \A q \in Requests : pc'[q] = "send" => pc[q] = "send"
    BY <1>2 DEF PrepareWaitGroup, TypeOK, registry, workers, callers, channels, ops
  <2> QED BY <2>1, OwnershipFrame
<1>3. CASE PrepareCreate
  <2>1. /\ UNCHANGED <<queue, job, task, hand, msg, pool, body, response, errs, got>>
        /\ \A q \in Requests : pc'[q] = "send" => pc[q] = "send"
    BY <1>3 DEF PrepareCreate, TypeOK, registry, workers, callers, channels, ops
  <2> QED BY <2>1, OwnershipFrame
<1>4. CASE PrepareFail
  <2>1. /\ UNCHANGED <<queue, job, task, hand, msg, pool, body, response, errs, got>>
        /\ \A q \in Requests : pc'[q] = "send" => pc[q] = "send"
    BY <1>4 DEF PrepareFail, PrepareReturn, TypeOK, registry, workers, callers, channels, ops
  <2> QED BY <2>1, OwnershipFrame
<1>5. CASE PrepareWorkers
  <2>1. /\ UNCHANGED <<queue, job, task, hand, msg, pool, body, response, errs, got>>
        /\ \A q \in Requests : pc'[q] = "send" => pc[q] = "send"
    BY <1>5 DEF PrepareWorkers, PrepareReturn, TypeOK, registry, workers, callers, channels, ops
  <2> QED BY <2>1, OwnershipFrame
<1> QED
  BY <1>1, <1>2, <1>3, <1>4, <1>5 DEF Prepare

(* Caller keeps every message with one owner. *)
LEMMA CallerKeepsOwnership ==
  ASSUME TypeOK, Control, Ownership, NEW r \in Requests, Caller(r)
  PROVE  Ownership'
<1>1. CASE Lookup(r)
  <2>1. /\ UNCHANGED <<queue, job, task, hand, msg, pool, body, response, errs, got>>
        /\ \A q \in Requests : pc'[q] = "send" => pc[q] = "send"
    BY <1>1 DEF Lookup, TypeOK, registry, workers, callers, channels, ops
  <2> QED BY <2>1, OwnershipFrame
<1>2. CASE LookupLocked(r)
  <2>1. /\ UNCHANGED <<queue, job, task, hand, msg, pool, body, response, errs, got>>
        /\ \A q \in Requests : pc'[q] = "send" => pc[q] = "send"
    BY <1>2 DEF LookupLocked, BeginPrepare, TypeOK, registry, workers, callers, channels, ops
  <2> QED BY <2>1, OwnershipFrame
<1>3. CASE ShortCircuit(r)
  <2>1. /\ UNCHANGED <<queue, job, task, hand, msg, pool, body, response, errs, got>>
        /\ \A q \in Requests : pc'[q] = "send" => pc[q] = "send"
    BY <1>3 DEF ShortCircuit, TypeOK, registry, workers, callers, channels, ops
  <2> QED BY <2>1, OwnershipFrame
<1>4. CASE Enter(r)
  BY <1>4, EnterOwnership
<1>5. CASE Send(r)
  BY <1>5, SendOwnership
<1>6. CASE SendRefused(r)
  BY <1>6, SendRefusedOwnership
<1>7. CASE Receive(r)
  BY <1>7, ReceiveOwnership
<1>8. CASE Abandon(r)
  BY <1>8, AbandonOwnership
<1> QED
  BY <1>1, <1>2, <1>3, <1>4, <1>5, <1>6, <1>7, <1>8 DEF Caller

(* Worker keeps every message with one owner. *)
LEMMA WorkerKeepsOwnership ==
  ASSUME TypeOK, Control, Ownership, NEW w \in Workers, Worker(w)
  PROVE  Ownership'
<1>1. CASE Take(w)
  BY <1>1, TakeOwnership
<1>2. CASE Deliver(w)
  BY <1>2, DeliverOwnership
<1>3. CASE BillAbandonedTerminal(w)
  BY <1>3, BillOwnership
<1>4. CASE SeeDone(w)
  <2>1. /\ UNCHANGED <<queue, job, task, hand, msg, pool, body, response, errs, got>>
        /\ \A q \in Requests : pc'[q] = "send" => pc[q] = "send"
    BY <1>4 DEF SeeDone, TypeOK, registry, workers, callers, channels, ops
  <2> QED BY <2>1, OwnershipFrame
<1>5. CASE WorkerDrain(w)
  <2>1. /\ w[1] \in Gens /\ DrainOne(w[1])
        /\ UNCHANGED <<job, task, hand, msg, pc, got, pool, body, response>>
    BY <1>5 DEF WorkerDrain, Workers, workers, callers, ops
  <2> QED BY <2>1, DrainOwnership
<1>6. CASE Exit(w)
  <2>1. /\ UNCHANGED <<queue, job, task, hand, msg, pool, body, response, errs, got>>
        /\ \A q \in Requests : pc'[q] = "send" => pc[q] = "send"
    BY <1>6 DEF Exit, TypeOK, registry, workers, callers, channels, ops
  <2> QED BY <2>1, OwnershipFrame
<1> QED
  BY <1>1, <1>2, <1>3, <1>4, <1>5, <1>6 DEF Worker

(* Cleanup keeps every message with one owner. *)
LEMMA CleanupKeepsOwnership ==
  ASSUME TypeOK, Control, Ownership, NEW g \in Gens, Cleanup(g)
  PROVE  Ownership'
<1>1. CASE CleanupWait(g)
  <2>1. /\ UNCHANGED <<queue, job, task, hand, msg, pool, body, response, errs, got>>
        /\ \A q \in Requests : pc'[q] = "send" => pc[q] = "send"
    BY <1>1 DEF CleanupWait, TypeOK, registry, workers, callers, channels, ops
  <2> QED BY <2>1, OwnershipFrame
<1>2. CASE CleanupDrain(g)
  <2>1. /\ g \in Gens /\ DrainOne(g)
        /\ UNCHANGED <<job, task, hand, msg, pc, got, pool, body, response>>
    BY <1>2 DEF CleanupDrain, workers, callers, ops
  <2> QED BY <2>1, DrainOwnership
<1>3. CASE CleanupEnd(g)
  <2>1. /\ UNCHANGED <<queue, job, task, hand, msg, pool, body, response, errs, got>>
        /\ \A q \in Requests : pc'[q] = "send" => pc[q] = "send"
    BY <1>3 DEF CleanupEnd, TypeOK, registry, workers, callers, channels, ops
  <2> QED BY <2>1, OwnershipFrame
<1> QED
  BY <1>1, <1>2, <1>3 DEF Cleanup

(* Update keeps every message with one owner. *)
LEMMA UpdateKeepsOwnership ==
  ASSUME TypeOK, Control, Ownership, NEW u \in Updates, Update(u)
  PROVE  Ownership'
<1>1. CASE UpdateBegin(u)
  <2>1. /\ UNCHANGED <<queue, job, task, hand, msg, pool, body, response, errs, got>>
        /\ \A q \in Requests : pc'[q] = "send" => pc[q] = "send"
    BY <1>1 DEF UpdateBegin, TypeOK, registry, workers, callers, channels, ops
  <2> QED BY <2>1, OwnershipFrame
<1>2. CASE UpdateAbsent(u)
  <2>1. /\ UNCHANGED <<queue, job, task, hand, msg, pool, body, response, errs, got>>
        /\ \A q \in Requests : pc'[q] = "send" => pc[q] = "send"
    BY <1>2 DEF UpdateAbsent, BeginPrepare, TypeOK, registry, workers, callers, channels, ops
  <2> QED BY <2>1, OwnershipFrame
<1>3. CASE UpdateFail(u)
  <2>1. /\ UNCHANGED <<queue, job, task, hand, msg, pool, body, response, errs, got>>
        /\ \A q \in Requests : pc'[q] = "send" => pc[q] = "send"
    BY <1>3 DEF UpdateFail, TypeOK, registry, workers, callers, channels, ops
  <2> QED BY <2>1, OwnershipFrame
<1>4. CASE UpdatePublish(u)
  <2>1. /\ UNCHANGED <<queue, job, task, hand, msg, pool, body, response, errs, got>>
        /\ \A q \in Requests : pc'[q] = "send" => pc[q] = "send"
    BY <1>4 DEF UpdatePublish, TypeOK, registry, workers, callers, channels, ops
  <2> QED BY <2>1, OwnershipFrame
<1>5. CASE TransferTake(u)
  BY <1>5, TransferTakeOwnership
<1>6. CASE TransferPut(u)
  BY <1>6, TransferPutOwnership
<1>7. CASE TransferCancel(u)
  BY <1>7, TransferCancelOwnership
<1>8. CASE CancelRest(u)
  <2>1. /\ old[u] \in Gens /\ DrainOne(old[u])
        /\ UNCHANGED <<job, task, hand, msg, pc, got, pool, body, response>>
    BY <1>8 DEF CancelRest, Control, UpdateLocked, workers, callers, ops
  <2> QED BY <2>1, DrainOwnership
<1>9. CASE TransferEnd(u)
  <2>1. /\ UNCHANGED <<queue, job, task, hand, msg, pool, body, response, errs, got>>
        /\ \A q \in Requests : pc'[q] = "send" => pc[q] = "send"
    BY <1>9 DEF TransferEnd, TypeOK, registry, workers, callers, channels, ops
  <2> QED BY <2>1, OwnershipFrame
<1>10. CASE UpdateFinish(u)
  <2>1. /\ UNCHANGED <<queue, job, task, hand, msg, pool, body, response, errs, got>>
        /\ \A q \in Requests : pc'[q] = "send" => pc[q] = "send"
    BY <1>10 DEF UpdateFinish, TypeOK, registry, workers, callers, channels, ops
  <2> QED BY <2>1, OwnershipFrame
<1> QED
  BY <1>1, <1>2, <1>3, <1>4, <1>5, <1>6, <1>7, <1>8, <1>9, <1>10 DEF Update

(* Removal keeps every message with one owner. *)
LEMMA RemovalKeepsOwnership ==
  ASSUME TypeOK, Control, Ownership, NEW d \in Removals, Removal(d)
  PROVE  Ownership'
<1>1. CASE RemoveBegin(d)
  <2>1. /\ UNCHANGED <<queue, job, task, hand, msg, pool, body, response, errs, got>>
        /\ \A q \in Requests : pc'[q] = "send" => pc[q] = "send"
    BY <1>1 DEF RemoveBegin, TypeOK, registry, workers, callers, channels, ops
  <2> QED BY <2>1, OwnershipFrame
<1>2. CASE RemoveWait(d)
  <2>1. /\ UNCHANGED <<queue, job, task, hand, msg, pool, body, response, errs, got>>
        /\ \A q \in Requests : pc'[q] = "send" => pc[q] = "send"
    BY <1>2 DEF RemoveWait, TypeOK, registry, workers, callers, channels, ops
  <2> QED BY <2>1, OwnershipFrame
<1>3. CASE RemoveDrain(d)
  <2>1. /\ old[d] \in Gens /\ DrainOne(old[d])
        /\ UNCHANGED <<job, task, hand, msg, pc, got, pool, body, response>>
    BY <1>3 DEF RemoveDrain, Control, RemovalLocked, workers, callers, ops
  <2> QED BY <2>1, DrainOwnership
<1>4. CASE RemoveDrained(d)
  <2>1. /\ UNCHANGED <<queue, job, task, hand, msg, pool, body, response, errs, got>>
        /\ \A q \in Requests : pc'[q] = "send" => pc[q] = "send"
    BY <1>4 DEF RemoveDrained, TypeOK, registry, workers, callers, channels, ops
  <2> QED BY <2>1, OwnershipFrame
<1>5. CASE RemoveFinish(d)
  <2>1. /\ UNCHANGED <<queue, job, task, hand, msg, pool, body, response, errs, got>>
        /\ \A q \in Requests : pc'[q] = "send" => pc[q] = "send"
    BY <1>5 DEF RemoveFinish, TypeOK, registry, workers, callers, channels, ops
  <2> QED BY <2>1, OwnershipFrame
<1> QED
  BY <1>1, <1>2, <1>3, <1>4, <1>5 DEF Removal

(* Getter keeps every message with one owner. *)
LEMMA GetterKeepsOwnership ==
  ASSUME TypeOK, Control, Ownership, NEW k \in Getters, Getter(k)
  PROVE  Ownership'
<1>1. CASE GetterLook(k)
  <2>1. /\ UNCHANGED <<queue, job, task, hand, msg, pool, body, response, errs, got>>
        /\ \A q \in Requests : pc'[q] = "send" => pc[q] = "send"
    BY <1>1 DEF GetterLook, TypeOK, registry, workers, callers, channels, ops
  <2> QED BY <2>1, OwnershipFrame
<1>2. CASE GetterLocked(k)
  <2>1. /\ UNCHANGED <<queue, job, task, hand, msg, pool, body, response, errs, got>>
        /\ \A q \in Requests : pc'[q] = "send" => pc[q] = "send"
    BY <1>2 DEF GetterLocked, BeginPrepare, TypeOK, registry, workers, callers, channels, ops
  <2> QED BY <2>1, OwnershipFrame
<1> QED
  BY <1>1, <1>2 DEF Getter

(* Shutdown keeps every message with one owner. *)
LEMMA ShutdownKeepsOwnership ==
  ASSUME TypeOK, Control, Ownership, NEW s \in Shutdowns, Shutdown(s)
  PROVE  Ownership'
<1>1. CASE ShutdownBegin(s)
  <2>1. /\ UNCHANGED <<queue, job, task, hand, msg, pool, body, response, errs, got>>
        /\ \A q \in Requests : pc'[q] = "send" => pc[q] = "send"
    BY <1>1 DEF ShutdownBegin, TypeOK, registry, workers, callers, channels, ops
  <2> QED BY <2>1, OwnershipFrame
<1>2. CASE ShutdownSignal(s)
  <2>1. /\ UNCHANGED <<queue, job, task, hand, msg, pool, body, response, errs, got>>
        /\ \A q \in Requests : pc'[q] = "send" => pc[q] = "send"
    BY <1>2 DEF ShutdownSignal, TypeOK, registry, workers, callers, channels, ops
  <2> QED BY <2>1, OwnershipFrame
<1>3. CASE ShutdownLoad(s)
  <2>1. /\ UNCHANGED <<queue, job, task, hand, msg, pool, body, response, errs, got>>
        /\ \A q \in Requests : pc'[q] = "send" => pc[q] = "send"
    BY <1>3 DEF ShutdownLoad, TypeOK, registry, workers, callers, channels, ops
  <2> QED BY <2>1, OwnershipFrame
<1>4. CASE ShutdownWait(s)
  <2>1. /\ UNCHANGED <<queue, job, task, hand, msg, pool, body, response, errs, got>>
        /\ \A q \in Requests : pc'[q] = "send" => pc[q] = "send"
    BY <1>4 DEF ShutdownWait, TypeOK, registry, workers, callers, channels, ops
  <2> QED BY <2>1, OwnershipFrame
<1>5. CASE ShutdownCleanups(s)
  <2>1. /\ UNCHANGED <<queue, job, task, hand, msg, pool, body, response, errs, got>>
        /\ \A q \in Requests : pc'[q] = "send" => pc[q] = "send"
    BY <1>5 DEF ShutdownCleanups, TypeOK, registry, workers, callers, channels, ops
  <2> QED BY <2>1, OwnershipFrame
<1>6. CASE ShutdownDrain(s)
  <2>1. /\ old[s] \in Gens /\ DrainOne(old[s])
        /\ UNCHANGED <<job, task, hand, msg, pc, got, pool, body, response>>
    BY <1>6 DEF ShutdownDrain, Control, ShutdownKnows, workers, callers, ops
  <2> QED BY <2>1, DrainOwnership
<1>7. CASE ShutdownEnd(s)
  <2>1. /\ UNCHANGED <<queue, job, task, hand, msg, pool, body, response, errs, got>>
        /\ \A q \in Requests : pc'[q] = "send" => pc[q] = "send"
    BY <1>7 DEF ShutdownEnd, TypeOK, registry, workers, callers, channels, ops
  <2> QED BY <2>1, OwnershipFrame
<1> QED
  BY <1>1, <1>2, <1>3, <1>4, <1>5, <1>6, <1>7 DEF Shutdown

------------------------------------------------------------------------------
(* Third layer: executions and terminal post hooks are counted once.       *)

(* Steps that run nothing, bill nothing and make no message more pending   *)
(* than it was.                                                            *)
LEMMA AccountingFrame ==
  ASSUME Accounting, pool \subseteq pool', UNCHANGED <<body, runs, hooks>>,
         \A r \in Requests : pc[r] \in {"send", "await", "over"}
                             => pc'[r] \in {"send", "await", "over"},
         \A r \in Requests : pc'[r] \notin {"await", "over"}
                             => pc[r] \notin {"await", "over"},
         \A m \in Msgs : Unstarted(m)' => Unstarted(m),
         \A m \in Msgs : Pending(m)' => Pending(m)
  PROVE  Accounting'
<1>1. OneMessage'
  BY DEF Accounting, OneMessage
<1>2. Unspent'
  BY DEF Accounting, Unspent, OneMessage
<1>3. AtMostOnce'
  BY DEF Accounting, AtMostOnce
<1> QED
  BY <1>1, <1>2, <1>3 DEF Accounting

(* Steps that leave queues, workers, updaters and channels alone. *)
LEMMA AccountingStill ==
  ASSUME Accounting, pool \subseteq pool', 
         UNCHANGED <<queue, job, hand, response, errs, body, runs, hooks>>,
         \A r \in Requests : pc[r] \in {"send", "await", "over"}
                             => pc'[r] \in {"send", "await", "over"},
         \A r \in Requests : pc'[r] \notin {"await", "over"}
                             => pc[r] \notin {"await", "over"}
  PROVE  Accounting'
<1>1. \A m : Queued(m)' <=> Queued(m)
  BY DEF Queued
<1>2. \A m : (Unstarted(m)' => Unstarted(m)) /\ (Pending(m)' => Pending(m))
  BY <1>1 DEF Unstarted, Pending, InTransit
<1> QED
  BY <1>2, AccountingFrame

(* A plugin's answer is billed once: the request has no message yet. *)
LEMMA ShortCircuitAccounting ==
  ASSUME TypeOK, Accounting, NEW r \in Requests, ShortCircuit(r)
  PROVE  Accounting'
<1>1. /\ pc[r] = "have"
      /\ pc' = [pc EXCEPT ![r] = "over"]
      /\ hooks' = [hooks EXCEPT ![r] = hooks[r] + 1]
      /\ UNCHANGED <<queue, job, hand, response, errs, body, pool, runs>>
  BY DEF ShortCircuit, RunHooks, workers, channels, ops
<1>2. \A m : Queued(m)' <=> Queued(m)
  BY <1>1 DEF Queued
<1>3. \A m : (Unstarted(m)' => Unstarted(m)) /\ (Pending(m)' => Pending(m))
  BY <1>1, <1>2 DEF Unstarted, Pending, InTransit
<1>4. \A m \in Msgs \ pool : body[m] # r
  BY <1>1 DEF Accounting, OneMessage
<1>5. OneMessage'
  BY <1>1, <1>4 DEF Accounting, OneMessage, TypeOK
<1>6. Unspent'
  BY <1>1, <1>3, <1>4 DEF Accounting, OneMessage, Unspent, TypeOK
<1>7. AtMostOnce'
  <2>1. hooks[r] = 0
    BY <1>1 DEF Accounting, Unspent
  <2> QED BY <1>1, <2>1 DEF Accounting, AtMostOnce, TypeOK
<1> QED
  BY <1>5, <1>6, <1>7 DEF Accounting

(* A message is filled for a request that has none. *)
LEMMA EnterAccounting ==
  ASSUME TypeOK, Control, Ownership, Accounting, NEW r \in Requests, Enter(r)
  PROVE  Accounting'
<1>1. /\ pc[r] = "have"
      /\ UNCHANGED <<queue, job, hand, runs, hooks>>
  BY DEF Enter, registry, workers, counts, ops
<1>2. PICK m \in pool :
         /\ Fill(r, m)
         /\ \/ pc' = [pc EXCEPT ![r] = "over"] /\ pool' = pool
            \/ pc' = [pc EXCEPT ![r] = "send"] /\ pool' = pool \ {m}
  BY DEF Enter
<1>3. /\ body' = [body EXCEPT ![m] = r]
      /\ response' = [response EXCEPT ![m] = NoReq]
      /\ errs' = [errs EXCEPT ![m] = NoReq]
  BY <1>2 DEF Fill
<1>4. m \in Msgs /\ ~InTransit(m)
  BY <1>2 DEF TypeOK, Ownership, Channels
<1>5. \A n : (Queued(n)' <=> Queued(n))
  BY <1>1 DEF Queued
<1>6. \A n \in Msgs : (Unstarted(n)' => Unstarted(n)) /\ (Pending(n)' => Pending(n))
  BY <1>1, <1>3, <1>5 DEF Unstarted, Pending, InTransit, TypeOK
<1>7. \A n \in Msgs \ pool : body[n] # r
  BY <1>1 DEF Accounting, OneMessage
<1>8. /\ \A n \in Msgs \ pool : n # m /\ body'[n] = body[n]
      /\ \A n \in Msgs \ pool' : n = m \/ n \in Msgs \ pool
      /\ body'[m] = r
  BY <1>2, <1>3, <1>4 DEF TypeOK
<1>9. OneMessage'
  <2>1. \A n \in Msgs \ pool' : body'[n] \in Requests /\ pc'[body'[n]] \in {"send", "await", "over"}
    BY <1>1, <1>2, <1>7, <1>8 DEF Accounting, OneMessage, TypeOK
  <2>2. \A n, p \in Msgs \ pool' : body'[n] = body'[p] => n = p
    BY <1>7, <1>8 DEF Accounting, OneMessage
  <2> QED BY <2>1, <2>2 DEF OneMessage
<1>10. Unspent'
  <2>1. \A s \in Requests : pc'[s] \notin {"await", "over"} => runs'[s] = 0 /\ hooks'[s] = 0
    BY <1>1, <1>2 DEF Accounting, Unspent, TypeOK
  <2>2. runs[r] = 0 /\ hooks[r] = 0
    BY <1>1 DEF Accounting, Unspent
  <2>3. \A n \in Msgs \ pool' :
          /\ Unstarted(n)' => runs'[body'[n]] = 0
          /\ Pending(n)' => hooks'[body'[n]] = 0
    BY <1>1, <1>6, <1>8, <2>2 DEF Accounting, Unspent
  <2> QED BY <2>1, <2>3 DEF Unspent
<1>11. AtMostOnce'
  BY <1>1 DEF Accounting, AtMostOnce
<1> QED
  BY <1>9, <1>10, <1>11 DEF Accounting

(* What is sent has neither run nor been billed. *)
LEMMA SendAccounting ==
  ASSUME TypeOK, Control, Ownership, Accounting, NEW r \in Requests, Send(r)
  PROVE  Accounting'
<1>0. PICK m : m = msg[r]
  OBVIOUS
<1>1. /\ pc[r] = "send" /\ pq[r] \in Gens
      /\ m \in Msgs /\ m # NoMsg
      /\ ~InTransit(m) /\ m \notin pool /\ body[m] = r
  BY <1>0, NullAssumption DEF Send, TypeOK, Control, CallerHolds, Ownership, Mine
<1>2. /\ pc' = [pc EXCEPT ![r] = "await"]
      /\ queue' = [queue EXCEPT ![pq[r]] = Append(queue[pq[r]], m)]
      /\ UNCHANGED <<job, hand, pool, body, response, errs, runs, hooks>>
  BY <1>0 DEF Send, workers, channels, counts, ops
<1>3. \A n : Queued(n)' <=> Queued(n) \/ n = m
  BY <1>1, <1>2, EnqueueFacts DEF Ownership, InTransit
<1>4. \A n : n = m \/ ((Unstarted(n)' => Unstarted(n)) /\ (Pending(n)' => Pending(n)))
  BY <1>2, <1>3 DEF Unstarted, Pending, InTransit
<1>5. runs[r] = 0 /\ hooks[r] = 0
  BY <1>1 DEF Accounting, Unspent
<1>6. OneMessage'
  BY <1>2 DEF Accounting, OneMessage, TypeOK
<1>7. Unspent'
  BY <1>1, <1>2, <1>4, <1>5 DEF Accounting, Unspent, TypeOK
<1>8. AtMostOnce'
  BY <1>2 DEF Accounting, AtMostOnce
<1> QED
  BY <1>6, <1>7, <1>8 DEF Accounting

(* The caller bills an answer that nobody has billed. *)
LEMMA ReceiveAccounting ==
  ASSUME TypeOK, Control, Ownership, Accounting, NEW r \in Requests, Receive(r)
  PROVE  Accounting'
<1>0. PICK m : m = msg[r]
  OBVIOUS
<1>1. /\ pc[r] = "await" /\ m \in Msgs /\ m \notin pool /\ body[m] = r
  BY <1>0, NullAssumption DEF Receive, TypeOK, Control, CallerHolds, Ownership, Mine
<1>2. /\ pc' = [pc EXCEPT ![r] = "over"]
      /\ pool' = pool \cup {m}
      /\ UNCHANGED <<queue, job, hand, body, runs>>
  BY <1>0 DEF Receive, Release, workers, ops
<1>3. /\ response[m] # NoReq \/ errs[m] # NoReq
      /\ \A n \in Msgs : n # m => response'[n] = response[n] /\ errs'[n] = errs[n]
  BY <1>0, <1>1 DEF Receive, TypeOK
<1>4. hooks[r] = 0
  BY <1>1, <1>3 DEF Accounting, Unspent, Pending
<1>5. hooks' = hooks \/ hooks' = [hooks EXCEPT ![r] = hooks[r] + 1]
  BY DEF Receive, RunHooks, RunResultHooks
<1>6. \A n \in Msgs \ pool' : n \in Msgs \ pool /\ body[n] # r
  BY <1>1, <1>2 DEF Accounting, OneMessage
<1>7. \A n : Queued(n)' <=> Queued(n)
  BY <1>2 DEF Queued
<1>8. \A n \in Msgs \ pool' : (Unstarted(n)' => Unstarted(n)) /\ (Pending(n)' => Pending(n))
  BY <1>1, <1>2, <1>3, <1>7 DEF Unstarted, Pending, InTransit
<1>9. OneMessage'
  BY <1>2, <1>6 DEF Accounting, OneMessage, TypeOK
<1>10. Unspent'
  <2>1. \A s \in Requests : pc'[s] \notin {"await", "over"} => runs'[s] = 0 /\ hooks'[s] = 0
    BY <1>2, <1>5 DEF Accounting, Unspent, TypeOK
  <2>2. \A n \in Msgs \ pool' : hooks'[body[n]] = hooks[body[n]]
    BY <1>5, <1>6 DEF Accounting, OneMessage, TypeOK
  <2>3. \A n \in Msgs \ pool' :
          /\ Unstarted(n)' => runs'[body'[n]] = 0
          /\ Pending(n)' => hooks'[body'[n]] = 0
    BY <1>2, <1>6, <1>8, <2>2 DEF Accounting, Unspent
  <2> QED BY <2>1, <2>3 DEF Unspent
<1>11. AtMostOnce'
  <2>1. \A s \in Requests : hooks'[s] <= 1
    <3>1. CASE hooks' = hooks
      BY <3>1 DEF Accounting, AtMostOnce
    <3>2. CASE hooks' = [hooks EXCEPT ![r] = hooks[r] + 1]
      BY <1>4, <3>2 DEF Accounting, AtMostOnce, TypeOK
    <3> QED BY <1>5, <3>1, <3>2
  <2> QED BY <1>2, <2>1 DEF Accounting, AtMostOnce
<1> QED
  BY <1>9, <1>10, <1>11 DEF Accounting

(* A message that is pending somewhere belongs to a request that has sent  *)
(* it.                                                                     *)
LEMMA InTransitSent ==
  ASSUME TypeOK, Control, Ownership, Accounting, NEW m \in Msgs, InTransit(m)
  PROVE  /\ m \in Msgs \ pool /\ body[m] \in Requests
         /\ pc[body[m]] \in {"await", "over"}
<1>1. m \in Msgs \ pool
  BY DEF Ownership, Channels
<1>2. body[m] \in Requests /\ pc[body[m]] \in {"send", "await", "over"}
  BY <1>1 DEF Accounting, OneMessage
<1>3. ASSUME pc[body[m]] = "send" PROVE FALSE
  <2>1. msg[body[m]] # NoMsg
    BY <1>2, <1>3 DEF Control, CallerHolds
  <2>2. /\ msg[body[m]] \in Msgs \ pool
        /\ body[msg[body[m]]] = body[m]
        /\ ~InTransit(msg[body[m]])
    BY <1>2, <1>3, <2>1 DEF Ownership, Mine, TypeOK
  <2>3. msg[body[m]] = m
    BY <1>1, <2>2 DEF Accounting, OneMessage
  <2> QED BY <2>2, <2>3
<1> QED
  BY <1>1, <1>2, <1>3

(* A worker takes a message whose request has not run. *)
LEMMA TakeAccounting ==
  ASSUME TypeOK, Control, Ownership, Accounting, NEW w \in Workers, Take(w)
  PROVE  Accounting'
<1>0. PICK m : m = Head(queue[w[1]])
  OBVIOUS
<1>1. /\ w[1] \in Gens /\ queue[w[1]] # <<>> /\ Dequeue(w[1])
      /\ job' = [job EXCEPT ![w] = m]
      /\ runs' = [runs EXCEPT ![body[m]] = runs[body[m]] + 1]
      /\ UNCHANGED <<hand, pc, pool, body, response, errs, hooks>>
  BY <1>0 DEF Take, Workers, callers, channels, ops
<1>2. /\ m \in Msgs /\ Queued(m)
      /\ \A n : Queued(n)' <=> Queued(n) /\ n # m
  BY <1>0, <1>1, DequeueFacts DEF Ownership
<1>3. \A o \in Ops : hand[o] # m
  BY <1>2, NullAssumption DEF Ownership, OnePlace
<1>4. InTransit(m)
  BY <1>2 DEF InTransit
<1>5. /\ m \in Msgs \ pool /\ body[m] \in Requests
      /\ pc[body[m]] \in {"await", "over"}
  BY <1>2, <1>4, InTransitSent
<1>6. runs[body[m]] = 0
  BY <1>2, <1>5 DEF Accounting, Unspent, Unstarted
<1>7. /\ \A n \in Msgs : Pending(n)' => Pending(n)
      /\ \A n \in Msgs : Unstarted(n)' => Unstarted(n) /\ n # m
  BY <1>1, <1>2, <1>3, NullAssumption DEF Pending, Unstarted, InTransit, TypeOK
<1>8. OneMessage'
  BY <1>1 DEF Accounting, OneMessage
<1>9. Unspent'
  <2>1. \A s \in Requests : pc'[s] \notin {"await", "over"} => runs'[s] = 0 /\ hooks'[s] = 0
    BY <1>1, <1>5 DEF Accounting, Unspent, TypeOK
  <2>2. \A n \in Msgs \ pool : n # m => runs'[body[n]] = runs[body[n]]
    BY <1>1, <1>5 DEF Accounting, OneMessage, TypeOK
  <2>3. \A n \in Msgs \ pool' :
          /\ Unstarted(n)' => runs'[body'[n]] = 0
          /\ Pending(n)' => hooks'[body'[n]] = 0
    BY <1>1, <1>7, <2>2 DEF Accounting, Unspent
  <2> QED BY <2>1, <2>3 DEF Unspent
<1>10. AtMostOnce'
  BY <1>1, <1>6 DEF Accounting, AtMostOnce, TypeOK
<1> QED
  BY <1>8, <1>9, <1>10 DEF Accounting

(* The worker bills for a caller that will never receive the answer: the   *)
(* message leaves its last place with empty channels.                      *)
LEMMA BillAccounting ==
  ASSUME TypeOK, Control, Ownership, Accounting,
         NEW w \in Workers, BillAbandonedTerminal(w)
  PROVE  Accounting'
<1>0. PICK m : m = job[w]
  OBVIOUS
<1>1. /\ job' = [job EXCEPT ![w] = NoMsg]
      /\ UNCHANGED <<queue, hand, pc, pool, body, response, errs, runs>>
  BY DEF BillAbandonedTerminal, callers, channels, ops
<1>2. hooks' = hooks \/ hooks' = [hooks EXCEPT ![body[m]] = hooks[body[m]] + 1]
  <2>1. task[w] = body[m]
    BY <1>0 DEF BillAbandonedTerminal, Control, WorkerHolds, Ownership, OnePlace
  <2> QED BY <1>0, <2>1 DEF BillAbandonedTerminal, RunHooks, RunResultHooks
<1>3. \A n : Queued(n)' <=> Queued(n)
  BY <1>1 DEF Queued
<1>4. /\ \A n \in Msgs : Pending(n)' => Pending(n)
      /\ \A n \in Msgs : Unstarted(n)' => Unstarted(n)
  BY <1>1, <1>3, NullAssumption DEF Pending, Unstarted, InTransit, TypeOK
<1>5. CASE hooks' = hooks
  BY <1>1, <1>4, <1>5, AccountingFrame
<1>6. m \in Msgs
  BY <1>0 DEF BillAbandonedTerminal, Control, WorkerHolds, TypeOK
<1>7. CASE hooks' = [hooks EXCEPT ![body[m]] = hooks[body[m]] + 1]
  <2>1. InTransit(m)
    BY <1>0 DEF InTransit
  <2>2. /\ m \in Msgs \ pool /\ body[m] \in Requests
        /\ pc[body[m]] \in {"await", "over"}
        /\ response[m] = NoReq /\ errs[m] = NoReq
    BY <1>6, <2>1, InTransitSent DEF Ownership, Channels
  <2>3. hooks[body[m]] = 0
    BY <2>1, <2>2 DEF Accounting, Unspent, Pending
  <2>4. ~Pending(m)'
    <3>1. ~Queued(m)' /\ \A o \in Ops : hand'[o] # m
      BY <1>0, <1>1, <1>3, <1>6, NullAssumption DEF Ownership, OnePlace
    <3>2. \A v \in Workers : job'[v] # m
      BY <1>0, <1>1, <1>6, NullAssumption DEF Ownership, OnePlace, TypeOK
    <3> QED BY <1>1, <2>2, <3>1, <3>2 DEF Pending, InTransit
  <2>5. OneMessage'
    BY <1>1 DEF Accounting, OneMessage
  <2>6. \A s \in Requests : pc'[s] \notin {"await", "over"} => runs'[s] = 0 /\ hooks'[s] = 0
    BY <1>1, <1>7, <2>2 DEF Accounting, Unspent, TypeOK
  <2>7. \A n \in Msgs \ pool : n # m => hooks'[body[n]] = hooks[body[n]]
    BY <1>7, <2>2 DEF Accounting, OneMessage, TypeOK
  <2>8. \A n \in Msgs \ pool' :
          /\ Unstarted(n)' => runs'[body'[n]] = 0
          /\ Pending(n)' => hooks'[body'[n]] = 0
    BY <1>1, <1>4, <2>4, <2>7 DEF Accounting, Unspent
  <2>9. AtMostOnce'
    BY <1>1, <1>7, <2>3 DEF Accounting, AtMostOnce, TypeOK
  <2> QED BY <2>5, <2>6, <2>8, <2>9 DEF Accounting, Unspent
<1> QED
  BY <1>2, <1>5, <1>7

(* A drained message was pending already, and only its error channel       *)
(* changes.                                                                *)
LEMMA DrainAccounting ==
  ASSUME TypeOK, Ownership, Accounting, NEW g \in Gens, DrainOne(g),
         UNCHANGED <<job, hand, pc, pool, body, response, runs, hooks>>
  PROVE  Accounting'
<1>0. PICK m : m = Head(queue[g])
  OBVIOUS
<1>1. /\ m \in Msgs /\ Queued(m)
      /\ \A n : Queued(n)' => Queued(n)
  BY <1>0, DequeueFacts DEF DrainOne, Ownership
<1>2. \A n \in Msgs : n # m => errs'[n] = errs[n]
  BY <1>0, <1>1 DEF DrainOne, FailMsg, TypeOK
<1>3. /\ \A n \in Msgs : Pending(n)' => Pending(n)
      /\ \A n \in Msgs : Unstarted(n)' => Unstarted(n)
  BY <1>1, <1>2 DEF Pending, Unstarted, InTransit
<1> QED
  BY <1>3, AccountingFrame

(* A worker's answer: its message was pending already. *)
LEMMA DeliverAccounting ==
  ASSUME TypeOK, Control, Ownership, Accounting, NEW w \in Workers, Deliver(w)
  PROVE  Accounting'
<1>0. PICK m : m = job[w]
  OBVIOUS
<1>1. /\ job' = [job EXCEPT ![w] = NoMsg]
      /\ UNCHANGED <<queue, hand, pc, pool, body, runs, hooks>>
  BY DEF Deliver, callers, counts, ops
<1>2. InTransit(m)
  BY <1>0 DEF InTransit
<1>3. \A n \in Msgs : n # m => response'[n] = response[n] /\ errs'[n] = errs[n]
  BY <1>0 DEF Deliver, TypeOK
<1>4. \A n : Queued(n)' <=> Queued(n)
  BY <1>1 DEF Queued
<1>5. \A n \in Msgs : InTransit(n)' => InTransit(n)
  BY <1>1, <1>4, NullAssumption DEF InTransit, TypeOK
<1>6. /\ \A n \in Msgs : Pending(n)' => Pending(n)
      /\ \A n \in Msgs : Unstarted(n)' => Unstarted(n)
  BY <1>1, <1>2, <1>3, <1>4, <1>5 DEF Pending, Unstarted
<1> QED
  BY <1>1, <1>6, AccountingFrame

(* A message taken from the old queue stays unstarted in the updater's hand. *)
LEMMA TransferTakeAccounting ==
  ASSUME TypeOK, Control, Ownership, Accounting, NEW u \in Updates, TransferTake(u)
  PROVE  Accounting'
<1>0. PICK m : m = Head(queue[old[u]])
  OBVIOUS
<1>1. /\ old[u] \in Gens /\ queue[old[u]] # <<>> /\ Dequeue(old[u])
      /\ hand' = [hand EXCEPT ![u] = m]
      /\ UNCHANGED <<job, pc, pool, body, response, errs, runs, hooks>>
  BY <1>0 DEF TransferTake, Control, UpdateLocked, workers, callers, channels, counts
<1>2. /\ Queued(m)
      /\ \A n : Queued(n)' => Queued(n)
  BY <1>0, <1>1, DequeueFacts DEF Ownership
<1>3. /\ \A n \in Msgs : Pending(n)' => Pending(n)
      /\ \A n \in Msgs : Unstarted(n)' => Unstarted(n)
  BY <1>1, <1>2 DEF Pending, Unstarted, InTransit, TypeOK
<1> QED
  BY <1>1, <1>3, AccountingFrame

(* The message put into the new queue was in the updater's hand: unstarted. *)
LEMMA TransferPutAccounting ==
  ASSUME TypeOK, Control, Ownership, Accounting, NEW u \in Updates, TransferPut(u)
  PROVE  Accounting'
<1>0. PICK m : m = hand[u]
  OBVIOUS
<1>1. /\ u \in Ops /\ requestQueues \in Gens /\ m \in Msgs
      /\ queue' = [queue EXCEPT ![requestQueues] = Append(queue[requestQueues], m)]
      /\ hand' = [hand EXCEPT ![u] = NoMsg]
      /\ UNCHANGED <<job, pc, pool, body, response, errs, runs, hooks>>
  BY <1>0 DEF TransferPut, Control, UpdateLocked, workers, callers, channels,
              counts, Ops, TypeOK
<1>2. ~Queued(m)
  BY <1>0, <1>1, NullAssumption DEF Ownership, OnePlace
<1>3. \A n : Queued(n)' <=> Queued(n) \/ n = m
  BY <1>1, <1>2, EnqueueFacts DEF Ownership
<1>4. /\ \A n \in Msgs : Pending(n)' => Pending(n)
      /\ \A n \in Msgs : Unstarted(n)' => Unstarted(n)
  BY <1>0, <1>1, <1>3, NullAssumption DEF Pending, Unstarted, InTransit, TypeOK
<1> QED
  BY <1>1, <1>4, AccountingFrame

(* A message failed by the updater was unstarted, hence unbilled. *)
LEMMA TransferCancelAccounting ==
  ASSUME TypeOK, Control, Ownership, Accounting, NEW u \in Updates, TransferCancel(u)
  PROVE  Accounting'
<1>0. PICK m : m = hand[u]
  OBVIOUS
<1>1. /\ u \in Ops /\ m \in Msgs /\ FailMsg(m)
      /\ hand' = [hand EXCEPT ![u] = NoMsg]
      /\ UNCHANGED <<queue, job, pc, pool, body, response, runs, hooks>>
  BY <1>0 DEF TransferCancel, workers, callers, counts, Ops, TypeOK
<1>2. \A n : Queued(n)' <=> Queued(n)
  BY <1>1 DEF Queued
<1>3. \A n \in Msgs : n # m => errs'[n] = errs[n]
  BY <1>1 DEF FailMsg, TypeOK
<1>4. /\ \A n \in Msgs : Pending(n)' => Pending(n)
      /\ \A n \in Msgs : Unstarted(n)' => Unstarted(n)
  BY <1>0, <1>1, <1>2, <1>3, NullAssumption DEF Pending, Unstarted, InTransit, TypeOK
<1> QED
  BY <1>1, <1>4, AccountingFrame

(* Prepare charges no request twice. *)
LEMMA PrepareKeepsAccounting ==
  ASSUME TypeOK, Control, Ownership, Accounting,
         Prepare
  PROVE  Accounting'
<1>1. CASE PrepareQueue
  <2>1. /\ UNCHANGED <<queue, job, hand, response, errs, body, runs, hooks>>
        /\ pool \subseteq pool'
    BY <1>1 DEF PrepareQueue, registry, workers, callers, channels, counts, ops
  <2>2. \A q \in Requests :
          /\ pc[q] \in {"send", "await", "over"} => pc'[q] \in {"send", "await", "over"}
          /\ pc'[q] \notin {"await", "over"} => pc[q] \notin {"await", "over"}
    BY <1>1 DEF PrepareQueue, TypeOK, callers
  <2> QED BY <2>1, <2>2, AccountingStill
<1>2. CASE PrepareWaitGroup
  <2>1. /\ UNCHANGED <<queue, job, hand, response, errs, body, runs, hooks>>
        /\ pool \subseteq pool'
    BY <1>2 DEF PrepareWaitGroup, registry, workers, callers, channels, counts, ops
  <2>2. \A q \in Requests :
          /\ pc[q] \in {"send", "await", "over"} => pc'[q] \in {"send", "await", "over"}
          /\ pc'[q] \notin {"await", "over"} => pc[q] \notin {"await", "over"}
    BY <1>2 DEF PrepareWaitGroup, TypeOK, callers
  <2> QED BY <2>1, <2>2, AccountingStill
<1>3. CASE PrepareCreate
  <2>1. /\ UNCHANGED <<queue, job, hand, response, errs, body, runs, hooks>>
        /\ pool \subseteq pool'
    BY <1>3 DEF PrepareCreate, registry, workers, callers, channels, counts, ops
  <2>2. \A q \in Requests :
          /\ pc[q] \in {"send", "await", "over"} => pc'[q] \in {"send", "await", "over"}
          /\ pc'[q] \notin {"await", "over"} => pc[q] \notin {"await", "over"}
    BY <1>3 DEF PrepareCreate, TypeOK, callers
  <2> QED BY <2>1, <2>2, AccountingStill
<1>4. CASE PrepareFail
  <2>1. /\ UNCHANGED <<queue, job, hand, response, errs, body, runs, hooks>>
        /\ pool \subseteq pool'
    BY <1>4 DEF PrepareFail, registry, workers, callers, channels, counts, ops
  <2>2. \A q \in Requests :
          /\ pc[q] \in {"send", "await", "over"} => pc'[q] \in {"send", "await", "over"}
          /\ pc'[q] \notin {"await", "over"} => pc[q] \notin {"await", "over"}
    BY <1>4, ActorAssumption DEF PrepareFail, PrepareReturn, TypeOK, callers, PrepareLocked, Control
  <2> QED BY <2>1, <2>2, AccountingStill
<1>5. CASE PrepareWorkers
  <2>1. /\ UNCHANGED <<queue, job, hand, response, errs, body, runs, hooks>>
        /\ pool \subseteq pool'
    BY <1>5 DEF PrepareWorkers, registry, workers, callers, channels, counts, ops
  <2>2. \A q \in Requests :
          /\ pc[q] \in {"send", "await", "over"} => pc'[q] \in {"send", "await", "over"}
          /\ pc'[q] \notin {"await", "over"} => pc[q] \notin {"await", "over"}
    BY <1>5, ActorAssumption DEF PrepareWorkers, PrepareReturn, TypeOK, callers, PrepareLocked, Control
  <2> QED BY <2>1, <2>2, AccountingStill
<1> QED
  BY <1>1, <1>2, <1>3, <1>4, <1>5 DEF Prepare

(* Caller charges no request twice. *)
LEMMA CallerKeepsAccounting ==
  ASSUME TypeOK, Control, Ownership, Accounting,
         NEW r \in Requests, Caller(r)
  PROVE  Accounting'
<1>1. CASE Lookup(r)
  <2>1. /\ UNCHANGED <<queue, job, hand, response, errs, body, runs, hooks>>
        /\ pool \subseteq pool'
    BY <1>1 DEF Lookup, registry, workers, callers, channels, counts, ops
  <2>2. \A q \in Requests :
          /\ pc[q] \in {"send", "await", "over"} => pc'[q] \in {"send", "await", "over"}
          /\ pc'[q] \notin {"await", "over"} => pc[q] \notin {"await", "over"}
    BY <1>1 DEF Lookup, TypeOK, callers
  <2> QED BY <2>1, <2>2, AccountingStill
<1>2. CASE LookupLocked(r)
  <2>1. /\ UNCHANGED <<queue, job, hand, response, errs, body, runs, hooks>>
        /\ pool \subseteq pool'
    BY <1>2 DEF LookupLocked, registry, workers, callers, channels, counts, ops
  <2>2. \A q \in Requests :
          /\ pc[q] \in {"send", "await", "over"} => pc'[q] \in {"send", "await", "over"}
          /\ pc'[q] \notin {"await", "over"} => pc[q] \notin {"await", "over"}
    BY <1>2 DEF LookupLocked, BeginPrepare, TypeOK, callers
  <2> QED BY <2>1, <2>2, AccountingStill
<1>3. CASE ShortCircuit(r)
  BY <1>3, ShortCircuitAccounting
<1>4. CASE Enter(r)
  BY <1>4, EnterAccounting
<1>5. CASE Send(r)
  BY <1>5, SendAccounting
<1>6. CASE SendRefused(r)
  <2>1. /\ UNCHANGED <<queue, job, hand, response, errs, body, runs, hooks>>
        /\ pool \subseteq pool'
    BY <1>6 DEF SendRefused, Release, registry, workers, callers, channels, counts, ops
  <2>2. \A q \in Requests :
          /\ pc[q] \in {"send", "await", "over"} => pc'[q] \in {"send", "await", "over"}
          /\ pc'[q] \notin {"await", "over"} => pc[q] \notin {"await", "over"}
    BY <1>6 DEF SendRefused, Release, TypeOK, callers
  <2> QED BY <2>1, <2>2, AccountingStill
<1>7. CASE Receive(r)
  BY <1>7, ReceiveAccounting
<1>8. CASE Abandon(r)
  <2>1. /\ UNCHANGED <<queue, job, hand, response, errs, body, runs, hooks>>
        /\ pool \subseteq pool'
    BY <1>8 DEF Abandon, Forget, registry, workers, callers, channels, counts, ops
  <2>2. \A q \in Requests :
          /\ pc[q] \in {"send", "await", "over"} => pc'[q] \in {"send", "await", "over"}
          /\ pc'[q] \notin {"await", "over"} => pc[q] \notin {"await", "over"}
    BY <1>8 DEF Abandon, Forget, TypeOK, callers
  <2> QED BY <2>1, <2>2, AccountingStill
<1> QED
  BY <1>1, <1>2, <1>3, <1>4, <1>5, <1>6, <1>7, <1>8 DEF Caller

(* Worker charges no request twice. *)
LEMMA WorkerKeepsAccounting ==
  ASSUME TypeOK, Control, Ownership, Accounting,
         NEW w \in Workers, Worker(w)
  PROVE  Accounting'
<1>1. CASE Take(w)
  BY <1>1, TakeAccounting
<1>2. CASE Deliver(w)
  BY <1>2, DeliverAccounting
<1>3. CASE BillAbandonedTerminal(w)
  BY <1>3, BillAccounting
<1>4. CASE SeeDone(w)
  <2>1. /\ UNCHANGED <<queue, job, hand, response, errs, body, runs, hooks>>
        /\ pool \subseteq pool'
    BY <1>4 DEF SeeDone, registry, workers, callers, channels, counts, ops
  <2>2. \A q \in Requests :
          /\ pc[q] \in {"send", "await", "over"} => pc'[q] \in {"send", "await", "over"}
          /\ pc'[q] \notin {"await", "over"} => pc[q] \notin {"await", "over"}
    BY <1>4 DEF SeeDone, TypeOK, callers
  <2> QED BY <2>1, <2>2, AccountingStill
<1>5. CASE WorkerDrain(w)
  <2>1. /\ w[1] \in Gens /\ DrainOne(w[1])
        /\ UNCHANGED <<job, hand, pc, pool, body, response, runs, hooks>>
    BY <1>5 DEF WorkerDrain, Workers, workers, callers, counts, ops
  <2> QED BY <2>1, DrainAccounting
<1>6. CASE Exit(w)
  <2>1. /\ UNCHANGED <<queue, job, hand, response, errs, body, runs, hooks>>
        /\ pool \subseteq pool'
    BY <1>6 DEF Exit, registry, workers, callers, channels, counts, ops
  <2>2. \A q \in Requests :
          /\ pc[q] \in {"send", "await", "over"} => pc'[q] \in {"send", "await", "over"}
          /\ pc'[q] \notin {"await", "over"} => pc[q] \notin {"await", "over"}
    BY <1>6 DEF Exit, TypeOK, callers
  <2> QED BY <2>1, <2>2, AccountingStill
<1> QED
  BY <1>1, <1>2, <1>3, <1>4, <1>5, <1>6 DEF Worker

(* Cleanup charges no request twice. *)
LEMMA CleanupKeepsAccounting ==
  ASSUME TypeOK, Control, Ownership, Accounting,
         NEW g \in Gens, Cleanup(g)
  PROVE  Accounting'
<1>1. CASE CleanupWait(g)
  <2>1. /\ UNCHANGED <<queue, job, hand, response, errs, body, runs, hooks>>
        /\ pool \subseteq pool'
    BY <1>1 DEF CleanupWait, registry, workers, callers, channels, counts, ops
  <2>2. \A q \in Requests :
          /\ pc[q] \in {"send", "await", "over"} => pc'[q] \in {"send", "await", "over"}
          /\ pc'[q] \notin {"await", "over"} => pc[q] \notin {"await", "over"}
    BY <1>1 DEF CleanupWait, TypeOK, callers
  <2> QED BY <2>1, <2>2, AccountingStill
<1>2. CASE CleanupDrain(g)
  <2>1. /\ g \in Gens /\ DrainOne(g)
        /\ UNCHANGED <<job, hand, pc, pool, body, response, runs, hooks>>
    BY <1>2 DEF CleanupDrain, workers, callers, counts, ops
  <2> QED BY <2>1, DrainAccounting
<1>3. CASE CleanupEnd(g)
  <2>1. /\ UNCHANGED <<queue, job, hand, response, errs, body, runs, hooks>>
        /\ pool \subseteq pool'
    BY <1>3 DEF CleanupEnd, registry, workers, callers, channels, counts, ops
  <2>2. \A q \in Requests :
          /\ pc[q] \in {"send", "await", "over"} => pc'[q] \in {"send", "await", "over"}
          /\ pc'[q] \notin {"await", "over"} => pc[q] \notin {"await", "over"}
    BY <1>3 DEF CleanupEnd, TypeOK, callers
  <2> QED BY <2>1, <2>2, AccountingStill
<1> QED
  BY <1>1, <1>2, <1>3 DEF Cleanup

(* Update charges no request twice. *)
LEMMA UpdateKeepsAccounting ==
  ASSUME TypeOK, Control, Ownership, Accounting,
         NEW u \in Updates, Update(u)
  PROVE  Accounting'
<1>1. CASE UpdateBegin(u)
  <2>1. /\ UNCHANGED <<queue, job, hand, response, errs, body, runs, hooks>>
        /\ pool \subseteq pool'
    BY <1>1 DEF UpdateBegin, registry, workers, callers, channels, counts, ops
  <2>2. \A q \in Requests :
          /\ pc[q] \in {"send", "await", "over"} => pc'[q] \in {"send", "await", "over"}
          /\ pc'[q] \notin {"await", "over"} => pc[q] \notin {"await", "over"}
    BY <1>1 DEF UpdateBegin, TypeOK, callers
  <2> QED BY <2>1, <2>2, AccountingStill
<1>2. CASE UpdateAbsent(u)
  <2>1. /\ UNCHANGED <<queue, job, hand, response, errs, body, runs, hooks>>
        /\ pool \subseteq pool'
    BY <1>2 DEF UpdateAbsent, registry, workers, callers, channels, counts, ops
  <2>2. \A q \in Requests :
          /\ pc[q] \in {"send", "await", "over"} => pc'[q] \in {"send", "await", "over"}
          /\ pc'[q] \notin {"await", "over"} => pc[q] \notin {"await", "over"}
    BY <1>2 DEF UpdateAbsent, BeginPrepare, TypeOK, callers
  <2> QED BY <2>1, <2>2, AccountingStill
<1>3. CASE UpdateFail(u)
  <2>1. /\ UNCHANGED <<queue, job, hand, response, errs, body, runs, hooks>>
        /\ pool \subseteq pool'
    BY <1>3 DEF UpdateFail, registry, workers, callers, channels, counts, ops
  <2>2. \A q \in Requests :
          /\ pc[q] \in {"send", "await", "over"} => pc'[q] \in {"send", "await", "over"}
          /\ pc'[q] \notin {"await", "over"} => pc[q] \notin {"await", "over"}
    BY <1>3 DEF UpdateFail, TypeOK, callers
  <2> QED BY <2>1, <2>2, AccountingStill
<1>4. CASE UpdatePublish(u)
  <2>1. /\ UNCHANGED <<queue, job, hand, response, errs, body, runs, hooks>>
        /\ pool \subseteq pool'
    BY <1>4 DEF UpdatePublish, registry, workers, callers, channels, counts, ops
  <2>2. \A q \in Requests :
          /\ pc[q] \in {"send", "await", "over"} => pc'[q] \in {"send", "await", "over"}
          /\ pc'[q] \notin {"await", "over"} => pc[q] \notin {"await", "over"}
    BY <1>4 DEF UpdatePublish, TypeOK, callers
  <2> QED BY <2>1, <2>2, AccountingStill
<1>5. CASE TransferTake(u)
  BY <1>5, TransferTakeAccounting
<1>6. CASE TransferPut(u)
  BY <1>6, TransferPutAccounting
<1>7. CASE TransferCancel(u)
  BY <1>7, TransferCancelAccounting
<1>8. CASE CancelRest(u)
  <2>1. /\ old[u] \in Gens /\ DrainOne(old[u])
        /\ UNCHANGED <<job, hand, pc, pool, body, response, runs, hooks>>
    BY <1>8 DEF CancelRest, Control, UpdateLocked, workers, callers, counts, ops
  <2> QED BY <2>1, DrainAccounting
<1>9. CASE TransferEnd(u)
  <2>1. /\ UNCHANGED <<queue, job, hand, response, errs, body, runs, hooks>>
        /\ pool \subseteq pool'
    BY <1>9 DEF TransferEnd, registry, workers, callers, channels, counts, ops
  <2>2. \A q \in Requests :
          /\ pc[q] \in {"send", "await", "over"} => pc'[q] \in {"send", "await", "over"}
          /\ pc'[q] \notin {"await", "over"} => pc[q] \notin {"await", "over"}
    BY <1>9 DEF TransferEnd, TypeOK, callers
  <2> QED BY <2>1, <2>2, AccountingStill
<1>10. CASE UpdateFinish(u)
  <2>1. /\ UNCHANGED <<queue, job, hand, response, errs, body, runs, hooks>>
        /\ pool \subseteq pool'
    BY <1>10 DEF UpdateFinish, registry, workers, callers, channels, counts, ops
  <2>2. \A q \in Requests :
          /\ pc[q] \in {"send", "await", "over"} => pc'[q] \in {"send", "await", "over"}
          /\ pc'[q] \notin {"await", "over"} => pc[q] \notin {"await", "over"}
    BY <1>10 DEF UpdateFinish, TypeOK, callers
  <2> QED BY <2>1, <2>2, AccountingStill
<1> QED
  BY <1>1, <1>2, <1>3, <1>4, <1>5, <1>6, <1>7, <1>8, <1>9, <1>10 DEF Update

(* Removal charges no request twice. *)
LEMMA RemovalKeepsAccounting ==
  ASSUME TypeOK, Control, Ownership, Accounting,
         NEW d \in Removals, Removal(d)
  PROVE  Accounting'
<1>1. CASE RemoveBegin(d)
  <2>1. /\ UNCHANGED <<queue, job, hand, response, errs, body, runs, hooks>>
        /\ pool \subseteq pool'
    BY <1>1 DEF RemoveBegin, registry, workers, callers, channels, counts, ops
  <2>2. \A q \in Requests :
          /\ pc[q] \in {"send", "await", "over"} => pc'[q] \in {"send", "await", "over"}
          /\ pc'[q] \notin {"await", "over"} => pc[q] \notin {"await", "over"}
    BY <1>1 DEF RemoveBegin, TypeOK, callers
  <2> QED BY <2>1, <2>2, AccountingStill
<1>2. CASE RemoveWait(d)
  <2>1. /\ UNCHANGED <<queue, job, hand, response, errs, body, runs, hooks>>
        /\ pool \subseteq pool'
    BY <1>2 DEF RemoveWait, registry, workers, callers, channels, counts, ops
  <2>2. \A q \in Requests :
          /\ pc[q] \in {"send", "await", "over"} => pc'[q] \in {"send", "await", "over"}
          /\ pc'[q] \notin {"await", "over"} => pc[q] \notin {"await", "over"}
    BY <1>2 DEF RemoveWait, TypeOK, callers
  <2> QED BY <2>1, <2>2, AccountingStill
<1>3. CASE RemoveDrain(d)
  <2>1. /\ old[d] \in Gens /\ DrainOne(old[d])
        /\ UNCHANGED <<job, hand, pc, pool, body, response, runs, hooks>>
    BY <1>3 DEF RemoveDrain, Control, RemovalLocked, workers, callers, counts, ops
  <2> QED BY <2>1, DrainAccounting
<1>4. CASE RemoveDrained(d)
  <2>1. /\ UNCHANGED <<queue, job, hand, response, errs, body, runs, hooks>>
        /\ pool \subseteq pool'
    BY <1>4 DEF RemoveDrained, registry, workers, callers, channels, counts, ops
  <2>2. \A q \in Requests :
          /\ pc[q] \in {"send", "await", "over"} => pc'[q] \in {"send", "await", "over"}
          /\ pc'[q] \notin {"await", "over"} => pc[q] \notin {"await", "over"}
    BY <1>4 DEF RemoveDrained, TypeOK, callers
  <2> QED BY <2>1, <2>2, AccountingStill
<1>5. CASE RemoveFinish(d)
  <2>1. /\ UNCHANGED <<queue, job, hand, response, errs, body, runs, hooks>>
        /\ pool \subseteq pool'
    BY <1>5 DEF RemoveFinish, registry, workers, callers, channels, counts, ops
  <2>2. \A q \in Requests :
          /\ pc[q] \in {"send", "await", "over"} => pc'[q] \in {"send", "await", "over"}
          /\ pc'[q] \notin {"await", "over"} => pc[q] \notin {"await", "over"}
    BY <1>5 DEF RemoveFinish, TypeOK, callers
  <2> QED BY <2>1, <2>2, AccountingStill
<1> QED
  BY <1>1, <1>2, <1>3, <1>4, <1>5 DEF Removal

(* Getter charges no request twice. *)
LEMMA GetterKeepsAccounting ==
  ASSUME TypeOK, Control, Ownership, Accounting,
         NEW k \in Getters, Getter(k)
  PROVE  Accounting'
<1>1. CASE GetterLook(k)
  <2>1. /\ UNCHANGED <<queue, job, hand, response, errs, body, runs, hooks>>
        /\ pool \subseteq pool'
    BY <1>1 DEF GetterLook, registry, workers, callers, channels, counts, ops
  <2>2. \A q \in Requests :
          /\ pc[q] \in {"send", "await", "over"} => pc'[q] \in {"send", "await", "over"}
          /\ pc'[q] \notin {"await", "over"} => pc[q] \notin {"await", "over"}
    BY <1>1 DEF GetterLook, TypeOK, callers
  <2> QED BY <2>1, <2>2, AccountingStill
<1>2. CASE GetterLocked(k)
  <2>1. /\ UNCHANGED <<queue, job, hand, response, errs, body, runs, hooks>>
        /\ pool \subseteq pool'
    BY <1>2 DEF GetterLocked, registry, workers, callers, channels, counts, ops
  <2>2. \A q \in Requests :
          /\ pc[q] \in {"send", "await", "over"} => pc'[q] \in {"send", "await", "over"}
          /\ pc'[q] \notin {"await", "over"} => pc[q] \notin {"await", "over"}
    BY <1>2 DEF GetterLocked, BeginPrepare, TypeOK, callers
  <2> QED BY <2>1, <2>2, AccountingStill
<1> QED
  BY <1>1, <1>2 DEF Getter

(* Shutdown charges no request twice. *)
LEMMA ShutdownKeepsAccounting ==
  ASSUME TypeOK, Control, Ownership, Accounting,
         NEW s \in Shutdowns, Shutdown(s)
  PROVE  Accounting'
<1>1. CASE ShutdownBegin(s)
  <2>1. /\ UNCHANGED <<queue, job, hand, response, errs, body, runs, hooks>>
        /\ pool \subseteq pool'
    BY <1>1 DEF ShutdownBegin, registry, workers, callers, channels, counts, ops
  <2>2. \A q \in Requests :
          /\ pc[q] \in {"send", "await", "over"} => pc'[q] \in {"send", "await", "over"}
          /\ pc'[q] \notin {"await", "over"} => pc[q] \notin {"await", "over"}
    BY <1>1 DEF ShutdownBegin, TypeOK, callers
  <2> QED BY <2>1, <2>2, AccountingStill
<1>2. CASE ShutdownSignal(s)
  <2>1. /\ UNCHANGED <<queue, job, hand, response, errs, body, runs, hooks>>
        /\ pool \subseteq pool'
    BY <1>2 DEF ShutdownSignal, registry, workers, callers, channels, counts, ops
  <2>2. \A q \in Requests :
          /\ pc[q] \in {"send", "await", "over"} => pc'[q] \in {"send", "await", "over"}
          /\ pc'[q] \notin {"await", "over"} => pc[q] \notin {"await", "over"}
    BY <1>2 DEF ShutdownSignal, TypeOK, callers
  <2> QED BY <2>1, <2>2, AccountingStill
<1>3. CASE ShutdownLoad(s)
  <2>1. /\ UNCHANGED <<queue, job, hand, response, errs, body, runs, hooks>>
        /\ pool \subseteq pool'
    BY <1>3 DEF ShutdownLoad, registry, workers, callers, channels, counts, ops
  <2>2. \A q \in Requests :
          /\ pc[q] \in {"send", "await", "over"} => pc'[q] \in {"send", "await", "over"}
          /\ pc'[q] \notin {"await", "over"} => pc[q] \notin {"await", "over"}
    BY <1>3 DEF ShutdownLoad, TypeOK, callers
  <2> QED BY <2>1, <2>2, AccountingStill
<1>4. CASE ShutdownWait(s)
  <2>1. /\ UNCHANGED <<queue, job, hand, response, errs, body, runs, hooks>>
        /\ pool \subseteq pool'
    BY <1>4 DEF ShutdownWait, registry, workers, callers, channels, counts, ops
  <2>2. \A q \in Requests :
          /\ pc[q] \in {"send", "await", "over"} => pc'[q] \in {"send", "await", "over"}
          /\ pc'[q] \notin {"await", "over"} => pc[q] \notin {"await", "over"}
    BY <1>4 DEF ShutdownWait, TypeOK, callers
  <2> QED BY <2>1, <2>2, AccountingStill
<1>5. CASE ShutdownCleanups(s)
  <2>1. /\ UNCHANGED <<queue, job, hand, response, errs, body, runs, hooks>>
        /\ pool \subseteq pool'
    BY <1>5 DEF ShutdownCleanups, registry, workers, callers, channels, counts, ops
  <2>2. \A q \in Requests :
          /\ pc[q] \in {"send", "await", "over"} => pc'[q] \in {"send", "await", "over"}
          /\ pc'[q] \notin {"await", "over"} => pc[q] \notin {"await", "over"}
    BY <1>5 DEF ShutdownCleanups, TypeOK, callers
  <2> QED BY <2>1, <2>2, AccountingStill
<1>6. CASE ShutdownDrain(s)
  <2>1. /\ old[s] \in Gens /\ DrainOne(old[s])
        /\ UNCHANGED <<job, hand, pc, pool, body, response, runs, hooks>>
    BY <1>6 DEF ShutdownDrain, Control, ShutdownKnows, workers, callers, counts, ops
  <2> QED BY <2>1, DrainAccounting
<1>7. CASE ShutdownEnd(s)
  <2>1. /\ UNCHANGED <<queue, job, hand, response, errs, body, runs, hooks>>
        /\ pool \subseteq pool'
    BY <1>7 DEF ShutdownEnd, registry, workers, callers, channels, counts, ops
  <2>2. \A q \in Requests :
          /\ pc[q] \in {"send", "await", "over"} => pc'[q] \in {"send", "await", "over"}
          /\ pc'[q] \notin {"await", "over"} => pc[q] \notin {"await", "over"}
    BY <1>7 DEF ShutdownEnd, TypeOK, callers
  <2> QED BY <2>1, <2>2, AccountingStill
<1> QED
  BY <1>1, <1>2, <1>3, <1>4, <1>5, <1>6, <1>7 DEF Shutdown

(* The end of a context moves nothing. *)
LEMMA ContextEndsKeeps ==
  ASSUME TypeOK, Control, Ownership, Accounting, NEW r \in Requests, ContextEnds(r)
  PROVE  TypeOK' /\ Control' /\ Ownership' /\ Accounting'
<1>1. TypeOK' /\ Control'
  BY DEF ContextEnds, TypeOK, Control, PrepareLocked, PrepareNewest, RemovalLocked,
     UpdateLocked, ShutdownKnows, CallerHolds, WorkerHolds, registry, workers,
     channels, counts, ops
<1>2. Ownership'
  BY OwnershipFrame DEF ContextEnds, workers, channels, ops
<1>3. Accounting'
  BY AccountingStill DEF ContextEnds, workers, channels, counts, ops
<1> QED
  BY <1>1, <1>2, <1>3

------------------------------------------------------------------------------
(* The inductive invariant, and what follows from it.                      *)

(* It holds when Init returns. *)
LEMMA InitEstablishes == Init => IInv
<1>1. SUFFICES ASSUME Init PROVE IInv
  OBVIOUS
<1> USE <1>1
<1>2. TypeOK
  <2>1. PICK i \in InitGens :
          /\ requestQueues = i /\ waitGroups = i /\ lastGen = i
          /\ providers = (i = 1)
          /\ worker = [w \in Workers |-> IF w[1] = i THEN "idle" ELSE "none"]
    BY DEF Init
  <2>2. i \in 0..MaxGen /\ i \in Gens \cup {NoGen}
    BY InitGensAssumption, MaxGenAssumption DEF Gens, NoGen
  <2>3. /\ requestQueues \in Gens \cup {NoGen} /\ waitGroups \in Gens \cup {NoGen}
        /\ lastGen \in 0..MaxGen /\ providers \in BOOLEAN
        /\ worker \in [Workers -> {"none", "idle", "busy", "draining", "exited"}]
    BY <2>1, <2>2
  <2> QED
    BY <2>3 DEF Init, TypeOK, NoGen
<1>3. Control
  BY ActorAssumption DEF Init, Control, PrepareLocked, PrepareNewest, RemovalLocked,
     UpdateLocked, ShutdownKnows, CallerHolds, WorkerHolds, Ops
<1>4. \A m : ~Queued(m)
  BY DEF Init, Queued, Range
<1>5. \A m \in Msgs : ~InTransit(m)
  BY <1>4, NullAssumption DEF Init, InTransit
<1>6. Ownership
  BY <1>5 DEF Init, Ownership, QueuedOnce, OnePlace, Mine, Channels, NoCrossTalk
<1>7. Accounting
  BY DEF Init, Accounting, OneMessage, Unspent, AtMostOnce
<1> QED
  BY <1>2, <1>3, <1>6, <1>7 DEF IInv

(* Every step keeps it. *)
LEMMA StepKeeps == IInv /\ [Next]_vars => IInv'
<1>1. SUFFICES ASSUME IInv, [Next]_vars PROVE IInv'
  OBVIOUS
<1>2. TypeOK /\ Control /\ Ownership /\ Accounting
  BY <1>1 DEF IInv
<1>3. CASE Prepare
  BY <1>2, <1>3, PrepareKeepsControl, PrepareKeepsOwnership, PrepareKeepsAccounting DEF IInv
<1>4. CASE \E r \in Requests : Caller(r)
  BY <1>2, <1>4, CallerKeepsControl, CallerKeepsOwnership, CallerKeepsAccounting DEF IInv
<1>5. CASE \E r \in Requests : ContextEnds(r)
  BY <1>2, <1>5, ContextEndsKeeps DEF IInv
<1>6. CASE \E w \in Workers : Worker(w)
  BY <1>2, <1>6, WorkerKeepsControl, WorkerKeepsOwnership, WorkerKeepsAccounting DEF IInv
<1>7. CASE \E g \in Gens : Cleanup(g)
  BY <1>2, <1>7, CleanupKeepsControl, CleanupKeepsOwnership, CleanupKeepsAccounting DEF IInv
<1>8. CASE \E u \in Updates : Update(u)
  BY <1>2, <1>8, UpdateKeepsControl, UpdateKeepsOwnership, UpdateKeepsAccounting DEF IInv
<1>9. CASE \E d \in Removals : Removal(d)
  BY <1>2, <1>9, RemovalKeepsControl, RemovalKeepsOwnership, RemovalKeepsAccounting DEF IInv
<1>10. CASE \E k \in Getters : Getter(k)
  BY <1>2, <1>10, GetterKeepsControl, GetterKeepsOwnership, GetterKeepsAccounting DEF IInv
<1>11. CASE \E s \in Shutdowns : Shutdown(s)
  BY <1>2, <1>11, ShutdownKeepsControl, ShutdownKeepsOwnership, ShutdownKeepsAccounting DEF IInv
<1>12. CASE UNCHANGED vars
  <2>1. TypeOK' /\ Control'
    BY <1>2, <1>12 DEF vars, registry, workers, callers, channels, counts, ops,
       TypeOK, Control, PrepareLocked, PrepareNewest, RemovalLocked,
       UpdateLocked, ShutdownKnows, CallerHolds, WorkerHolds
  <2>2. Ownership'
    BY <1>2, <1>12, OwnershipFrame DEF vars, workers, callers, channels, ops
  <2>3. Accounting'
    BY <1>2, <1>12, AccountingStill DEF vars, workers, callers, channels, counts, ops
  <2> QED BY <2>1, <2>2, <2>3 DEF IInv
<1> QED
  BY <1>1, <1>3, <1>4, <1>5, <1>6, <1>7, <1>8, <1>9, <1>10, <1>11, <1>12 DEF Next

(* IInv is an invariant of the queue for every number of requests,         *)
(* messages, workers, generations and lifecycle calls.                     *)
THEOREM Invariance == Spec => []IInv
<1>1. Init => IInv
  BY InitEstablishes
<1>2. IInv /\ [Next]_vars => IInv'
  BY StepKeeps
<1> QED
  BY <1>1, <1>2, PTL DEF Spec

(* Every variable keeps its type. *)
THEOREM TypeCorrect == Spec => []TypeOK
<1>1. IInv => TypeOK
  BY DEF IInv
<1> QED
  BY <1>1, Invariance, PTL

(* A caller receives the answer to its own request only, although channels *)
(* are pooled and a cancelled request leaves its message with a worker     *)
(* (tryRequest's ctx.Done branch, releaseChannelMessage).                  *)
THEOREM OwnAnswers == Spec => []NoCrossTalk
<1>1. IInv => NoCrossTalk
  BY DEF IInv, Ownership
<1> QED
  BY <1>1, Invariance, PTL

(* Pooled messages are quiet: no queue, worker or updater holds one, and   *)
(* its channels are empty (getChannelMessage).                             *)
THEOREM PoolIsQuiet == Spec => []PooledQuiet
<1>1. IInv => PooledQuiet
  <2>1. SUFFICES ASSUME IInv, NEW m \in pool
                 PROVE  ~InTransit(m) /\ response[m] = NoReq /\ errs[m] = NoReq
    BY DEF PooledQuiet
  <2>2. m \in Msgs
    BY <2>1 DEF IInv, TypeOK
  <2> QED BY <2>1, <2>2 DEF IInv, Ownership, Channels
<1> QED
  BY <1>1, Invariance, PTL

(* Whoever dequeues a message can send to its channels without waiting     *)
(* (drainQueueWithErrors, requestWorker).                                  *)
THEOREM SendsAreImmediate == Spec => []SendsNeverBlock
<1>1. IInv => SendsNeverBlock
  BY DEF IInv, Ownership, Channels, SendsNeverBlock
<1> QED
  BY <1>1, Invariance, PTL

(* No request runs twice or is billed twice, through transfers, drains,    *)
(* short circuits and cancellation (billAbandonedTerminal).                *)
THEOREM ChargedOnce == Spec => []AtMostOnce
<1>1. IInv => AtMostOnce
  BY DEF IInv, Accounting
<1> QED
  BY <1>1, Invariance, PTL

------------------------------------------------------------------------------
(* Generations: which workers run, and who waits for them.                 *)

(* The goroutines of a generation, seen as a set of pairs. *)
LEMMA WorkersOf ==
  /\ \A g \in Gens, s \in Slots : <<g, s>> \in Workers
  /\ \A w \in Workers : w[1] \in Gens /\ w[2] \in Slots /\ w = <<w[1], w[2]>>
BY DEF Workers

(* Without a holder of the mutex nobody is inside prepareProvider. *)
LEMMA FreeMutex ==
  ASSUME Control, mutex = Free
  PROVE  prep = "none" /\ \A d \in Removals : opc[d] \notin {"wait", "drain", "retired"}
BY NullAssumption DEF Control, PrepareLocked, RemovalLocked, Ops

(* An operation that holds it for something else is alone with it.         *)
LEMMA HeldMutex ==
  ASSUME Control, NEW o \in Ops, mutex = o, opc[o] # "prepare"
  PROVE  /\ prep = "none"
         /\ \A d \in Removals : d # o => opc[d] \notin {"wait", "drain", "retired"}
         /\ \A u \in Updates : u # o => ~Replacing(u)
<1>1. o \notin Requests
  BY ActorAssumption
<1> QED
  BY <1>1 DEF Control, PrepareLocked, RemovalLocked, UpdateLocked, Replacing

(* A step that moves no generation: an operation may go on, as long as it  *)
(* neither begins to replace a queue nor ends a wait, and a holder of the  *)
(* mutex may enter prepareProvider for a provider outside the slice.       *)
LEMMA GenerationsFrame ==
  ASSUME Generations,
         UNCHANGED <<requestQueues, waitGroups, providers, lastGen, closing, cleanup,
                     worker, old>>,
         \/ UNCHANGED prep
         \/ prep = "none" /\ prep' = "queue" /\ (requestQueues = NoGen \/ ~providers),
         \A u \in Updates : Replacing(u)' <=> Replacing(u),
         \A d \in Removals :
            /\ opc'[d] \in {"drain", "retired"} => opc[d] \in {"drain", "retired"}
            /\ opc[d] \in {"wait", "drain", "retired"} =>
                 opc'[d] \in {"wait", "drain", "retired"},
         \A s \in Shutdowns :
            opc[s] \notin {"start", "signal"} => opc'[s] \notin {"start", "signal"}
  PROVE  Generations'
<1>1. \A g : (Stopped(g)' <=> Stopped(g)) /\ (NoWorkers(g)' <=> NoWorkers(g))
  BY DEF Stopped, NoWorkers
<1>2. Untouched'
  BY <1>1 DEF Generations, Untouched
<1>3. Registered'
  BY <1>1 DEF Generations, Registered
<1>4. ClosedBySomebody'
  BY DEF Generations, ClosedBySomebody
<1>5. Awaited'
  BY <1>1 DEF Generations, Awaited
<1> QED
  BY <1>2, <1>3, <1>4, <1>5 DEF Generations

(* A running worker goes on, and gives up or exits only a closed queue.    *)
LEMMA WorkerSteps ==
  ASSUME TypeOK, Control, Generations, NEW w \in Workers, NEW x,
         UNCHANGED <<registry, closing, cleanup, ops>>,
         worker[w] \notin {"none", "exited"}, x # "none",
         x \in {"draining", "exited"} => closing[w[1]],
         worker' = [worker EXCEPT ![w] = x]
  PROVE  Generations'
<1>1. /\ UNCHANGED <<requestQueues, waitGroups, providers, lastGen, prep, opc, old>>
      /\ \A g \in Gens, s \in Slots : worker[<<g, s>>] \in {"none", "exited"} =>
           worker'[<<g, s>>] = worker[<<g, s>>]
      /\ \A v \in Workers : worker'[v] = IF v = w THEN x ELSE worker[v]
  <2>1. \A v \in Workers : worker'[v] = IF v = w THEN x ELSE worker[v]
    BY DEF TypeOK
  <2>2. \A g \in Gens, s \in Slots : <<g, s>> \in Workers
    BY WorkersOf
  <2> QED
    BY <2>1, <2>2 DEF registry, ops
<1>2. \A g : Stopped(g) => Stopped(g)'
  BY <1>1 DEF Stopped
<1>3. \A g \in Gens : NoWorkers(g) => NoWorkers(g)'
  BY <1>1 DEF NoWorkers
<1>4. lastGen \in Gens \/ prep \notin {"waitgroup", "create", "workers"}
  BY DEF Control, PrepareNewest, TypeOK, Gens
<1>5. Untouched'
  BY <1>1, <1>3, <1>4 DEF Generations, Untouched
<1>6. Registered'
  BY <1>1, <1>2 DEF Generations, Registered
<1>7. ClosedBySomebody'
  <2>1. \A v \in Workers : worker'[v] \in {"draining", "exited"} => closing[v[1]]
    BY <1>1 DEF Generations, ClosedBySomebody
  <2>2. \A g \in Gens, s \in Slots : worker[<<g, s>>] # "none" => worker'[<<g, s>>] # "none"
    BY <1>1, WorkersOf
  <2>3. providers => requestQueues \in Gens
    BY DEF Generations, Registered, TypeOK
  <2> QED
    BY <1>1, <2>1, <2>2, <2>3 DEF Generations, ClosedBySomebody
<1>8. Awaited'
  BY <1>1, <1>2 DEF Generations, Awaited, Replacing
<1> QED
  BY <1>5, <1>6, <1>7, <1>8 DEF Generations
(* Starting the workers of a queue that has none. *)
LEMMA StartFacts ==
  ASSUME TypeOK, NEW g \in Gens, NoWorkers(g), StartWorkers(g)
  PROVE  /\ \A h \in Gens : h # g => /\ Stopped(h)' <=> Stopped(h)
                                     /\ NoWorkers(h)' <=> NoWorkers(h)
         /\ \A w \in Workers : worker'[w] \in {"draining", "exited"} =>
              w[1] # g /\ worker[w] \in {"draining", "exited"}
         /\ \A s \in Slots : worker'[<<g, s>>] = "idle"
         /\ \A h \in Gens, s \in Slots : worker[<<h, s>>] # "none" =>
              worker'[<<h, s>>] # "none"
<1>1. \A h \in Gens, s \in Slots :
         worker'[<<h, s>>] = IF h = g THEN "idle" ELSE worker[<<h, s>>]
  <2>1. \A h \in Gens, s \in Slots : <<h, s>> \in Workers /\ <<h, s>>[1] = h
    BY WorkersOf
  <2> QED
    BY <2>1 DEF StartWorkers
<1>2. \A w \in Workers : worker'[w] = IF w[1] = g THEN "idle" ELSE worker[w]
  BY DEF StartWorkers
<1> QED
  BY <1>1, <1>2 DEF Stopped, NoWorkers

(* prepareProvider starts workers last, for the queue it published, and    *)
(* leaves the provider outside the slice when it fails before.             *)
LEMMA PrepareKeepsGenerations ==
  ASSUME TypeOK, Control, Generations, Prepare
  PROVE  Generations'
<1>1. /\ \A d \in Removals : opc[d] \notin {"wait", "drain", "retired"}
      /\ \A u \in Updates : ~Replacing(u)
  <2>1. \A o \in Ops : mutex = o => opc[o] = "prepare"
    BY ActorAssumption DEF Control, PrepareLocked, Prepare, PrepareQueue, PrepareWaitGroup,
       PrepareCreate, PrepareFail, PrepareWorkers
  <2> QED
    BY <2>1 DEF Control, RemovalLocked, UpdateLocked, Replacing, Ops
<1>2. CASE PrepareQueue
  <2>1. /\ prep = "queue" /\ prep' = "waitgroup"
        /\ lastGen' = lastGen + 1 /\ requestQueues' = lastGen + 1
        /\ UNCHANGED <<waitGroups, providers, closing, cleanup, worker, opc, old>>
        /\ lastGen' \in Gens /\ lastGen \in Nat
    BY <1>2, MaxGenAssumption DEF PrepareQueue, workers, ops, Control, PrepareNewest, TypeOK, Gens
  <2>2. \A g : (Stopped(g)' <=> Stopped(g)) /\ (NoWorkers(g)' <=> NoWorkers(g))
    BY <2>1 DEF Stopped, NoWorkers
  <2>3. Untouched'
    BY <2>1, <2>2 DEF Generations, Untouched, Gens
  <2>4. Registered'
    BY <2>1, <2>2 DEF Generations, Registered, NoGen
  <2>5. ClosedBySomebody'
    <3>1. ~providers /\ ~closing[lastGen']
      BY <2>1 DEF Generations, Untouched, Registered, Gens
    <3> QED
      BY <2>1, <3>1 DEF Generations, ClosedBySomebody
  <2>6. Awaited'
    BY <1>1, <2>1, <2>2 DEF Generations, Awaited, Replacing
  <2> QED
    BY <2>3, <2>4, <2>5, <2>6 DEF Generations
<1>3. CASE PrepareWaitGroup
  <2>1. /\ prep = "waitgroup" /\ prep' = "create" /\ waitGroups' = lastGen
        /\ UNCHANGED <<requestQueues, providers, lastGen, closing, cleanup, worker, opc, old>>
        /\ requestQueues = lastGen /\ lastGen \in Gens
    BY <1>3 DEF PrepareWaitGroup, workers, ops, Control, PrepareNewest
  <2>2. \A g : (Stopped(g)' <=> Stopped(g)) /\ (NoWorkers(g)' <=> NoWorkers(g))
    BY <2>1 DEF Stopped, NoWorkers
  <2>3. ~providers /\ Stopped(waitGroups) /\ Stopped(lastGen) /\ NoWorkers(lastGen)
    BY <2>1 DEF Generations, Registered, Untouched, NoWorkers, Stopped
  <2>4. Untouched'
    BY <2>1, <2>2 DEF Generations, Untouched
  <2>5. Registered'
    BY <2>1, <2>2, <2>3 DEF Generations, Registered
  <2>6. ClosedBySomebody'
    BY <2>1, <2>3 DEF Generations, ClosedBySomebody
  <2>7. Awaited'
    BY <1>1, <2>1, <2>2, <2>3 DEF Generations, Awaited, Replacing
  <2> QED
    BY <2>4, <2>5, <2>6, <2>7 DEF Generations
<1>4. CASE PrepareCreate
  <2>1. /\ prep = "create" /\ prep' = "workers" /\ providers'
        /\ UNCHANGED <<requestQueues, waitGroups, lastGen, closing, cleanup, worker, opc, old>>
        /\ requestQueues = lastGen /\ lastGen \in Gens /\ requestQueues # NoGen
    BY <1>4 DEF PrepareCreate, workers, ops, Control, PrepareNewest, NoGen, Gens
  <2>2. \A g : (Stopped(g)' <=> Stopped(g)) /\ (NoWorkers(g)' <=> NoWorkers(g))
    BY <2>1 DEF Stopped, NoWorkers
  <2>3. Untouched' /\ Registered' /\ ClosedBySomebody' /\ Awaited'
    BY <1>1, <2>1, <2>2 DEF Generations, Untouched, Registered, ClosedBySomebody, Awaited, Replacing
  <2> QED
    BY <2>3 DEF Generations
<1>5. CASE PrepareFail
  <2>1. /\ prep = "create" /\ prep' = "none" /\ CreateMayFail
        /\ UNCHANGED <<requestQueues, waitGroups, providers, lastGen, closing, cleanup, worker, old>>
        /\ requestQueues = lastGen /\ lastGen \in Gens /\ requestQueues # NoGen
    BY <1>5 DEF PrepareFail, PrepareReturn, workers, Control, PrepareNewest, NoGen, Gens
  <2>2. \A o \in Ops : opc'[o] = IF o = mutex THEN "over" ELSE opc[o]
    BY <1>5 DEF PrepareFail, PrepareReturn
  <2>3. /\ \A u \in Updates : ~Replacing(u)'
        /\ \A d \in Removals : opc'[d] \notin {"wait", "drain", "retired"}
        /\ \A s \in Shutdowns :
             opc[s] \notin {"start", "signal"} => opc'[s] \notin {"start", "signal"}
    BY <1>1, <2>2 DEF Replacing, Ops
  <2>4. \A g : (Stopped(g)' <=> Stopped(g)) /\ (NoWorkers(g)' <=> NoWorkers(g))
    BY <2>1 DEF Stopped, NoWorkers
  <2>5. Untouched' /\ Registered'
    BY <2>1, <2>4 DEF Generations, Untouched, Registered
  <2>6. ClosedBySomebody'
    BY <1>1, <2>1, <2>3 DEF Generations, ClosedBySomebody, Registered
  <2>7. Awaited'
    BY <1>1, <2>1, <2>3, <2>4 DEF Generations, Awaited
  <2> QED
    BY <2>5, <2>6, <2>7 DEF Generations
<1>6. CASE PrepareWorkers
  <2>1. /\ prep = "workers" /\ prep' = "none" /\ StartWorkers(lastGen)
        /\ UNCHANGED <<requestQueues, waitGroups, providers, lastGen, closing, cleanup, old>>
        /\ requestQueues = lastGen /\ lastGen \in Gens /\ requestQueues # NoGen
    BY <1>6 DEF PrepareWorkers, PrepareReturn, Control, PrepareNewest, NoGen, Gens
  <2>2. \A o \in Ops : opc'[o] = IF o = mutex THEN "over" ELSE opc[o]
    BY <1>6 DEF PrepareWorkers, PrepareReturn
  <2>3. /\ \A u \in Updates : ~Replacing(u)'
        /\ \A d \in Removals : opc'[d] \notin {"wait", "drain", "retired"}
        /\ \A s \in Shutdowns :
             opc[s] \notin {"start", "signal"} => opc'[s] \notin {"start", "signal"}
    BY <1>1, <2>2 DEF Replacing, Ops
  <2>4. cleanup[lastGen] = "none" /\ NoWorkers(lastGen) /\ waitGroups = lastGen
    BY <2>1 DEF Generations, Untouched, Registered
  <2>5. /\ \A h \in Gens : h # lastGen => /\ Stopped(h)' <=> Stopped(h)
                                          /\ NoWorkers(h)' <=> NoWorkers(h)
        /\ \A w \in Workers : worker'[w] \in {"draining", "exited"} =>
             worker[w] \in {"draining", "exited"}
        /\ \A s \in Slots : worker'[<<lastGen, s>>] = "idle"
    BY <2>1, <2>4, StartFacts
  <2>6. Untouched'
    BY <2>1, <2>5 DEF Generations, Untouched, Gens
  <2>7. Registered'
    BY <2>1, <2>4 DEF Generations, Registered
  <2>8. ClosedBySomebody'
    BY <1>1, <2>1, <2>3, <2>5 DEF Generations, ClosedBySomebody
  <2>9. Awaited'
    BY <1>1, <2>1, <2>3, <2>4, <2>5 DEF Generations, Awaited
  <2> QED
    BY <2>6, <2>7, <2>8, <2>9 DEF Generations
<1> QED
  BY <1>2, <1>3, <1>4, <1>5, <1>6 DEF Prepare
(* A caller moves no generation; one that finds no queue may create it. *)
LEMMA CallerKeepsGenerations ==
  ASSUME TypeOK, Control, Generations, NEW r \in Requests, Caller(r) \/ ContextEnds(r)
  PROVE  Generations'
<1>1. CASE LookupLocked(r)
  <2>1. UNCHANGED <<requestQueues, waitGroups, providers, lastGen, closing, cleanup,
                    worker, opc, old>>
    BY <1>1 DEF LookupLocked, workers, ops
  <2>2. \/ UNCHANGED prep
        \/ prep = "none" /\ prep' = "queue" /\ requestQueues = NoGen
    BY <1>1, FreeMutex DEF LookupLocked, BeginPrepare
  <2> QED
    BY <2>1, <2>2, GenerationsFrame DEF Replacing
<1>2. CASE ~LookupLocked(r)
  <2>1. UNCHANGED <<requestQueues, waitGroups, providers, lastGen, prep, closing, cleanup,
                    worker, opc, old>>
    BY <1>2 DEF Caller, Lookup, ShortCircuit, Enter, Send, SendRefused, Receive, Abandon,
       ContextEnds, registry, workers, ops
  <2> QED
    BY <2>1, GenerationsFrame DEF Replacing
<1> QED
  BY <1>1, <1>2

(* A worker serves, then sees its queue closed, then exits. *)
LEMMA WorkerKeepsGenerations ==
  ASSUME TypeOK, Control, Generations, NEW w \in Workers, Worker(w)
  PROVE  Generations'
<1>1. CASE Take(w)
  BY <1>1, WorkerSteps DEF Take
<1>2. CASE Deliver(w)
  BY <1>2, WorkerSteps DEF Deliver
<1>3. CASE BillAbandonedTerminal(w)
  BY <1>3, WorkerSteps DEF BillAbandonedTerminal
<1>4. CASE SeeDone(w)
  BY <1>4, WorkerSteps DEF SeeDone
<1>5. CASE WorkerDrain(w)
  <2>1. UNCHANGED <<requestQueues, waitGroups, providers, lastGen, prep, closing, cleanup,
                    worker, opc, old>>
    BY <1>5 DEF WorkerDrain, registry, workers, ops
  <2> QED
    BY <2>1, GenerationsFrame DEF Replacing
<1>6. CASE Exit(w)
  <2>1. closing[w[1]]
    BY <1>6 DEF Exit, Generations, ClosedBySomebody
  <2> QED
    BY <1>6, <2>1, WorkerSteps DEF Exit
<1> QED
  BY <1>1, <1>2, <1>3, <1>4, <1>5, <1>6 DEF Worker

(* A cleanup that goes on: it has waited for its workers. *)
LEMMA CleanupKeepsGenerations ==
  ASSUME TypeOK, Control, Generations, NEW g \in Gens, Cleanup(g)
  PROVE  Generations'
<1>1. CASE CleanupDrain(g)
  <2>1. UNCHANGED <<requestQueues, waitGroups, providers, lastGen, prep, closing, cleanup,
                    worker, opc, old>>
    BY <1>1 DEF CleanupDrain, registry, workers, ops
  <2> QED
    BY <2>1, GenerationsFrame DEF Replacing
<1>2. CASE CleanupWait(g) \/ CleanupEnd(g)
  <2>1. /\ UNCHANGED <<requestQueues, waitGroups, providers, lastGen, prep, closing, worker,
                       opc, old>>
        /\ cleanup[g] # "none" /\ cleanup'[g] # "none" /\ Stopped(g)
        /\ \A h \in Gens : h # g => cleanup'[h] = cleanup[h]
    BY <1>2 DEF CleanupWait, CleanupEnd, registry, ops, TypeOK, Generations, Awaited
  <2>2. \A h : (Stopped(h)' <=> Stopped(h)) /\ (NoWorkers(h)' <=> NoWorkers(h))
    BY <2>1 DEF Stopped, NoWorkers
  <2>3. lastGen \in Gens \/ prep \notin {"waitgroup", "create", "workers"}
    BY DEF Control, PrepareNewest, TypeOK, Gens
  <2>4. Untouched'
    BY <2>1, <2>2, <2>3 DEF Generations, Untouched
  <2>5. Registered' /\ ClosedBySomebody'
    BY <2>1, <2>2 DEF Generations, Registered, ClosedBySomebody
  <2>6. Awaited'
    BY <2>1, <2>2 DEF Generations, Awaited, Replacing
  <2> QED
    BY <2>4, <2>5, <2>6 DEF Generations
<1> QED
  BY <1>1, <1>2 DEF Cleanup

(* An update that publishes its queue: the workers are there with it. *)
LEMMA PublishKeepsGenerations ==
  ASSUME TypeOK, Control, Generations, NEW u \in Updates, UpdatePublish(u)
  PROVE  Generations'
<1> DEFINE new == lastGen + 1
<1>1. /\ prep = "none"
      /\ \A d \in Removals : opc[d] \notin {"wait", "drain", "retired"}
  BY FreeMutex DEF UpdatePublish
<1>2. /\ new \in Gens /\ lastGen \in Nat /\ requestQueues \in Gens /\ requestQueues < new
      /\ ~closing[new] /\ cleanup[new] = "none" /\ NoWorkers(new)
      /\ waitGroups = requestQueues
  BY <1>1, MaxGenAssumption DEF UpdatePublish, Generations, Untouched, Registered, TypeOK, Gens, NoGen
<1>3. /\ lastGen' = new /\ requestQueues' = new /\ waitGroups' = new /\ providers' /\ prep' = prep
      /\ UNCHANGED <<closing, cleanup>> /\ StartWorkers(new)
      /\ opc' = [opc EXCEPT ![u] = "transfer"] /\ old' = [old EXCEPT ![u] = requestQueues]
  BY DEF UpdatePublish
<1>4. /\ u \in Ops
      /\ \A o \in Ops : opc'[o] = IF o = u THEN "transfer" ELSE opc[o]
      /\ \A o \in Ops : old'[o] = IF o = u THEN requestQueues ELSE old[o]
  BY <1>3 DEF TypeOK, Ops
<1> HIDE DEF new
<1>5. /\ \A h \in Gens : h # new => /\ Stopped(h)' <=> Stopped(h)
                                    /\ NoWorkers(h)' <=> NoWorkers(h)
      /\ \A w \in Workers : worker'[w] \in {"draining", "exited"} =>
           worker[w] \in {"draining", "exited"}
      /\ \A s \in Slots : worker'[<<new, s>>] = "idle"
  BY <1>2, <1>3, StartFacts
<1>6. /\ \A d \in Removals : opc'[d] \notin {"wait", "drain", "retired"}
      /\ \A v \in Updates : Replacing(v)' <=> v = u
  <2>1. \A v \in Updates : ~Replacing(v)
    BY NullAssumption DEF UpdatePublish, Control, UpdateLocked, Replacing, Ops
  <2>2. \A d \in Removals : d # u /\ d \in Ops
    BY ActorAssumption DEF Ops
  <2>3. \A v \in Updates : v \in Ops
    BY DEF Ops
  <2> QED
    BY <1>1, <1>4, <2>1, <2>2, <2>3 DEF Replacing
<1>7. Untouched'
  <2>1. \A g \in Gens : g > new => g > lastGen /\ g # new
    BY <1>2 DEF new, Gens
  <2> QED
    BY <1>1, <1>3, <1>5, <2>1 DEF Generations, Untouched
<1>8. Registered'
  BY <1>1, <1>2, <1>3 DEF Registered, Gens, NoGen
<1>9. ClosedBySomebody'
  BY <1>2, <1>3, <1>5 DEF Generations, ClosedBySomebody
<1>10. Awaited'
  <2>1. \A g \in Gens : ~Stopped(g)' => \/ g = new \/ cleanup[g] # "none" \/ g = old'[u]
    <3>1. \A g \in Gens : ~Stopped(g) => g = requestQueues \/ cleanup[g] # "none"
      BY <1>2, NullAssumption DEF UpdatePublish, Generations, Awaited, Replacing, Control,
         UpdateLocked, Ops
    <3> QED
      BY <1>4, <1>5, <3>1
  <2>2. \A g \in Gens : cleanup[g] \in {"drain", "done"} => Stopped(g)'
    BY <1>2, <1>5 DEF Generations, Awaited
  <2>3. \A v \in Updates : Replacing(v)' => old'[v] < new
    BY <1>2, <1>4, <1>6
  <2> QED
    BY <1>3, <1>6, <2>1, <2>2, <2>3 DEF Awaited
<1> QED
  BY <1>7, <1>8, <1>9, <1>10 DEF Generations
(* An update registers the cleanup of the queue it replaced before it lets *)
(* the mutex go.                                                           *)
LEMMA FinishKeepsGenerations ==
  ASSUME TypeOK, Control, Generations, NEW u \in Updates, UpdateFinish(u)
  PROVE  Generations'
<1> DEFINE g == old[u]
<1>1. /\ u \in Ops /\ opc[u] = "signal" /\ mutex = u /\ g \in Gens
      /\ g < requestQueues /\ requestQueues <= lastGen
  BY DEF UpdateFinish, Control, UpdateLocked, Generations, Awaited, Registered, Replacing, Ops
<1>2. /\ prep = "none"
      /\ \A d \in Removals : opc[d] \notin {"wait", "drain", "retired"}
      /\ \A v \in Updates : v # u => ~Replacing(v)
  <2>1. \A d \in Removals : d # u
    BY ActorAssumption
  <2> QED
    BY <1>1, <2>1, HeldMutex
<1>3. /\ UNCHANGED <<requestQueues, waitGroups, providers, lastGen, prep, worker, old>>
      /\ \A h \in Gens : closing'[h] = (h = g \/ closing[h])
      /\ \A h \in Gens : cleanup'[h] = IF h = g THEN "wait" ELSE cleanup[h]
      /\ \A o \in Ops : opc'[o] = IF o = u THEN "over" ELSE opc[o]
  BY <1>1 DEF UpdateFinish, signalClosing, TypeOK
<1> HIDE DEF g
<1>4. \A h : (Stopped(h)' <=> Stopped(h)) /\ (NoWorkers(h)' <=> NoWorkers(h))
  BY <1>3 DEF Stopped, NoWorkers
<1>5. /\ \A v \in Updates : ~Replacing(v)'
      /\ \A d \in Removals : opc'[d] \notin {"wait", "drain", "retired"}
      /\ \A s \in Shutdowns : opc'[s] = opc[s]
  BY <1>2, <1>3, ActorAssumption DEF Replacing, Ops
<1>6. Untouched'
  <2>1. \A h \in Gens : h > lastGen => h # g
    BY <1>1 DEF TypeOK, Gens, NoGen
  <2> QED
    BY <1>2, <1>3, <1>4, <2>1 DEF Generations, Untouched
<1>7. Registered'
  BY <1>3, <1>4 DEF Generations, Registered
<1>8. ClosedBySomebody'
  <2>1. \A w \in Workers : w[1] \in Gens
    BY WorkersOf
  <2>2. requestQueues # g /\ requestQueues \in Gens \cup {NoGen}
    BY <1>1 DEF TypeOK, Gens, NoGen
  <2>3. \A w \in Workers : worker'[w] \in {"draining", "exited"} => closing'[w[1]]
    BY <1>3, <2>1 DEF Generations, ClosedBySomebody
  <2> QED
    BY <1>2, <1>3, <1>5, <2>2, <2>3 DEF Generations, ClosedBySomebody
<1>9. Awaited'
  <2>1. \A h \in Gens : ~Stopped(h) => h = waitGroups \/ cleanup[h] # "none" \/ h = g
    BY <1>2 DEF Generations, Awaited, g
  <2> QED
    BY <1>3, <1>4, <1>5, <2>1 DEF Generations, Awaited
<1> QED
  BY <1>6, <1>7, <1>8, <1>9 DEF Generations

(* The other steps of an update move messages only. *)
LEMMA UpdateKeepsGenerations ==
  ASSUME TypeOK, Control, Generations, NEW u \in Updates, Update(u)
  PROVE  Generations'
<1>1. CASE UpdatePublish(u)
  BY <1>1, PublishKeepsGenerations
<1>2. CASE UpdateFinish(u)
  BY <1>2, FinishKeepsGenerations
<1>3. CASE ~UpdatePublish(u) /\ ~UpdateFinish(u)
  <2>1. /\ UNCHANGED <<requestQueues, waitGroups, providers, lastGen, closing, cleanup,
                       worker, old>>
        /\ \/ UNCHANGED prep
           \/ prep = "none" /\ prep' = "queue" /\ requestQueues = NoGen
    BY <1>3, FreeMutex DEF Update, UpdateBegin, UpdateAbsent, UpdateFail, TransferTake,
       TransferPut, TransferCancel, CancelRest, TransferEnd, BeginPrepare, registry, workers, ops
  <2>2. /\ \A o \in Ops : o # u => opc'[o] = opc[o]
        /\ opc'[u] \in {"transfer", "cancel", "signal"} <=>
             opc[u] \in {"transfer", "cancel", "signal"}
    <3>1. \/ UNCHANGED opc
          \/ \E x \in {"over", "lock", "prepare"} :
               opc[u] \in {"start", "lock"} /\ opc' = [opc EXCEPT ![u] = x]
          \/ \E x \in {"cancel", "signal"} :
               opc[u] \in {"transfer", "cancel"} /\ opc' = [opc EXCEPT ![u] = x]
      BY <1>3 DEF Update, UpdateBegin, UpdateAbsent, UpdateFail, TransferTake,
         TransferPut, TransferCancel, CancelRest, TransferEnd, ops
    <3>2. u \in Ops /\ DOMAIN opc = Ops
      BY DEF TypeOK, Ops
    <3> QED
      BY <3>1, <3>2
  <2>3. /\ \A v \in Updates : Replacing(v)' <=> Replacing(v)
        /\ \A o \in Removals \cup Shutdowns : opc'[o] = opc[o]
    BY <2>2, ActorAssumption DEF Replacing, Ops
  <2> QED
    BY <2>1, <2>3, GenerationsFrame
<1> QED
  BY <1>1, <1>2, <1>3

(* A removal closes the published queue, and empties the maps when all its *)
(* workers are gone.                                                       *)
LEMMA RemovalKeepsGenerations ==
  ASSUME TypeOK, Control, Generations, NEW d \in Removals, Removal(d)
  PROVE  Generations'
<1>1. d \in Ops /\ \A o \in Updates \cup Shutdowns : o # d /\ o \in Ops
  BY ActorAssumption DEF Ops
<1>2. \A e \in Removals : e \in Ops
  BY DEF Ops
<1>3. CASE RemoveBegin(d) /\ requestQueues = NoGen
  <2>1. /\ UNCHANGED <<requestQueues, waitGroups, providers, lastGen, prep, closing, cleanup,
                       worker, old>>
        /\ \A o \in Ops : opc'[o] = IF o = d THEN "over" ELSE opc[o]
        /\ opc[d] = "start"
    BY <1>3 DEF RemoveBegin, workers, TypeOK
  <2> QED
    BY <1>1, <1>2, <2>1, GenerationsFrame DEF Replacing
<1>4. CASE RemoveBegin(d) /\ requestQueues # NoGen
  <2>1. /\ UNCHANGED <<requestQueues, waitGroups, providers, lastGen, prep, cleanup, worker>>
        /\ \A o \in Ops : opc'[o] = IF o = d THEN "wait" ELSE opc[o]
        /\ \A o \in Ops : o # d => old'[o] = old[o]
        /\ \A g \in Gens : closing'[g] = (g = requestQueues \/ closing[g])
        /\ requestQueues \in Gens
    <3>1. opc' = [opc EXCEPT ![d] = "wait"] /\ old' = [old EXCEPT ![d] = requestQueues]
      BY <1>4 DEF RemoveBegin
    <3>2. closing' = [closing EXCEPT ![requestQueues] = TRUE] /\ requestQueues \in Gens
      BY <1>4 DEF RemoveBegin, signalClosing, TypeOK
    <3>3. UNCHANGED <<requestQueues, waitGroups, providers, lastGen, prep, cleanup, worker>>
      BY <1>4 DEF RemoveBegin, workers
    <3> QED
      BY <1>1, <3>1, <3>2, <3>3 DEF TypeOK
  <2>2. \A h : (Stopped(h)' <=> Stopped(h)) /\ (NoWorkers(h)' <=> NoWorkers(h))
    BY <2>1 DEF Stopped, NoWorkers
  <2>3. /\ opc'[d] = "wait"
        /\ \A e \in Removals : opc'[e] \in {"drain", "retired"} => opc[e] \in {"drain", "retired"}
        /\ \A u \in Updates : (Replacing(u)' <=> Replacing(u)) /\ old'[u] = old[u]
    BY <1>1, <1>2, <2>1 DEF Replacing
  <2>4. Untouched'
    <3>1. \A h \in Gens : h > lastGen => h # requestQueues
      BY DEF Generations, Registered, TypeOK, Gens, NoGen
    <3> QED
      BY <2>1, <2>2, <3>1 DEF Generations, Untouched
  <2>5. Registered'
    BY <2>1, <2>2 DEF Generations, Registered
  <2>6. ClosedBySomebody'
    BY <2>1, <2>3, WorkersOf DEF Generations, ClosedBySomebody
  <2>7. Awaited'
    BY <2>1, <2>2, <2>3 DEF Generations, Awaited
  <2> QED
    BY <2>4, <2>5, <2>6, <2>7 DEF Generations
<1>5. CASE RemoveWait(d)
  <2>1. /\ UNCHANGED <<requestQueues, waitGroups, providers, lastGen, prep, closing, cleanup,
                       worker, old>>
        /\ \A o \in Ops : opc'[o] = IF o = d THEN "drain" ELSE opc[o]
        /\ Stopped(waitGroups)
    BY <1>5 DEF RemoveWait, registry, workers, TypeOK
  <2>2. \A h : (Stopped(h)' <=> Stopped(h)) /\ (NoWorkers(h)' <=> NoWorkers(h))
    BY <2>1 DEF Stopped, NoWorkers
  <2>3. /\ opc'[d] = "drain"
        /\ \A e \in Removals : e # d => opc'[e] = opc[e]
        /\ \A u \in Updates : (Replacing(u)' <=> Replacing(u))
        /\ \A s \in Shutdowns : opc'[s] = opc[s]
    BY <1>1, <1>2, <2>1 DEF Replacing
  <2>4. Untouched'
    BY <2>1, <2>2 DEF Generations, Untouched
  <2>5. Registered'
    BY <2>1, <2>2 DEF Generations, Registered
  <2>6. ClosedBySomebody'
    BY <2>1, <2>3 DEF Generations, ClosedBySomebody
  <2>7. Awaited'
    BY <2>1, <2>2, <2>3 DEF Generations, Awaited
  <2> QED
    BY <2>4, <2>5, <2>6, <2>7 DEF Generations
<1>6. CASE RemoveDrain(d)
  <2>1. UNCHANGED <<requestQueues, waitGroups, providers, lastGen, prep, closing, cleanup,
                    worker, opc, old>>
    BY <1>6 DEF RemoveDrain, registry, workers, ops
  <2> QED
    BY <2>1, GenerationsFrame DEF Replacing
<1>7. CASE RemoveDrained(d)
  <2>1. /\ UNCHANGED <<requestQueues, waitGroups, providers, lastGen, prep, closing, cleanup,
                       worker, old>>
        /\ \A o \in Ops : opc'[o] = IF o = d THEN "retired" ELSE opc[o]
        /\ opc[d] = "drain"
    BY <1>7 DEF RemoveDrained, registry, workers, TypeOK
  <2> QED
    BY <1>1, <1>2, <2>1, GenerationsFrame DEF Replacing
<1>8. CASE RemoveFinish(d)
  <2>1. /\ UNCHANGED <<lastGen, prep, closing, cleanup, worker, old>>
        /\ requestQueues' = NoGen /\ waitGroups' = NoGen /\ ~providers'
        /\ opc[d] = "retired" /\ NoCleanupPending
        /\ \A o \in Ops : opc'[o] = IF o = d THEN "over" ELSE opc[o]
    BY <1>8 DEF RemoveFinish, workers, TypeOK
  <2>2. mutex = d
    BY <2>1 DEF Control, RemovalLocked
  <2>3. /\ prep = "none"
        /\ \A e \in Removals : e # d => opc[e] \notin {"wait", "drain", "retired"}
        /\ \A u \in Updates : ~Replacing(u)
    BY <1>1, <2>1, <2>2, HeldMutex
  <2>4. \A g \in Gens : Stopped(g)
    BY <2>1, <2>3 DEF Generations, Awaited, NoCleanupPending, TypeOK
  <2>5. \A h : (Stopped(h)' <=> Stopped(h)) /\ (NoWorkers(h)' <=> NoWorkers(h))
    BY <2>1 DEF Stopped, NoWorkers
  <2>6. /\ \A e \in Removals : opc'[e] \notin {"wait", "drain", "retired"}
        /\ \A u \in Updates : ~Replacing(u)'
    BY <1>1, <1>2, <2>1, <2>3 DEF Replacing
  <2>7. Stopped(NoGen)
    BY DEF Stopped, Gens, NoGen
  <2>8. Untouched'
    BY <2>1, <2>5 DEF Generations, Untouched
  <2>9. Registered'
    BY <2>1, <2>3, <2>5, <2>7 DEF Generations, Registered, TypeOK, NoGen
  <2>10. ClosedBySomebody'
    BY <2>1 DEF Generations, ClosedBySomebody
  <2>11. Awaited'
    BY <2>1, <2>4, <2>5, <2>6 DEF Awaited
  <2> QED
    BY <2>8, <2>9, <2>10, <2>11 DEF Generations
<1> QED
  BY <1>3, <1>4, <1>5, <1>6, <1>7, <1>8 DEF Removal
(* getProviderByKey creates what is not in the slice. *)
LEMMA GetterKeepsGenerations ==
  ASSUME TypeOK, Control, Generations, NEW k \in Getters, Getter(k)
  PROVE  Generations'
<1>1. /\ UNCHANGED <<requestQueues, waitGroups, providers, lastGen, closing, cleanup, worker, old>>
      /\ \/ UNCHANGED prep
         \/ prep = "none" /\ prep' = "queue" /\ ~providers
  BY FreeMutex DEF Getter, GetterLook, GetterLocked, BeginPrepare, registry, workers, ops
<1>2. \A o \in Ops : o # k => opc'[o] = opc[o]
  <2>1. \E x \in {"over", "lock", "prepare"} : opc' = [opc EXCEPT ![k] = x]
    BY DEF Getter, GetterLook, GetterLocked
  <2> QED
    BY <2>1 DEF TypeOK
<1>3. \A o \in Updates \cup Removals \cup Shutdowns : o # k /\ o \in Ops
  BY ActorAssumption DEF Ops
<1> QED
  BY <1>1, <1>2, <1>3, GenerationsFrame DEF Replacing

(* Shutdown closes the published queue and otherwise waits. *)
LEMMA ShutdownKeepsGenerations ==
  ASSUME TypeOK, Control, Generations, NEW s \in Shutdowns, Shutdown(s)
  PROVE  Generations'
<1>1. /\ UNCHANGED <<requestQueues, waitGroups, providers, lastGen, prep, cleanup, worker>>
      /\ \A o \in Updates \cup Removals : opc'[o] = opc[o] /\ old'[o] = old[o]
      /\ \A t \in Shutdowns : opc[t] \notin {"start", "signal"} => opc'[t] \notin {"start", "signal"}
  <2>1. UNCHANGED <<requestQueues, waitGroups, providers, lastGen, prep, cleanup, worker>>
    BY DEF Shutdown, ShutdownBegin, ShutdownSignal, ShutdownLoad, ShutdownWait,
       ShutdownCleanups, ShutdownDrain, ShutdownEnd, registry, workers
  <2>2. \/ UNCHANGED opc
        \/ opc[s] = "start" /\ opc' = [opc EXCEPT ![s] = "signal"]
        \/ \E x \in {"load", "wait", "cleanups", "drain", "over"} : opc' = [opc EXCEPT ![s] = x]
    BY DEF Shutdown, ShutdownBegin, ShutdownSignal, ShutdownLoad, ShutdownWait,
       ShutdownCleanups, ShutdownDrain, ShutdownEnd, ops
  <2>3. UNCHANGED old \/ \E g \in {waitGroups, requestQueues} : old' = [old EXCEPT ![s] = g]
    BY DEF Shutdown, ShutdownBegin, ShutdownSignal, ShutdownLoad, ShutdownWait,
       ShutdownCleanups, ShutdownDrain, ShutdownEnd, ops
  <2>4. /\ \A o \in Updates \cup Removals : o # s /\ o \in Ops
        /\ \A t \in Shutdowns : t \in Ops
        /\ DOMAIN opc = Ops /\ DOMAIN old = Ops
    BY ActorAssumption DEF Ops, TypeOK
  <2> QED
    BY <2>1, <2>2, <2>3, <2>4
<1>2. \A h : (Stopped(h)' <=> Stopped(h)) /\ (NoWorkers(h)' <=> NoWorkers(h))
  BY <1>1 DEF Stopped, NoWorkers
<1>3. \A g \in Gens :
         /\ closing[g] => closing'[g]
         /\ closing'[g] => closing[g] \/ g = requestQueues
  BY DEF Shutdown, ShutdownBegin, ShutdownSignal, ShutdownLoad, ShutdownWait,
     ShutdownCleanups, ShutdownDrain, ShutdownEnd
<1>4. closing' # closing => opc'[s] = "load"
  <2>1. DOMAIN opc = Ops /\ s \in Ops
    BY DEF TypeOK, Ops
  <2> QED
    BY <2>1 DEF Shutdown, ShutdownBegin, ShutdownSignal, ShutdownLoad, ShutdownWait,
       ShutdownCleanups, ShutdownDrain, ShutdownEnd
<1>5. Untouched'
  <2>1. \A g \in Gens : g > lastGen => g # requestQueues
    BY DEF Generations, Registered, TypeOK, Gens, NoGen
  <2> QED
    BY <1>1, <1>2, <1>3, <2>1 DEF Generations, Untouched
<1>6. Registered'
  BY <1>1, <1>2 DEF Generations, Registered
<1>7. ClosedBySomebody'
  <2>1. \A w \in Workers : w[1] \in Gens
    BY WorkersOf
  <2>2. requestQueues # NoGen /\ closing'[requestQueues] =>
          \/ \E d \in Removals : opc'[d] \in {"wait", "drain", "retired"}
          \/ \E t \in Shutdowns : opc'[t] \notin {"start", "signal"}
    <3>1. CASE closing' = closing
      BY <1>1, <3>1 DEF Generations, ClosedBySomebody
    <3>2. CASE closing' # closing
      BY <1>4, <3>2
    <3> QED
      BY <3>1, <3>2
  <2> QED
    BY <1>1, <1>3, <2>1, <2>2 DEF Generations, ClosedBySomebody
<1>8. Awaited'
  BY <1>1, <1>2 DEF Generations, Awaited, Replacing
<1> QED
  BY <1>5, <1>6, <1>7, <1>8 DEF Generations

(* Init prepares the provider with its workers, or nothing. *)
LEMMA InitGenerations == Init => Generations
<1>1. SUFFICES ASSUME Init PROVE Generations
  OBVIOUS
<1>2. PICK i \in InitGens :
        /\ requestQueues = i /\ waitGroups = i /\ lastGen = i /\ providers = (i = 1)
        /\ worker = [w \in Workers |-> IF w[1] = i THEN "idle" ELSE "none"]
  BY <1>1 DEF Init
<1>3. /\ i \in {NoGen, 1} /\ 1 \in Gens /\ prep = "none"
      /\ providers <=> i = 1
      /\ \A g \in Gens : closing[g] = FALSE /\ cleanup[g] = "none"
      /\ \A o \in Ops : opc[o] = "start"
  <2>1. i \in {NoGen, 1} /\ 1 \in Gens
    BY InitGensAssumption, MaxGenAssumption DEF Gens
  <2>2. providers <=> i = 1
    BY <1>2
  <2>3. prep = "none" /\ \A g \in Gens : closing[g] = FALSE /\ cleanup[g] = "none"
    BY <1>1 DEF Init
  <2>4. \A o \in Ops : opc[o] = "start"
    BY <1>1 DEF Init
  <2> QED
    BY <2>1, <2>2, <2>3, <2>4
<1>4. \A g \in Gens, s \in Slots : worker[<<g, s>>] = IF g = i THEN "idle" ELSE "none"
  <2>1. \A g \in Gens, s \in Slots : <<g, s>> \in Workers /\ <<g, s>>[1] = g
    BY WorkersOf
  <2> QED
    BY <1>2, <2>1
<1>5. \A g \in Gens : g # i => NoWorkers(g) /\ Stopped(g)
  BY <1>4 DEF NoWorkers, Stopped
<1>6. Stopped(NoGen)
  BY DEF Stopped, Gens, NoGen
<1>7. Untouched
  BY <1>2, <1>3, <1>5 DEF Untouched, Gens, NoGen
<1>8. Registered
  BY <1>2, <1>3, <1>6 DEF Registered, NoGen
<1>9. ClosedBySomebody
  <2>1. \A w \in Workers : worker[w] \in {"idle", "none"}
    BY <1>2
  <2>2. providers => requestQueues \in Gens
    BY <1>2, <1>3
  <2> QED
    BY <1>2, <1>3, <1>4, <2>1, <2>2 DEF ClosedBySomebody, TypeOK, Gens, NoGen
<1>10. Awaited
  BY <1>2, <1>3, <1>5 DEF Awaited, Replacing, Ops
<1> QED
  BY <1>7, <1>8, <1>9, <1>10 DEF Generations

(* Every step keeps the generations in step. *)
LEMMA StepGenerations ==
  ASSUME IInv, Generations, [Next]_vars PROVE Generations'
<1>1. TypeOK /\ Control
  BY DEF IInv
<1>2. CASE Prepare
  BY <1>1, <1>2, PrepareKeepsGenerations
<1>3. CASE \E r \in Requests : Caller(r) \/ ContextEnds(r)
  BY <1>1, <1>3, CallerKeepsGenerations
<1>4. CASE \E w \in Workers : Worker(w)
  BY <1>1, <1>4, WorkerKeepsGenerations
<1>5. CASE \E g \in Gens : Cleanup(g)
  BY <1>1, <1>5, CleanupKeepsGenerations
<1>6. CASE \E u \in Updates : Update(u)
  BY <1>1, <1>6, UpdateKeepsGenerations
<1>7. CASE \E d \in Removals : Removal(d)
  BY <1>1, <1>7, RemovalKeepsGenerations
<1>8. CASE \E k \in Getters : Getter(k)
  BY <1>1, <1>8, GetterKeepsGenerations
<1>9. CASE \E s \in Shutdowns : Shutdown(s)
  BY <1>1, <1>9, ShutdownKeepsGenerations
<1>10. CASE UNCHANGED vars
  BY <1>10, GenerationsFrame DEF vars, registry, workers, ops, Replacing
<1> QED
  BY <1>2, <1>3, <1>4, <1>5, <1>6, <1>7, <1>8, <1>9, <1>10 DEF Next
(* The generations stay in step with the maps, the cleanups and the        *)
(* lifecycle calls that wait for them, for every number of calls.          *)
THEOREM GenerationsKept == Spec => [](IInv /\ Generations)
<1>1. Init => IInv /\ Generations
  BY InitEstablishes, InitGenerations
<1>2. IInv /\ Generations /\ [Next]_vars => (IInv /\ Generations)'
  BY StepKeeps, StepGenerations
<1> QED
  BY <1>1, <1>2, PTL DEF Spec

(* Between the calls of a provider that is in the slice, its queue is in   *)
(* the map, open, and every one of its workers serves it; a queue that     *)
(* prepareProvider left in the map when it failed is no exception, its     *)
(* provider is not in the slice (prepareProvider, UpdateProvider step 4).  *)
ServedWhileInSlice ==
    /\ mutex = Free
    /\ providers
    /\ \A s \in Shutdowns : opc[s] = "start"
    => /\ requestQueues \in Gens
       /\ ~closing[requestQueues]
       /\ \A s \in Slots : worker[<<requestQueues, s>>] \in {"idle", "busy"}

(* prepareProvider, UpdateProvider and RemoveProvider leave no provider in *)
(* the slice without an open queue and its workers.                        *)
THEOREM EveryProviderServed == Spec => []ServedWhileInSlice
<1>1. IInv /\ Generations => ServedWhileInSlice
  <2>1. SUFFICES ASSUME IInv, Generations, mutex = Free, providers,
                        \A s \in Shutdowns : opc[s] = "start"
                 PROVE  /\ requestQueues \in Gens
                        /\ ~closing[requestQueues]
                        /\ \A s \in Slots : worker[<<requestQueues, s>>] \in {"idle", "busy"}
    BY DEF ServedWhileInSlice
  <2>2. prep = "none" /\ \A d \in Removals : opc[d] \notin {"wait", "drain", "retired"}
    BY <2>1, FreeMutex DEF IInv
  <2>3. requestQueues \in Gens
    BY <2>1 DEF IInv, TypeOK, Generations, Registered
  <2>4. ~closing[requestQueues]
    BY <2>1, <2>2, <2>3 DEF Generations, ClosedBySomebody, Gens, NoGen
  <2>5. ASSUME NEW s \in Slots PROVE worker[<<requestQueues, s>>] \in {"idle", "busy"}
    <3> DEFINE w == <<requestQueues, s>>
    <3>1. w \in Workers /\ w[1] = requestQueues
      BY <2>3, WorkersOf
    <3>2. worker[w] # "none"
      BY <2>1, <2>2 DEF Generations, ClosedBySomebody
    <3> HIDE DEF w
    <3>3. worker[w] \notin {"draining", "exited"}
      BY <2>1, <2>4, <3>1 DEF Generations, ClosedBySomebody
    <3>4. worker[w] \in {"none", "idle", "busy", "draining", "exited"}
      BY <2>1, <3>1 DEF IInv, TypeOK
    <3>5. worker[w] \in {"idle", "busy"}
      BY <3>2, <3>3, <3>4
    <3> QED
      BY <3>5 DEF w
  <2> QED
    BY <2>3, <2>4, <2>5
<1> QED
  BY <1>1, GenerationsKept, PTL

(* If providers can always be created and have a worker, no update or      *)
(* removal leaves the published queue closed or unserved while the mutex   *)
(* is free (UpdateProvider, step 4).                                       *)
THEOREM PublishedIsServed ==
  ASSUME ~CreateMayFail, Slots # {}
  PROVE  Spec => []ServedWhilePublished
<1>1. IInv /\ Generations /\ ServedWhileInSlice => ServedWhilePublished
  <2>1. SUFFICES ASSUME IInv, Generations, ServedWhileInSlice, mutex = Free, requestQueues # NoGen,
                        \A s \in Shutdowns : opc[s] = "start"
                 PROVE  ~closing[requestQueues] /\ Live(requestQueues)
    BY DEF ServedWhilePublished
  <2>2. prep = "none"
    BY <2>1, FreeMutex DEF IInv
  <2>3. providers
    BY <2>1, <2>2 DEF Generations, Registered
  <2> QED
    BY <2>1, <2>3 DEF ServedWhileInSlice, Live
<1> QED
  BY <1>1, GenerationsKept, EveryProviderServed, PTL

(* RemoveProvider deletes a provider when no worker of any of its          *)
(* generations is running any more (RemoveProvider, steps 3 and 3c).       *)
THEOREM RemovalWaitsForWorkers == Spec => RemoveQuiesces
<1>1. ASSUME IInv, Generations, [Next]_vars,
             NEW d \in Removals, opc[d] = "retired", opc'[d] = "over"
      PROVE  \A g \in Gens : Stopped(g)
  <2>1. d \in Ops /\ mutex = d
    BY <1>1 DEF IInv, Control, RemovalLocked, Ops
  <2>2. /\ prep = "none"
        /\ \A e \in Removals : e # d => opc[e] \notin {"wait", "drain", "retired"}
        /\ \A u \in Updates : ~Replacing(u)
    <3>1. \A u \in Updates : u # d
      BY ActorAssumption
    <3> QED
      BY <1>1, <2>1, <3>1, HeldMutex DEF IInv
  <2>3. NoCleanupPending
    <3>1. opc' # opc /\ DOMAIN opc = Ops
      BY <1>1, <2>1 DEF IInv, TypeOK
    <3>2. CASE Removal(d)
      BY <1>1, <2>1, <3>1, <3>2 DEF Removal, RemoveBegin, RemoveWait, RemoveDrain, RemoveDrained,
         RemoveFinish, ops
    <3>3. ASSUME NEW o \in Ops, o # d, \/ UNCHANGED opc
                                      \/ \E x : opc' = [opc EXCEPT ![o] = x]
          PROVE  FALSE
      BY <1>1, <2>1, <3>1, <3>3
    <3>4. CASE Prepare
      BY <2>2, <3>4 DEF Prepare, PrepareQueue, PrepareWaitGroup, PrepareCreate, PrepareFail,
         PrepareWorkers
    <3>5. CASE \E r \in Requests : Caller(r) \/ ContextEnds(r)
      BY <3>1, <3>5 DEF Caller, Lookup, LookupLocked, ShortCircuit, Enter, Send, SendRefused,
         Receive, Abandon, ContextEnds, ops
    <3>6. CASE \E w \in Workers : Worker(w)
      BY <3>1, <3>6 DEF Worker, Take, Deliver, BillAbandonedTerminal, SeeDone, WorkerDrain, Exit, ops
    <3>7. CASE \E g \in Gens : Cleanup(g)
      BY <3>1, <3>7 DEF Cleanup, CleanupWait, CleanupDrain, CleanupEnd, ops
    <3>8. ASSUME NEW u \in Updates, Update(u) PROVE FALSE
      <4>1. u \in Ops /\ u # d
        BY ActorAssumption DEF Ops
      <4>2. UNCHANGED opc \/ \E x : opc' = [opc EXCEPT ![u] = x]
        BY <3>8 DEF Update, UpdateBegin, UpdateAbsent, UpdateFail, UpdatePublish, TransferTake,
           TransferPut, TransferCancel, CancelRest, TransferEnd, UpdateFinish, ops
      <4> QED
        BY <3>3, <4>1, <4>2
    <3>9. ASSUME NEW e \in Removals, Removal(e), e # d PROVE FALSE
      <4>1. e \in Ops
        BY DEF Ops
      <4>2. UNCHANGED opc \/ \E x : opc' = [opc EXCEPT ![e] = x]
        BY <3>9 DEF Removal, RemoveBegin, RemoveWait, RemoveDrain, RemoveDrained, RemoveFinish, ops
      <4> QED
        BY <3>3, <3>9, <4>1, <4>2
    <3>10. ASSUME NEW k \in Getters, Getter(k) PROVE FALSE
      <4>1. k \in Ops /\ k # d
        BY ActorAssumption DEF Ops
      <4>2. UNCHANGED opc \/ \E x : opc' = [opc EXCEPT ![k] = x]
        BY <3>10 DEF Getter, GetterLook, GetterLocked
      <4> QED
        BY <3>3, <4>1, <4>2
    <3>11. ASSUME NEW s \in Shutdowns, Shutdown(s) PROVE FALSE
      <4>1. s \in Ops /\ s # d
        BY ActorAssumption DEF Ops
      <4>2. UNCHANGED opc \/ \E x : opc' = [opc EXCEPT ![s] = x]
        BY <3>11 DEF Shutdown, ShutdownBegin, ShutdownSignal, ShutdownLoad, ShutdownWait,
           ShutdownCleanups, ShutdownDrain, ShutdownEnd, ops
      <4> QED
        BY <3>3, <4>1, <4>2
    <3>12. CASE UNCHANGED vars
      BY <3>1, <3>12 DEF vars, ops
    <3> QED
      BY <1>1, <3>2, <3>4, <3>5, <3>6, <3>7, <3>8, <3>9, <3>10, <3>11, <3>12 DEF Next
  <2> QED
    BY <1>1, <2>2, <2>3 DEF Generations, Awaited, NoCleanupPending, IInv, TypeOK
<1>2. IInv /\ Generations /\ [Next]_vars =>
        ((\E d \in Removals : opc[d] = "retired" /\ opc'[d] = "over")
         => \A g \in Gens : Stopped(g))
  BY <1>1
<1>3. IInv /\ Generations /\ [Next]_vars =>
        [(\E d \in Removals : opc[d] = "retired" /\ opc'[d] = "over")
         => \A g \in Gens : Stopped(g)]_vars
  BY <1>2
<1> QED
  BY <1>3, GenerationsKept, PTL DEF Spec, RemoveQuiesces
(* A worker that has exited does not come back, and a generation without   *)
(* workers gets none, unless prepareProvider or an update starts them.     *)
LEMMA WorkersStop ==
  ASSUME TypeOK, NEW w \in Workers, Worker(w), NEW g
  PROVE  Stopped(g) => Stopped(g)'
<1>1. /\ worker[w] \in {"idle", "busy", "draining"}
      /\ \A v \in Workers : v # w => worker'[v] = worker[v]
  BY DEF Worker, Take, Deliver, BillAbandonedTerminal, SeeDone, WorkerDrain, Exit, workers, TypeOK
<1>2. \A h \in Gens, s \in Slots : <<h, s>> \in Workers
  BY WorkersOf
<1> QED
  BY <1>1, <1>2 DEF Stopped

(* Where the provider was prepared by Init and nobody removes it.          *)
LEMMA StepAlone ==
  ASSUME Removals = {}, IInv, Generations, ShutdownAlone, [Next]_vars
  PROVE  ShutdownAlone'
<1>1. /\ TypeOK /\ Control /\ prep = "none" /\ providers /\ requestQueues # NoGen
  BY DEF IInv, Generations, Registered, ShutdownAlone
<1>2. /\ \A s \in Shutdowns : s \in Ops /\ s \notin Updates \cup Removals \cup Getters
      /\ \A u \in Updates : u \in Ops
      /\ \A k \in Getters : k \in Ops /\ k \notin Updates
      /\ DOMAIN opc = Ops /\ DOMAIN old = Ops
  BY <1>1, ActorAssumption DEF Ops, TypeOK
<1>3. ASSUME UNCHANGED <<waitGroups, providers, prep>>,
             \A g : Stopped(g) => Stopped(g)',
             NoCleanupPending => NoCleanupPending',
             \A o \in Updates \cup Shutdowns : opc'[o] = opc[o] /\ old'[o] = old[o]
      PROVE  ShutdownAlone'
  BY <1>3 DEF ShutdownAlone
<1>4. CASE Prepare
  BY <1>1, <1>4 DEF Prepare, PrepareQueue, PrepareWaitGroup, PrepareCreate, PrepareFail,
     PrepareWorkers
<1>5. CASE \E r \in Requests : Caller(r) \/ ContextEnds(r)
  <2>1. UNCHANGED <<waitGroups, providers, prep, worker, cleanup, opc, old>>
    BY <1>1, <1>5 DEF Caller, Lookup, LookupLocked, ShortCircuit, Enter, Send, SendRefused,
       Receive, Abandon, ContextEnds, registry, workers, ops
  <2>2. (\A g : Stopped(g)' <=> Stopped(g)) /\ (NoCleanupPending' <=> NoCleanupPending)
    BY <2>1 DEF Stopped, NoCleanupPending
  <2> QED
    BY <1>3, <2>1, <2>2
<1>6. CASE \E w \in Workers : Worker(w)
  <2>1. UNCHANGED <<waitGroups, providers, prep, cleanup, opc, old>>
    BY <1>6 DEF Worker, Take, Deliver, BillAbandonedTerminal, SeeDone, WorkerDrain, Exit,
       registry, workers, ops
  <2>2. (\A g : Stopped(g) => Stopped(g)') /\ (NoCleanupPending' <=> NoCleanupPending)
    BY <1>1, <1>6, <2>1, WorkersStop DEF NoCleanupPending
  <2> QED
    BY <1>3, <2>1, <2>2
<1>7. CASE \E g \in Gens : Cleanup(g)
  <2>1. UNCHANGED <<waitGroups, providers, prep, worker, opc, old>>
    BY <1>7 DEF Cleanup, CleanupWait, CleanupDrain, CleanupEnd, registry, workers, ops
  <2>2. \A g : Stopped(g)' <=> Stopped(g)
    BY <2>1 DEF Stopped
  <2>3. NoCleanupPending => NoCleanupPending'
    BY <1>1, <1>7 DEF Cleanup, CleanupWait, CleanupDrain, CleanupEnd, NoCleanupPending, workers,
       TypeOK
  <2> QED
    BY <1>3, <2>1, <2>2, <2>3
<1>8. ASSUME NEW u \in Updates, Update(u) PROVE ShutdownAlone'
  <2>1. /\ prep' = "none" /\ providers'
        /\ \A s \in Shutdowns : opc'[s] = opc[s] /\ old'[s] = old[s]
    <3>1. prep' = "none" /\ providers'
      BY <1>1, <1>8 DEF Update, UpdateBegin, UpdateAbsent, UpdateFail, UpdatePublish,
         TransferTake, TransferPut, TransferCancel, CancelRest, TransferEnd, UpdateFinish, registry
    <3>2. /\ UNCHANGED opc \/ \E x : opc' = [opc EXCEPT ![u] = x]
          /\ UNCHANGED old \/ \E x : old' = [old EXCEPT ![u] = x]
      BY <1>8 DEF Update, UpdateBegin, UpdateAbsent, UpdateFail, UpdatePublish, TransferTake,
         TransferPut, TransferCancel, CancelRest, TransferEnd, UpdateFinish, ops
    <3> QED
      BY <1>2, <3>1, <3>2
  <2>2. CASE \A s \in Shutdowns : opc[s] = "start"
    BY <2>1, <2>2 DEF ShutdownAlone
  <2>3. CASE \E s \in Shutdowns : opc[s] # "start"
    <3>1. \A v \in Updates : opc[v] \in {"start", "over"}
      BY <2>3 DEF ShutdownAlone
    <3>2. /\ opc' = [opc EXCEPT ![u] = "over"]
          /\ UNCHANGED <<registry, workers, old>>
      BY <1>8, <2>3, <3>1 DEF Update, UpdateBegin, UpdateAbsent, UpdateFail, UpdatePublish,
         TransferTake, TransferPut, TransferCancel, CancelRest, TransferEnd, UpdateFinish
    <3>3. /\ UNCHANGED <<waitGroups, providers, prep, worker, cleanup, old>>
          /\ \A v \in Updates : opc'[v] \in {"start", "over"}
      BY <1>2, <3>1, <3>2 DEF registry, workers
    <3>4. (\A g : Stopped(g)' <=> Stopped(g)) /\ (NoCleanupPending' <=> NoCleanupPending)
      BY <3>3 DEF Stopped, NoCleanupPending
    <3> QED
      BY <2>1, <3>3, <3>4 DEF ShutdownAlone
  <2> QED
    BY <2>2, <2>3
<1>9. ASSUME NEW k \in Getters, Getter(k) PROVE ShutdownAlone'
  <2>1. /\ UNCHANGED <<waitGroups, providers, prep, worker, cleanup, old>>
        /\ opc' = [opc EXCEPT ![k] = "over"]
    BY <1>1, <1>9 DEF Getter, GetterLook, GetterLocked, registry, workers
  <2>2. (\A g : Stopped(g)' <=> Stopped(g)) /\ (NoCleanupPending' <=> NoCleanupPending)
    BY <2>1 DEF Stopped, NoCleanupPending
  <2> QED
    BY <1>2, <1>3, <2>1, <2>2
<1>10. ASSUME NEW s \in Shutdowns, Shutdown(s) PROVE ShutdownAlone'
  <2>1. /\ UNCHANGED <<waitGroups, providers, prep, worker, cleanup>>
    BY <1>10 DEF Shutdown, ShutdownBegin, ShutdownSignal, ShutdownLoad, ShutdownWait,
       ShutdownCleanups, ShutdownDrain, ShutdownEnd, registry, workers
  <2>2. (\A g : Stopped(g)' <=> Stopped(g)) /\ (NoCleanupPending' <=> NoCleanupPending)
    BY <2>1 DEF Stopped, NoCleanupPending
  <2>3. \A u \in Updates : opc'[u] = opc[u]
    <3>1. UNCHANGED opc \/ \E x : opc' = [opc EXCEPT ![s] = x]
      BY <1>10 DEF Shutdown, ShutdownBegin, ShutdownSignal, ShutdownLoad, ShutdownWait,
         ShutdownCleanups, ShutdownDrain, ShutdownEnd, ops
    <3> QED
      BY <1>2, <3>1
  <2>4. \A u \in Updates : opc[u] \in {"start", "over"}
    <3>1. CASE ShutdownBegin(s)
      BY <3>1 DEF ShutdownBegin, Running
    <3>2. CASE opc[s] # "start"
      BY <3>2 DEF ShutdownAlone
    <3> QED
      BY <1>10, <3>1, <3>2 DEF Shutdown, ShutdownSignal, ShutdownLoad, ShutdownWait,
         ShutdownCleanups, ShutdownDrain, ShutdownEnd
  <2>5. ASSUME NEW t \in Shutdowns
        PROVE  /\ opc'[t] = "wait" => old'[t] = waitGroups
               /\ opc'[t] \in {"cleanups", "drain", "over"} => Stopped(waitGroups)
               /\ opc'[t] \in {"drain", "over"} => NoCleanupPending
    <3>1. CASE t # s
      <4>1. opc'[t] = opc[t] /\ old'[t] = old[t]
        <5>1. /\ UNCHANGED opc \/ \E x : opc' = [opc EXCEPT ![s] = x]
              /\ UNCHANGED old \/ \E x : old' = [old EXCEPT ![s] = x]
          BY <1>10 DEF Shutdown, ShutdownBegin, ShutdownSignal, ShutdownLoad, ShutdownWait,
             ShutdownCleanups, ShutdownDrain, ShutdownEnd, ops
        <5> QED
          BY <1>2, <3>1, <5>1
      <4> QED
        BY <4>1 DEF ShutdownAlone
    <3>2. CASE t = s
      <4> USE <1>1, <1>2, <1>10, <3>2
      <4>1. CASE ShutdownBegin(s) \/ ShutdownSignal(s)
        BY <4>1 DEF ShutdownBegin, ShutdownSignal
      <4>2. CASE ShutdownLoad(s)
        BY <4>2 DEF ShutdownLoad
      <4>3. CASE ShutdownWait(s)
        BY <4>3 DEF ShutdownWait, ShutdownAlone
      <4>4. CASE ShutdownCleanups(s)
        BY <4>4 DEF ShutdownCleanups, ShutdownAlone
      <4>5. CASE ShutdownDrain(s) \/ ShutdownEnd(s)
        BY <4>5 DEF ShutdownDrain, ShutdownEnd, ShutdownAlone, ops
      <4> QED
        BY <4>1, <4>2, <4>3, <4>4, <4>5 DEF Shutdown
    <3> QED
      BY <3>1, <3>2
  <2> QED
    BY <1>1, <2>1, <2>2, <2>3, <2>4, <2>5 DEF ShutdownAlone
<1>11. CASE UNCHANGED vars
  <2>1. UNCHANGED <<waitGroups, providers, prep, worker, cleanup, opc, old>>
    BY <1>11 DEF vars, registry, workers, ops
  <2>2. (\A g : Stopped(g)' <=> Stopped(g)) /\ (NoCleanupPending' <=> NoCleanupPending)
    BY <2>1 DEF Stopped, NoCleanupPending
  <2> QED
    BY <1>3, <2>1, <2>2
<1> QED
  BY <1>4, <1>5, <1>6, <1>7, <1>8, <1>9, <1>10, <1>11 DEF Next

(* Where Init prepared the provider and nobody removes it, every worker of *)
(* every generation has exited when Shutdown returns, whatever updates     *)
(* came before it ("It closes all request channels and waits for workers   *)
(* to exit", Bifrost.Shutdown).                                            *)
THEOREM ShutdownWaitsForWorkers ==
  ASSUME InitGens = {1}, Removals = {}
  PROVE  Spec => []ShutdownStopsWorkers
<1>1. Init => ShutdownAlone
  BY DEF Init, ShutdownAlone, Ops
<1>2. IInv /\ Generations /\ ShutdownAlone /\ [Next]_vars => ShutdownAlone'
  BY StepAlone
<1>3. IInv /\ Generations /\ ShutdownAlone => ShutdownStopsWorkers
  <2>1. SUFFICES ASSUME IInv, Generations, ShutdownAlone,
                        NEW s \in Shutdowns, opc[s] = "over", NEW g \in Gens
                 PROVE  Stopped(g)
    BY DEF ShutdownStopsWorkers
  <2>2. /\ Stopped(waitGroups) /\ NoCleanupPending
        /\ \A u \in Updates : ~Replacing(u)
    BY <2>1 DEF ShutdownAlone, Replacing
  <2> QED
    BY <2>1, <2>2 DEF Generations, Awaited, NoCleanupPending, IInv, TypeOK
<1> QED
  BY <1>1, <1>2, <1>3, GenerationsKept, PTL DEF Spec

------------------------------------------------------------------------------
(* The refinement: every step is a step of RequestLife, or none.           *)

(* The place of a message that has left its caller's hands. *)
Place(m) ==
    IF Unstarted(m) THEN "queued"
    ELSE IF InWorker(m) THEN "running"
    ELSE IF Answered(m) THEN "delivered"
    ELSE "dropped"

(* The stage of a request in the queue is the place of its one message.    *)
LEMMA StageIs ==
  ASSUME OneMessage, NEW r \in Requests, NEW m \in Msgs \ pool, body[m] = r,
         got[r] = NoReq, pc[r] # "send"
  PROVE  StageOf(r) = Place(m) /\ MsgsOf(r) # {}
<1>1. MsgsOf(r) = {m}
  BY DEF MsgsOf, OneMessage
<1>2. /\ (\E n \in MsgsOf(r) : Unstarted(n)) <=> Unstarted(m)
      /\ (\E n \in MsgsOf(r) : InWorker(n)) <=> InWorker(m)
      /\ (\E n \in MsgsOf(r) : Answered(n)) <=> Answered(m)
  BY <1>1
<1>3. MsgsOf(r) # {}
  BY <1>1
<1> QED
  BY <1>2, <1>3 DEF StageOf, Place

(* The same after a step. *)
LEMMA StageIsNext ==
  ASSUME OneMessage', NEW r \in Requests, NEW m \in Msgs \ pool', body'[m] = r,
         got'[r] = NoReq, pc'[r] # "send"
  PROVE  StageOf(r)' = Place(m)' /\ MsgsOf(r)' # {}
<1>1. MsgsOf(r)' = {m}
  BY DEF MsgsOf, OneMessage
<1>2. /\ (\E n \in MsgsOf(r)' : Unstarted(n)') <=> Unstarted(m)'
      /\ (\E n \in MsgsOf(r)' : InWorker(n)') <=> InWorker(m)'
      /\ (\E n \in MsgsOf(r)' : Answered(n)') <=> Answered(m)'
  BY <1>1
<1>3. MsgsOf(r)' # {}
  BY <1>1
<1> QED
  BY <1>2, <1>3 DEF StageOf, Place

(* Nothing of a request has moved. *)
LEMMA SameLife ==
  ASSUME NEW r, got'[r] = got[r], MsgsOf(r)' = MsgsOf(r),
         pc'[r] = "send" <=> pc[r] = "send", pc'[r] = "over" <=> pc[r] = "over",
         \A m \in MsgsOf(r) :
            /\ Unstarted(m)' <=> Unstarted(m)
            /\ InWorker(m)' <=> InWorker(m)
            /\ Answered(m)' <=> Answered(m)
  PROVE  StageOf(r)' = StageOf(r) /\ CallerOf(r)' = CallerOf(r)
<1>1. /\ (\E m \in MsgsOf(r)' : Unstarted(m)') <=> \E m \in MsgsOf(r) : Unstarted(m)
      /\ (\E m \in MsgsOf(r)' : InWorker(m)') <=> \E m \in MsgsOf(r) : InWorker(m)
      /\ (\E m \in MsgsOf(r)' : Answered(m)') <=> \E m \in MsgsOf(r) : Answered(m)
  OBVIOUS
<1>2. StageOf(r)' = StageOf(r)
  BY <1>1 DEF StageOf
<1>3. CallerOf(r)' = CallerOf(r)
  BY DEF CallerOf
<1> QED
  BY <1>2, <1>3

(* A step that moves a message from one place to another and no caller.    *)
LEMMA MessageMoves ==
  ASSUME TypeOK, Control, Ownership, Accounting, LifeInv, OneMessage',
         UNCHANGED <<pool, body, got, pc>>,
         NEW m \in Msgs, InTransit(m),
         \A n \in Msgs : n # m =>
            /\ Unstarted(n)' <=> Unstarted(n)
            /\ InWorker(n)' <=> InWorker(n)
            /\ Answered(n)' <=> Answered(n)
  PROVE  /\ body[m] \in Requests
         /\ stageBar[body[m]] = Place(m)
         /\ stageBar' = [stageBar EXCEPT ![body[m]] = Place(m)']
         /\ Place(m)' = Place(m) => stageBar' = stageBar
         /\ callerBar' = callerBar
<1>0. m \in Msgs \ pool /\ body[m] \in Requests /\ pc[body[m]] \in {"await", "over"}
  BY InTransitSent
<1>1. PICK r \in Requests : r = body[m] /\ m \in Msgs \ pool /\ pc[r] \in {"await", "over"}
  BY <1>0
<1>2. got[r] = NoReq
  BY <1>1 DEF LifeInv, AnsweredOnce, MsgsOf
<1>3. \A q \in Requests : MsgsOf(q)' = MsgsOf(q)
  BY DEF MsgsOf
<1>4. \A q \in Requests : q # r => m \notin MsgsOf(q)
  BY <1>1 DEF MsgsOf
<1>5. \A q \in Requests : q # r => StageOf(q)' = StageOf(q)
  BY <1>3, <1>4, SameLife DEF MsgsOf
<1>6. \A q \in Requests : CallerOf(q)' = CallerOf(q)
  BY <1>3 DEF CallerOf
<1>7. StageOf(r) = Place(m)
  BY <1>1, <1>2, StageIs DEF Accounting
<1>8. StageOf(r)' = Place(m)'
  BY <1>1, <1>2, StageIsNext
<1>9. /\ stageBar' = [q \in Requests |-> StageOf(q)']
      /\ callerBar' = [q \in Requests |-> CallerOf(q)']
      /\ stageBar = [q \in Requests |-> StageOf(q)]
      /\ callerBar = [q \in Requests |-> CallerOf(q)]
  BY DEF stageBar, callerBar
<1>10. callerBar' = callerBar
  BY <1>6, <1>9
<1>11. stageBar' = [stageBar EXCEPT ![r] = Place(m)']
  BY <1>1, <1>5, <1>8, <1>9
<1>12. stageBar[r] = Place(m)
  BY <1>1, <1>7, <1>9
<1>13. Place(m)' = Place(m) => stageBar' = stageBar
  BY <1>11, <1>12, <1>9
<1> QED
  BY <1>1, <1>10, <1>11, <1>12, <1>13

(* What a receive from a queue yields. *)
LEMMA DequeuedMessage ==
  ASSUME TypeOK, Ownership, NEW g \in Gens, queue[g] # <<>>, Dequeue(g), UNCHANGED hand,
         NEW m, m = Head(queue[g])
  PROVE  /\ m \in Msgs /\ InTransit(m) /\ ~Answered(m)
         /\ Unstarted(m) /\ ~InWorker(m) /\ ~Unstarted(m)'
         /\ \A n \in Msgs : n # m => (Unstarted(n)' <=> Unstarted(n))
<1>1. /\ m \in Msgs /\ Queued(m)
      /\ \A n : Queued(n)' <=> Queued(n) /\ n # m
  BY DequeueFacts DEF Ownership
<1>2. InTransit(m) /\ Unstarted(m)
  BY <1>1 DEF InTransit, Unstarted
<1>3. ~Answered(m)
  BY <1>1, <1>2 DEF Ownership, Channels, Answered
<1>4. ~InWorker(m) /\ \A o \in Ops : hand[o] # m
  BY <1>1, NullAssumption DEF Ownership, OnePlace, InWorker
<1>5. ~Unstarted(m)' /\ \A n \in Msgs : n # m => (Unstarted(n)' <=> Unstarted(n))
  BY <1>1, <1>4 DEF Unstarted
<1> QED
  BY <1>1, <1>2, <1>3, <1>4, <1>5

(* A worker takes a request up. *)
LEMMA TakeLife ==
  ASSUME TypeOK, Control, Ownership, Accounting, LifeInv, OneMessage',
         NEW w \in Workers, Take(w)
  PROVE  \E r \in Requests : Life!Start(r)
<1>1. PICK m : m = Head(queue[w[1]])
  OBVIOUS
<1>2. /\ w[1] \in Gens /\ queue[w[1]] # <<>> /\ Dequeue(w[1])
      /\ job' = [job EXCEPT ![w] = m] /\ (job[w] = NoMsg \/ job[w] \in Msgs)
      /\ UNCHANGED <<hand, pc, got, pool, body, response, errs, ctxDone, hooks>>
  BY <1>1 DEF Take, Workers, callers, channels, ops, TypeOK
<1>3. /\ m \in Msgs /\ InTransit(m) /\ ~Answered(m)
      /\ Unstarted(m) /\ ~InWorker(m) /\ ~Unstarted(m)'
      /\ \A n \in Msgs : n # m => (Unstarted(n)' <=> Unstarted(n))
  BY <1>1, <1>2, DequeuedMessage
<1>4. job[w] = NoMsg
  BY DEF Take, LifeInv, BusyWithIt
<1>5. InWorker(m)' /\ \A n \in Msgs : n # m => (InWorker(n)' <=> InWorker(n))
  BY <1>2, <1>4, NullAssumption DEF InWorker, TypeOK
<1>6. \A n \in Msgs : Answered(n)' <=> Answered(n)
  BY <1>2 DEF Answered
<1>7. Place(m) = "queued" /\ Place(m)' = "running"
  BY <1>3, <1>5 DEF Place
<1>8. /\ body[m] \in Requests
      /\ stageBar[body[m]] = Place(m)
      /\ stageBar' = [stageBar EXCEPT ![body[m]] = Place(m)']
      /\ callerBar' = callerBar
  BY <1>2, <1>3, <1>5, <1>6, MessageMoves
<1>9. Life!Start(body[m])
  BY <1>2, <1>7, <1>8 DEF Life!Start
<1> QED
  BY <1>8, <1>9

(* What a worker that is through leaves behind. *)
LEMMA WorkerLetsGo ==
  ASSUME TypeOK, Control, Ownership, NEW w \in Workers, worker[w] = "busy",
         NEW m, m = job[w], job' = [job EXCEPT ![w] = NoMsg], UNCHANGED <<queue, hand>>
  PROVE  /\ m \in Msgs /\ InTransit(m) /\ ~Answered(m) /\ task[w] = body[m]
         /\ ~Unstarted(m) /\ InWorker(m) /\ ~Unstarted(m)' /\ ~InWorker(m)'
         /\ \A n \in Msgs : n # m =>
              (Unstarted(n)' <=> Unstarted(n)) /\ (InWorker(n)' <=> InWorker(n))
<1>1. m \in Msgs /\ m # NoMsg /\ InTransit(m) /\ InWorker(m)
  BY DEF Control, WorkerHolds, TypeOK, InTransit, InWorker
<1>2. ~Answered(m)
  BY <1>1 DEF Ownership, Channels, Answered
<1>3. \A n : Unstarted(n)' <=> Unstarted(n)
  BY DEF Unstarted, Queued
<1>4. ~Unstarted(m) /\ task[w] = body[m] /\ \A v \in Workers : job[v] = m => v = w
  BY <1>1 DEF Ownership, OnePlace, Unstarted
<1>5. ~InWorker(m)' /\ \A n \in Msgs : n # m => (InWorker(n)' <=> InWorker(n))
  BY <1>1, <1>4, NullAssumption DEF InWorker, TypeOK
<1> QED
  BY <1>1, <1>2, <1>3, <1>4, <1>5

(* The answer of a provider settles the request. *)
LEMMA DeliverLife ==
  ASSUME TypeOK, Control, Ownership, Accounting, LifeInv, OneMessage',
         NEW w \in Workers, Deliver(w)
  PROVE  \E r \in Requests : Life!Settle(r)
<1>1. PICK m : m = job[w]
  OBVIOUS
<1>2. /\ worker[w] = "busy" /\ job' = [job EXCEPT ![w] = NoMsg]
      /\ UNCHANGED <<queue, hand, pc, got, pool, body, ctxDone, hooks>>
      /\ \/ response' = [response EXCEPT ![m] = task[w]] /\ UNCHANGED errs
         \/ errs' = [errs EXCEPT ![m] = task[w]] /\ UNCHANGED response
  BY <1>1 DEF Deliver, callers, channels, counts, ops
<1>3. /\ m \in Msgs /\ InTransit(m) /\ ~Answered(m) /\ task[w] = body[m]
      /\ ~Unstarted(m) /\ InWorker(m) /\ ~Unstarted(m)' /\ ~InWorker(m)'
      /\ \A n \in Msgs : n # m =>
           (Unstarted(n)' <=> Unstarted(n)) /\ (InWorker(n)' <=> InWorker(n))
  BY <1>1, <1>2, WorkerLetsGo
<1>4. body[m] \in Requests
  BY <1>3, InTransitSent
<1>5. Answered(m)' /\ \A n \in Msgs : n # m => (Answered(n)' <=> Answered(n))
  BY <1>2, <1>3, <1>4, NullAssumption DEF Answered, TypeOK
<1>6. Place(m) = "running" /\ Place(m)' = "delivered"
  BY <1>3, <1>5 DEF Place
<1>7. /\ stageBar[body[m]] = Place(m)
      /\ stageBar' = [stageBar EXCEPT ![body[m]] = Place(m)']
      /\ callerBar' = callerBar
  BY <1>2, <1>3, <1>5, MessageMoves
<1>8. Life!Settle(body[m])
  BY <1>2, <1>6, <1>7 DEF Life!Settle
<1> QED
  BY <1>4, <1>8

(* A worker that bills for its caller drops the answer. *)
LEMMA BillLife ==
  ASSUME TypeOK, Control, Ownership, Accounting, LifeInv, OneMessage',
         NEW w \in Workers, BillAbandonedTerminal(w)
  PROVE  \E r \in Requests : Life!Drop(r)
<1>1. PICK m : m = job[w]
  OBVIOUS
<1>2. /\ worker[w] = "busy" /\ job' = [job EXCEPT ![w] = NoMsg]
      /\ UNCHANGED <<queue, hand, pc, got, pool, body, ctxDone, response, errs>>
      /\ body[m] \in ctxDone /\ RunResultHooks(task[w])
  BY <1>1 DEF BillAbandonedTerminal, callers, channels, counts, ops
<1>3. /\ m \in Msgs /\ InTransit(m) /\ ~Answered(m) /\ task[w] = body[m]
      /\ ~Unstarted(m) /\ InWorker(m) /\ ~Unstarted(m)' /\ ~InWorker(m)'
      /\ \A n \in Msgs : n # m =>
           (Unstarted(n)' <=> Unstarted(n)) /\ (InWorker(n)' <=> InWorker(n))
  BY <1>1, <1>2, WorkerLetsGo
<1>4. \A n \in Msgs : Answered(n)' <=> Answered(n)
  BY <1>2 DEF Answered
<1>5. Place(m) = "running" /\ Place(m)' = "dropped"
  BY <1>3, <1>4 DEF Place
<1>6. /\ body[m] \in Requests
      /\ stageBar[body[m]] = Place(m)
      /\ stageBar' = [stageBar EXCEPT ![body[m]] = Place(m)']
      /\ callerBar' = callerBar
  BY <1>2, <1>3, <1>4, MessageMoves
<1>7. hooks[body[m]] = 0
  BY <1>3, InTransitSent DEF Accounting, Unspent, Pending
<1>8. UNCHANGED hooks \/ hooks' = [hooks EXCEPT ![body[m]] = 1]
  BY <1>2, <1>3, <1>7 DEF RunResultHooks, RunHooks
<1>9. Life!Drop(body[m])
  BY <1>2, <1>5, <1>6, <1>8 DEF Life!Drop
<1> QED
  BY <1>6, <1>9

(* A message that fails settles its request, or drops it when nobody can   *)
(* be told.                                                                *)
LEMMA FailLife ==
  ASSUME TypeOK, Control, Ownership, Accounting, LifeInv, OneMessage',
         UNCHANGED <<job, pc, got, pool, body, response, ctxDone, hooks>>,
         NEW m \in Msgs, FailMsg(m),
         Unstarted(m), ~InWorker(m), ~Answered(m), ~Unstarted(m)',
         \A n \in Msgs : n # m => (Unstarted(n)' <=> Unstarted(n))
  PROVE  \E r \in Requests : Life!Settle(r) \/ Life!Drop(r)
<1>1. InTransit(m)
  BY DEF InTransit, Unstarted
<1>2. body[m] \in Requests
  BY <1>1, InTransitSent
<1>3. \A n : InWorker(n)' <=> InWorker(n)
  BY DEF InWorker
<1>4. \A n \in Msgs : n # m => (Answered(n)' <=> Answered(n))
  BY DEF Answered, FailMsg, TypeOK
<1>5. /\ stageBar[body[m]] = Place(m)
      /\ stageBar' = [stageBar EXCEPT ![body[m]] = Place(m)']
      /\ callerBar' = callerBar
  BY <1>1, <1>3, <1>4, MessageMoves
<1>6. Place(m) = "queued"
  BY DEF Place
<1>7. CASE errs' = [errs EXCEPT ![m] = body[m]]
  <2>1. Answered(m)'
    BY <1>2, <1>7, NullAssumption DEF Answered, TypeOK
  <2>2. Place(m)' = "delivered"
    BY <1>3, <2>1 DEF Place
  <2>3. Life!Settle(body[m])
    BY <1>5, <1>6, <2>2 DEF Life!Settle
  <2> QED
    BY <1>2, <2>3
<1>8. CASE body[m] \in ctxDone /\ errs' = errs
  <2>1. ~Answered(m)'
    BY <1>8 DEF Answered
  <2>2. Place(m)' = "dropped"
    BY <1>3, <2>1 DEF Place
  <2>3. Life!Drop(body[m])
    BY <1>5, <1>6, <1>8, <2>2 DEF Life!Drop
  <2> QED
    BY <1>2, <2>3
<1> QED
  BY <1>7, <1>8 DEF FailMsg

(* One step of any drain loop. *)
LEMMA DrainLife ==
  ASSUME TypeOK, Control, Ownership, Accounting, LifeInv, OneMessage',
         NEW g \in Gens, DrainOne(g),
         UNCHANGED <<registry, closing, workers, callers, pool, body, response, counts, ops>>
  PROVE  \E r \in Requests : Life!Settle(r) \/ Life!Drop(r)
<1>1. PICK m : m = Head(queue[g])
  OBVIOUS
<1>2. /\ UNCHANGED <<job, hand, pc, got, pool, body, response, ctxDone, hooks>>
      /\ queue[g] # <<>> /\ Dequeue(g) /\ FailMsg(m)
  BY <1>1 DEF DrainOne, workers, callers, counts, ops
<1>3. /\ m \in Msgs /\ InTransit(m) /\ ~Answered(m)
      /\ Unstarted(m) /\ ~InWorker(m) /\ ~Unstarted(m)'
      /\ \A n \in Msgs : n # m => (Unstarted(n)' <=> Unstarted(n))
  BY <1>1, <1>2, DequeuedMessage
<1> QED
  BY <1>2, <1>3, FailLife

(* The cancelled message of a transfer. *)
LEMMA TransferCancelLife ==
  ASSUME TypeOK, Control, Ownership, Accounting, LifeInv, OneMessage',
         NEW u \in Updates, TransferCancel(u)
  PROVE  \E r \in Requests : Life!Settle(r) \/ Life!Drop(r)
<1>1. PICK m : m = hand[u]
  OBVIOUS
<1>2. /\ UNCHANGED <<queue, job, pc, got, pool, body, response, ctxDone, hooks>>
      /\ m # NoMsg /\ FailMsg(m) /\ hand' = [hand EXCEPT ![u] = NoMsg]
  BY <1>1 DEF TransferCancel, workers, callers, counts
<1>3. u \in Ops /\ m \in Msgs
  BY <1>1, <1>2 DEF TypeOK, Ops
<1>4. Unstarted(m) /\ InTransit(m)
  BY <1>1, <1>3 DEF Unstarted, InTransit
<1>5. ~Answered(m)
  BY <1>3, <1>4 DEF Ownership, Channels, Answered
<1>6. ~Queued(m) /\ \A o \in Ops : hand[o] = m => o = u
  BY <1>1, <1>2, <1>3 DEF Ownership, OnePlace
<1>7. ~InWorker(m)
  BY <1>1, <1>2, <1>3 DEF Ownership, OnePlace, InWorker
<1>8. \A n : Queued(n)' <=> Queued(n)
  BY <1>2 DEF Queued
<1>9. ~Unstarted(m)' /\ \A n \in Msgs : n # m => (Unstarted(n)' <=> Unstarted(n))
  BY <1>1, <1>2, <1>3, <1>6, <1>8, NullAssumption DEF Unstarted, TypeOK
<1> QED
  BY <1>2, <1>3, <1>4, <1>5, <1>7, <1>9, FailLife

(* A transfer is invisible: the message is queued all the time. *)
LEMMA TransferTakeLife ==
  ASSUME TypeOK, Control, Ownership, Accounting, LifeInv, OneMessage',
         NEW u \in Updates, TransferTake(u)
  PROVE  stageBar' = stageBar /\ callerBar' = callerBar
<1>1. PICK m : m = Head(queue[old[u]])
  OBVIOUS
<1>2. /\ old[u] \in Gens /\ queue[old[u]] # <<>> /\ Dequeue(old[u])
      /\ hand[u] = NoMsg /\ hand' = [hand EXCEPT ![u] = m]
      /\ UNCHANGED <<job, pc, got, pool, body, response, errs>>
  BY <1>1 DEF TransferTake, workers, callers, channels, Control, UpdateLocked
<1>3. /\ m \in Msgs /\ Queued(m)
      /\ \A n : Queued(n)' <=> Queued(n) /\ n # m
  BY <1>1, <1>2, DequeueFacts DEF Ownership
<1>4. u \in Ops /\ InTransit(m)
  BY <1>3 DEF InTransit, Ops
<1>5. \A n \in Msgs : Unstarted(n)' <=> Unstarted(n)
  BY <1>2, <1>3, <1>4, NullAssumption DEF Unstarted, TypeOK
<1>6. \A n : (InWorker(n)' <=> InWorker(n)) /\ (Answered(n)' <=> Answered(n))
  BY <1>2 DEF InWorker, Answered
<1>7. Place(m)' = Place(m)
  BY <1>3, <1>5, <1>6 DEF Place
<1> QED
  BY <1>2, <1>3, <1>4, <1>5, <1>6, <1>7, MessageMoves

(* And so is its arrival in the new queue. *)
LEMMA TransferPutLife ==
  ASSUME TypeOK, Control, Ownership, Accounting, LifeInv, OneMessage',
         NEW u \in Updates, TransferPut(u)
  PROVE  stageBar' = stageBar /\ callerBar' = callerBar
<1>1. PICK m : m = hand[u]
  OBVIOUS
<1>2. /\ opc[u] = "transfer" /\ m # NoMsg
      /\ queue' = [queue EXCEPT ![requestQueues] = Append(@, m)]
      /\ hand' = [hand EXCEPT ![u] = NoMsg]
      /\ UNCHANGED <<job, pc, got, pool, body, response, errs>>
  BY <1>1 DEF TransferPut, workers, callers, channels
<1>3. u \in Ops /\ m \in Msgs /\ requestQueues \in Gens
  BY <1>1, <1>2 DEF TypeOK, Ops, Control, UpdateLocked
<1>4. InTransit(m) /\ ~Queued(m)
  BY <1>1, <1>2, <1>3 DEF InTransit, Ownership, OnePlace
<1>5. \A n : Queued(n)' <=> Queued(n) \/ n = m
  BY <1>2, <1>3, <1>4, EnqueueFacts DEF Ownership
<1>6. \A n \in Msgs : Unstarted(n)' <=> Unstarted(n)
  BY <1>1, <1>2, <1>3, <1>5, NullAssumption DEF Unstarted, TypeOK
<1>7. \A n : (InWorker(n)' <=> InWorker(n)) /\ (Answered(n)' <=> Answered(n))
  BY <1>2 DEF InWorker, Answered
<1>8. Place(m)' = Place(m)
  BY <1>3, <1>6, <1>7 DEF Place
<1> QED
  BY <1>2, <1>3, <1>4, <1>6, <1>7, <1>8, MessageMoves

(* Steps that move no message and end no call. *)
LEMMA NothingLives ==
  ASSUME UNCHANGED <<queue, job, hand, got, pool, body, response, errs>>,
         NEW S, \A r \in Requests \ S : /\ pc'[r] = "send" <=> pc[r] = "send"
                                        /\ pc'[r] = "over" <=> pc[r] = "over"
  PROVE  \A r \in Requests \ S : StageOf(r)' = StageOf(r) /\ CallerOf(r)' = CallerOf(r)
<1>1. \A m : /\ Unstarted(m)' <=> Unstarted(m)
             /\ InWorker(m)' <=> InWorker(m)
             /\ Answered(m)' <=> Answered(m)
  BY DEF Unstarted, Queued, InWorker, Answered
<1>2. \A r : MsgsOf(r)' = MsgsOf(r)
  BY DEF MsgsOf
<1> QED
  BY <1>1, <1>2, SameLife

(* The bars of a step that changes the life of one request. *)
LEMMA OneLife ==
  ASSUME NEW r \in Requests,
         \A q \in Requests \ {r} : StageOf(q)' = StageOf(q) /\ CallerOf(q)' = CallerOf(q)
  PROVE  /\ stageBar' = [stageBar EXCEPT ![r] = StageOf(r)']
         /\ callerBar' = [callerBar EXCEPT ![r] = CallerOf(r)']
         /\ stageBar[r] = StageOf(r) /\ callerBar[r] = CallerOf(r)
         /\ StageOf(r)' = StageOf(r) => stageBar' = stageBar
         /\ CallerOf(r)' = CallerOf(r) => callerBar' = callerBar
<1>1. /\ stageBar' = [q \in Requests |-> StageOf(q)']
      /\ callerBar' = [q \in Requests |-> CallerOf(q)']
      /\ stageBar = [q \in Requests |-> StageOf(q)]
      /\ callerBar = [q \in Requests |-> CallerOf(q)]
  BY DEF stageBar, callerBar
<1>2. stageBar' = [stageBar EXCEPT ![r] = StageOf(r)'] /\ stageBar[r] = StageOf(r)
  BY <1>1
<1>3. callerBar' = [callerBar EXCEPT ![r] = CallerOf(r)'] /\ callerBar[r] = CallerOf(r)
  BY <1>1
<1>4. StageOf(r)' = StageOf(r) => stageBar' = stageBar
  BY <1>1
<1>5. CallerOf(r)' = CallerOf(r) => callerBar' = callerBar
  BY <1>1
<1> QED
  BY <1>2, <1>3, <1>4, <1>5

(* A request that ends without having been accepted. *)
LEMMA RefuseLife ==
  ASSUME TypeOK, Accounting, LifeInv, NEW r \in Requests,
         MsgsOf(r) = {} \/ pc[r] = "send", pc[r] # "over",
         MsgsOf(r)' = {}, got'[r] = got[r], pc'[r] = "over",
         \A q \in Requests \ {r} : StageOf(q)' = StageOf(q) /\ CallerOf(q)' = CallerOf(q),
         UNCHANGED ctxDone,
         UNCHANGED hooks \/ hooks' = [hooks EXCEPT ![r] = 1]
  PROVE  Life!Refuse(r)
<1>1. got[r] = NoReq
  BY DEF LifeInv, AnsweredOnce
<1>2. StageOf(r) = "new" /\ CallerOf(r) = "calling"
  BY <1>1 DEF StageOf, CallerOf
<1>3. StageOf(r)' = "new" /\ CallerOf(r)' = "refused"
  BY <1>1 DEF StageOf, CallerOf
<1>4. /\ callerBar' = [callerBar EXCEPT ![r] = CallerOf(r)']
      /\ stageBar[r] = StageOf(r) /\ callerBar[r] = CallerOf(r)
      /\ StageOf(r)' = StageOf(r) => stageBar' = stageBar
  BY OneLife
<1> QED
  BY <1>2, <1>3, <1>4 DEF Life!Refuse

(* The messages of a request: none before the send, then its own.          *)
LEMMA MessagesOf ==
  ASSUME TypeOK, Control, Ownership, Accounting, NEW r \in Requests
  PROVE  /\ pc[r] \notin {"send", "await", "over"} => MsgsOf(r) = {}
         /\ msg[r] # NoMsg => msg[r] \in Msgs /\ MsgsOf(r) = {msg[r]}
<1>1. pc[r] \notin {"send", "await", "over"} => MsgsOf(r) = {}
  BY DEF Accounting, OneMessage, MsgsOf
<1>2. msg[r] # NoMsg => msg[r] \in Msgs \ pool /\ body[msg[r]] = r
  BY DEF Ownership, Mine, TypeOK
<1>3. msg[r] # NoMsg => MsgsOf(r) = {msg[r]}
  BY <1>2 DEF Accounting, OneMessage, MsgsOf
<1> QED
  BY <1>1, <1>2, <1>3

(* getProviderQueue finds nothing and the account has no config, or a      *)
(* plugin answers.                                                         *)
LEMMA LookupLockedLife ==
  ASSUME TypeOK, Control, Ownership, Accounting, LifeInv,
         NEW r \in Requests, LookupLocked(r)
  PROVE  Life!Refuse(r) \/ (stageBar' = stageBar /\ callerBar' = callerBar)
<1>1. /\ UNCHANGED <<queue, job, hand, got, pool, body, response, errs, ctxDone, hooks>>
      /\ pc[r] = "lock" /\ \E x \in {"have", "over", "prepare"} : pc' = [pc EXCEPT ![r] = x]
  BY DEF LookupLocked, workers, ops, channels, counts
<1>2. PICK x \in {"have", "over", "prepare"} : pc' = [pc EXCEPT ![r] = x]
  BY <1>1
<1>3. \A q \in Requests \ {r} : StageOf(q)' = StageOf(q) /\ CallerOf(q)' = CallerOf(q)
  <2>1. \A q \in Requests \ {r} : pc'[q] = pc[q]
    BY <1>2 DEF TypeOK
  <2> QED
    BY <1>1, <2>1, NothingLives
<1>4. pc'[r] = x /\ MsgsOf(r) = {} /\ MsgsOf(r)' = {}
  <2>1. MsgsOf(r)' = MsgsOf(r)
    BY <1>1 DEF MsgsOf
  <2> QED
    BY <1>1, <1>2, <2>1, MessagesOf DEF TypeOK
<1>5. CASE x = "over"
  BY <1>1, <1>3, <1>4, <1>5, RefuseLife
<1>6. CASE x # "over"
  <2>1. StageOf(r)' = StageOf(r) /\ CallerOf(r)' = CallerOf(r)
    BY <1>1, <1>4, <1>6 DEF StageOf, CallerOf
  <2> QED
    BY <1>3, <2>1, OneLife
<1> QED
  BY <1>5, <1>6

(* A plugin's pre hook answers: the request never reaches a queue. *)
LEMMA ShortCircuitLife ==
  ASSUME TypeOK, Control, Ownership, Accounting, LifeInv,
         NEW r \in Requests, ShortCircuit(r)
  PROVE  Life!Refuse(r)
<1>1. /\ UNCHANGED <<queue, job, hand, got, pool, body, response, errs, ctxDone>>
      /\ pc[r] = "have" /\ pc' = [pc EXCEPT ![r] = "over"]
      /\ hooks' = [hooks EXCEPT ![r] = hooks[r] + 1]
  BY DEF ShortCircuit, workers, ops, channels, RunHooks
<1>2. \A q \in Requests \ {r} : StageOf(q)' = StageOf(q) /\ CallerOf(q)' = CallerOf(q)
  <2>1. \A q \in Requests \ {r} : pc'[q] = pc[q]
    BY <1>1 DEF TypeOK
  <2> QED
    BY <1>1, <2>1, NothingLives
<1>3. pc'[r] = "over" /\ MsgsOf(r) = {} /\ MsgsOf(r)' = {}
  <2>1. MsgsOf(r)' = MsgsOf(r)
    BY <1>1 DEF MsgsOf
  <2> QED
    BY <1>1, <2>1, MessagesOf DEF TypeOK
<1>4. hooks' = [hooks EXCEPT ![r] = 1]
  <2>1. hooks[r] = 0
    BY <1>1 DEF Accounting, Unspent
  <2> QED
    BY <1>1, <2>1
<1> QED
  BY <1>1, <1>2, <1>3, <1>4, RefuseLife

(* A message is filled: the call goes on, or is refused at once. *)
LEMMA EnterLife ==
  ASSUME TypeOK, Control, Ownership, Accounting, LifeInv,
         NEW r \in Requests, Enter(r)
  PROVE  Life!Refuse(r) \/ (stageBar' = stageBar /\ callerBar' = callerBar)
<1>1. PICK m \in pool :
         /\ Fill(r, m)
         /\ \/ pc' = [pc EXCEPT ![r] = "over"] /\ UNCHANGED pool
            \/ pc' = [pc EXCEPT ![r] = "send"] /\ pool' = pool \ {m}
  BY DEF Enter
<1>2. /\ UNCHANGED <<queue, job, hand, got, ctxDone, hooks>>
      /\ pc[r] = "have" /\ m \in Msgs
      /\ body' = [body EXCEPT ![m] = r]
      /\ \A n \in Msgs : n # m => response'[n] = response[n] /\ errs'[n] = errs[n]
  BY <1>1 DEF Enter, workers, ops, counts, Fill, TypeOK
<1>3. MsgsOf(r) = {}
  BY <1>2, MessagesOf
<1>4. \A q \in Requests \ {r} : MsgsOf(q)' = MsgsOf(q) /\ m \notin MsgsOf(q) /\ pc'[q] = pc[q]
  BY <1>1, <1>2 DEF MsgsOf, TypeOK
<1>5. \A n \in Msgs : n # m => /\ Unstarted(n)' <=> Unstarted(n)
                               /\ InWorker(n)' <=> InWorker(n)
                               /\ Answered(n)' <=> Answered(n)
  BY <1>2 DEF Unstarted, Queued, InWorker, Answered
<1>6. \A q \in Requests \ {r} : StageOf(q)' = StageOf(q) /\ CallerOf(q)' = CallerOf(q)
  <2>1. ASSUME NEW q \in Requests \ {r}
        PROVE  StageOf(q)' = StageOf(q) /\ CallerOf(q)' = CallerOf(q)
    <3>1. \A n \in MsgsOf(q) : n \in Msgs /\ n # m
      BY <1>4 DEF MsgsOf
    <3> QED
      BY <1>2, <1>4, <1>5, <3>1, SameLife
  <2> QED
    BY <2>1
<1>7. CASE pc' = [pc EXCEPT ![r] = "over"] /\ UNCHANGED pool
  <2>1. MsgsOf(r)' = {}
    BY <1>1, <1>2, <1>3, <1>7 DEF MsgsOf, TypeOK
  <2>2. pc'[r] = "over"
    BY <1>7 DEF TypeOK
  <2> QED
    BY <1>2, <1>3, <1>6, <2>1, <2>2, RefuseLife
<1>8. CASE pc' = [pc EXCEPT ![r] = "send"] /\ pool' = pool \ {m}
  <2>1. pc'[r] = "send"
    BY <1>8 DEF TypeOK
  <2>2. StageOf(r)' = StageOf(r) /\ CallerOf(r)' = CallerOf(r)
    BY <1>2, <1>3, <2>1 DEF StageOf, CallerOf
  <2> QED
    BY <1>6, <2>2, OneLife
<1> QED
  BY <1>1, <1>7, <1>8

(* The send accepts the request. *)
LEMMA SendLife ==
  ASSUME TypeOK, Control, Ownership, Accounting, LifeInv, OneMessage',
         NEW r \in Requests, Send(r)
  PROVE  Life!Accept(r)
<1>1. PICK m : m = msg[r]
  OBVIOUS
<1>2. /\ UNCHANGED <<job, hand, got, pool, body, response, errs, ctxDone, hooks>>
      /\ pc[r] = "send" /\ pc' = [pc EXCEPT ![r] = "await"]
      /\ pq[r] \in Gens /\ m # NoMsg
      /\ queue' = [queue EXCEPT ![pq[r]] = Append(@, m)]
  BY <1>1 DEF Send, workers, ops, channels, counts, Control, CallerHolds
<1>3. m \in Msgs \ pool /\ body[m] = r /\ MsgsOf(r) = {m} /\ ~InTransit(m)
  BY <1>1, <1>2, MessagesOf DEF Ownership, Mine
<1>4. \A n : Queued(n)' <=> Queued(n) \/ n = m
  <2>1. ~Queued(m)
    BY <1>3 DEF InTransit
  <2> QED
    BY <1>2, <1>3, <2>1, EnqueueFacts DEF Ownership
<1>5. \A n : /\ n # m => (Unstarted(n)' <=> Unstarted(n))
             /\ InWorker(n)' <=> InWorker(n)
             /\ Answered(n)' <=> Answered(n)
  BY <1>2, <1>4 DEF Unstarted, InWorker, Answered
<1>6. Unstarted(m)'
  BY <1>4 DEF Unstarted
<1>7. \A q \in Requests \ {r} : StageOf(q)' = StageOf(q) /\ CallerOf(q)' = CallerOf(q)
  <2>1. ASSUME NEW q \in Requests \ {r}
        PROVE  StageOf(q)' = StageOf(q) /\ CallerOf(q)' = CallerOf(q)
    <3>1. m \notin MsgsOf(q) /\ MsgsOf(q)' = MsgsOf(q) /\ pc'[q] = pc[q]
      BY <1>2, <1>3 DEF MsgsOf, TypeOK
    <3> QED
      BY <1>2, <1>5, <3>1, SameLife
  <2> QED
    BY <2>1
<1>8. got[r] = NoReq /\ pc'[r] = "await"
  BY <1>2 DEF LifeInv, AnsweredOnce, TypeOK
<1>9. StageOf(r) = "new" /\ CallerOf(r) = "calling" /\ CallerOf(r)' = "calling"
  BY <1>2, <1>8 DEF StageOf, CallerOf
<1>10. StageOf(r)' = "queued"
  <2>1. StageOf(r)' = Place(m)'
    BY <1>2, <1>3, <1>8, StageIsNext
  <2> QED
    BY <1>6, <2>1 DEF Place
<1>11. /\ stageBar' = [stageBar EXCEPT ![r] = StageOf(r)']
       /\ stageBar[r] = StageOf(r) /\ callerBar[r] = CallerOf(r)
       /\ CallerOf(r)' = CallerOf(r) => callerBar' = callerBar
  BY <1>7, OneLife
<1> QED
  BY <1>2, <1>9, <1>10, <1>11 DEF Life!Accept

(* A call gives its message back. *)
LEMMA ReleasedMessage ==
  ASSUME TypeOK, Control, Ownership, Accounting, NEW r \in Requests, msg[r] # NoMsg,
         Release(r), UNCHANGED body
  PROVE  /\ MsgsOf(r)' = {}
         /\ \A q \in Requests \ {r} : MsgsOf(q)' = MsgsOf(q) /\ msg[r] \notin MsgsOf(q)
<1>1. msg[r] \in Msgs \ pool /\ body[msg[r]] = r /\ MsgsOf(r) = {msg[r]}
  BY MessagesOf DEF Ownership, Mine
<1> QED
  BY <1>1 DEF MsgsOf, Release

(* The send fails and the call is refused. *)
LEMMA SendRefusedLife ==
  ASSUME TypeOK, Control, Ownership, Accounting, LifeInv,
         NEW r \in Requests, SendRefused(r)
  PROVE  Life!Refuse(r)
<1>1. /\ UNCHANGED <<queue, job, hand, got, body, response, errs, ctxDone, hooks>>
      /\ pc[r] = "send" /\ pc' = [pc EXCEPT ![r] = "over"] /\ Release(r) /\ msg[r] # NoMsg
  BY DEF SendRefused, workers, ops, counts, Control, CallerHolds
<1>2. /\ MsgsOf(r)' = {}
      /\ \A q \in Requests \ {r} : MsgsOf(q)' = MsgsOf(q)
  BY <1>1, ReleasedMessage
<1>3. /\ pc'[r] = "over"
      /\ \A q \in Requests \ {r} : pc'[q] = pc[q]
  BY <1>1 DEF TypeOK
<1>4. \A n : /\ Unstarted(n)' <=> Unstarted(n)
             /\ InWorker(n)' <=> InWorker(n)
             /\ Answered(n)' <=> Answered(n)
  BY <1>1 DEF Unstarted, Queued, InWorker, Answered
<1>5. \A q \in Requests \ {r} : StageOf(q)' = StageOf(q) /\ CallerOf(q)' = CallerOf(q)
  BY <1>1, <1>2, <1>3, <1>4, SameLife
<1> QED
  BY <1>1, <1>2, <1>3, <1>5, RefuseLife

(* The answer arrives, and the caller's post hooks run if nobody's did. *)
LEMMA ReceiveLife ==
  ASSUME TypeOK, Control, Ownership, Accounting, LifeInv,
         NEW r \in Requests, Receive(r)
  PROVE  Life!Answer(r)
<1>1. PICK m : m = msg[r]
  OBVIOUS
<1>2. /\ UNCHANGED <<queue, job, hand, body, ctxDone>>
      /\ pc[r] = "await" /\ pc' = [pc EXCEPT ![r] = "over"] /\ Release(r) /\ m # NoMsg
  BY <1>1 DEF Receive, workers, ops, Control, CallerHolds
<1>3. PICK x : /\ x # NoReq /\ got' = [got EXCEPT ![r] = x]
               /\ \A n \in Msgs : n # m => response'[n] = response[n] /\ errs'[n] = errs[n]
  <2>1. CASE response[m] # NoReq /\ got' = [got EXCEPT ![r] = response[m]]
             /\ response' = [response EXCEPT ![m] = NoReq] /\ UNCHANGED errs
    BY <2>1 DEF TypeOK
  <2>2. CASE errs[m] # NoReq /\ got' = [got EXCEPT ![r] = errs[m]]
             /\ errs' = [errs EXCEPT ![m] = NoReq] /\ UNCHANGED response
    BY <2>2 DEF TypeOK
  <2> QED
    BY <1>1, <2>1, <2>2 DEF Receive
<1>4. m \in Msgs /\ m \notin pool /\ body[m] = r /\ MsgsOf(r) = {m}
  BY <1>1, <1>2, MessagesOf DEF Ownership, Mine
<1>5. Answered(m)
  BY <1>1 DEF Receive, Answered
<1>6. ~InTransit(m)
  BY <1>4, <1>5 DEF Ownership, Channels, Answered
<1>7. hooks[r] = 0
  BY <1>4, <1>5 DEF Accounting, Unspent, Pending, Answered
<1>8. UNCHANGED hooks \/ hooks' = [hooks EXCEPT ![r] = 1]
  BY <1>7 DEF Receive, RunResultHooks, RunHooks
<1>9. /\ MsgsOf(r)' = {}
      /\ \A q \in Requests \ {r} : MsgsOf(q)' = MsgsOf(q) /\ m \notin MsgsOf(q)
  BY <1>1, <1>2, ReleasedMessage
<1>10. /\ pc'[r] = "over" /\ got'[r] # NoReq
       /\ \A q \in Requests \ {r} : pc'[q] = pc[q] /\ got'[q] = got[q]
  BY <1>2, <1>3 DEF TypeOK
<1>11. \A n \in Msgs :
          /\ Unstarted(n)' <=> Unstarted(n)
          /\ InWorker(n)' <=> InWorker(n)
          /\ n # m => (Answered(n)' <=> Answered(n))
  BY <1>2, <1>3 DEF Unstarted, Queued, InWorker, Answered
<1>12. \A q \in Requests \ {r} : StageOf(q)' = StageOf(q) /\ CallerOf(q)' = CallerOf(q)
  <2>1. ASSUME NEW q \in Requests \ {r}
        PROVE  StageOf(q)' = StageOf(q) /\ CallerOf(q)' = CallerOf(q)
    <3>1. \A n \in MsgsOf(q) : n \in Msgs /\ n # m
      BY <1>9 DEF MsgsOf
    <3> QED
      BY <1>9, <1>10, <1>11, <3>1, SameLife
  <2> QED
    BY <2>1
<1>13. got[r] = NoReq
  BY <1>2 DEF LifeInv, AnsweredOnce
<1>14. StageOf(r) = "delivered" /\ CallerOf(r) = "calling"
  <2>1. StageOf(r) = Place(m)
    BY <1>2, <1>4, <1>13, StageIs DEF Accounting
  <2>2. ~Unstarted(m) /\ ~InWorker(m)
    BY <1>6 DEF InTransit, Unstarted, InWorker
  <2> QED
    BY <1>2, <1>5, <2>1, <2>2 DEF Place, CallerOf
<1>15. StageOf(r)' = "delivered" /\ CallerOf(r)' = "answered"
  BY <1>10 DEF StageOf, CallerOf
<1>16. /\ callerBar' = [callerBar EXCEPT ![r] = CallerOf(r)']
       /\ stageBar[r] = StageOf(r) /\ callerBar[r] = CallerOf(r)
       /\ StageOf(r)' = StageOf(r) => stageBar' = stageBar
  BY <1>12, OneLife
<1> QED
  BY <1>2, <1>7, <1>8, <1>14, <1>15, <1>16 DEF Life!Answer

(* The caller leaves its message behind. *)
LEMMA AbandonLife ==
  ASSUME TypeOK, Control, Ownership, Accounting, LifeInv, OneMessage',
         NEW r \in Requests, Abandon(r)
  PROVE  Life!Leave(r)
<1>1. PICK m : m = msg[r]
  OBVIOUS
<1>2. /\ UNCHANGED <<queue, job, hand, got, pool, body, response, errs, ctxDone, hooks>>
      /\ pc[r] = "await" /\ pc' = [pc EXCEPT ![r] = "over"] /\ m # NoMsg /\ r \in ctxDone
  BY <1>1 DEF Abandon, Forget, workers, ops, counts, Control, CallerHolds
<1>3. m \in Msgs \ pool /\ body[m] = r /\ MsgsOf(r) = {m}
  BY <1>1, <1>2, MessagesOf DEF Ownership, Mine
<1>4. /\ pc'[r] = "over" /\ got[r] = NoReq
      /\ \A q \in Requests \ {r} : pc'[q] = pc[q]
  BY <1>2 DEF TypeOK, LifeInv, AnsweredOnce
<1>5. \A q \in Requests \ {r} : StageOf(q)' = StageOf(q) /\ CallerOf(q)' = CallerOf(q)
  BY <1>2, <1>4, NothingLives
<1>6. StageOf(r) = Place(m) /\ StageOf(r)' = Place(m)'
  BY <1>2, <1>3, <1>4, StageIs, StageIsNext DEF Accounting
<1>7. Place(m)' = Place(m) /\ Place(m) # "new"
  <2>1. /\ Unstarted(m)' <=> Unstarted(m)
        /\ InWorker(m)' <=> InWorker(m)
        /\ Answered(m)' <=> Answered(m)
    BY <1>2 DEF Unstarted, Queued, InWorker, Answered
  <2> QED
    BY <2>1 DEF Place
<1>8. CallerOf(r) = "calling" /\ CallerOf(r)' = "left"
  <2>1. MsgsOf(r)' = {m}
    BY <1>2, <1>3 DEF MsgsOf
  <2> QED
    BY <1>2, <1>4, <2>1 DEF CallerOf
<1>9. /\ callerBar' = [callerBar EXCEPT ![r] = CallerOf(r)']
      /\ stageBar[r] = StageOf(r) /\ callerBar[r] = CallerOf(r)
      /\ StageOf(r)' = StageOf(r) => stageBar' = stageBar
  BY <1>5, OneLife
<1> QED
  BY <1>2, <1>6, <1>7, <1>8, <1>9 DEF Life!Leave

(* prepareProvider: only its failure ends the call that runs it. *)
LEMMA PrepareLife ==
  ASSUME TypeOK, Control, Ownership, Accounting, LifeInv, Prepare
  PROVE  \/ \E r \in Requests : Life!Refuse(r)
         \/ stageBar' = stageBar /\ callerBar' = callerBar /\ UNCHANGED <<ctxDone, hooks>>
<1>1. UNCHANGED <<queue, job, hand, got, pool, body, response, errs, ctxDone, hooks>>
  BY DEF Prepare, PrepareQueue, PrepareWaitGroup, PrepareCreate, PrepareFail, PrepareWorkers,
     workers, callers, channels, counts, ops
<1>2. PICK h : h = mutex
  OBVIOUS
<1>3. h \in Requests => pc[h] = "prepare"
  BY <1>2, ActorAssumption DEF Control, PrepareLocked, Prepare, PrepareQueue, PrepareWaitGroup,
     PrepareCreate, PrepareFail, PrepareWorkers
<1>4. \A q \in Requests : q # h => pc'[q] = pc[q]
  BY <1>2 DEF Prepare, PrepareQueue, PrepareWaitGroup, PrepareCreate, PrepareFail, PrepareWorkers,
     PrepareReturn, callers, TypeOK
<1>5. \A q \in Requests \ {h} : StageOf(q)' = StageOf(q) /\ CallerOf(q)' = CallerOf(q)
  BY <1>1, <1>4, NothingLives
<1>6. CASE h \in Requests
  <2>1. MsgsOf(h) = {} /\ MsgsOf(h)' = {}
    <3>1. MsgsOf(h)' = MsgsOf(h)
      BY <1>1 DEF MsgsOf
    <3> QED
      BY <1>3, <1>6, <3>1, MessagesOf
  <2>2. pc'[h] \in {"prepare", "over", "have"}
    BY <1>2, <1>3, <1>6 DEF Prepare, PrepareQueue, PrepareWaitGroup, PrepareCreate, PrepareFail,
       PrepareWorkers, PrepareReturn, callers, TypeOK
  <2>3. CASE pc'[h] = "over"
    <3>1. Life!Refuse(h)
      BY <1>1, <1>3, <1>5, <1>6, <2>1, <2>3, RefuseLife
    <3> QED
      BY <1>6, <3>1
  <2>4. CASE pc'[h] # "over"
    <3>1. StageOf(h)' = StageOf(h) /\ CallerOf(h)' = CallerOf(h)
      BY <1>1, <1>3, <1>6, <2>1, <2>2, <2>4 DEF StageOf, CallerOf
    <3> QED
      BY <1>1, <1>5, <1>6, <3>1, OneLife
  <2> QED
    BY <2>3, <2>4
<1>7. CASE h \notin Requests
  <2>1. \A q \in Requests : StageOf(q)' = StageOf(q) /\ CallerOf(q)' = CallerOf(q)
    BY <1>5, <1>7
  <2> QED
    BY <1>1, <2>1 DEF stageBar, callerBar
<1> QED
  BY <1>6, <1>7

(* What an answered request has left behind stays nothing. *)
LEMMA AnswersKept ==
  ASSUME TypeOK, Control, Ownership, Accounting, LifeInv, [Next]_vars
  PROVE  AnsweredOnce'
<1>1. ASSUME UNCHANGED <<got, pool, body>>, \A r \in Requests : pc[r] = "over" => pc'[r] = "over"
      PROVE  AnsweredOnce'
  <2>1. \A r : MsgsOf(r)' = MsgsOf(r)
    BY <1>1 DEF MsgsOf
  <2> QED
    BY <1>1, <2>1 DEF LifeInv, AnsweredOnce
<1>2. ASSUME NEW r \in Requests, Caller(r) PROVE AnsweredOnce'
  <2>1. CASE Lookup(r)
    BY <1>1, <2>1 DEF Lookup, channels, TypeOK
  <2>2. CASE LookupLocked(r)
    BY <1>1, <2>2 DEF LookupLocked, channels, TypeOK
  <2>3. CASE ShortCircuit(r)
    BY <1>1, <2>3 DEF ShortCircuit, channels, TypeOK
  <2>4. CASE Send(r)
    BY <1>1, <2>4 DEF Send, channels, TypeOK
  <2>5. CASE Abandon(r)
    BY <1>1, <2>5 DEF Abandon, Forget, TypeOK
  <2>6. CASE Enter(r)
    <3>1. PICK m \in pool : Fill(r, m) /\ pool' \subseteq pool /\ pool \ {m} \subseteq pool'
      BY <2>6 DEF Enter
    <3>2. /\ m \in Msgs /\ pc[r] = "have" /\ UNCHANGED got /\ body' = [body EXCEPT ![m] = r]
          /\ \A q \in Requests : q # r => pc'[q] = pc[q]
      BY <2>6, <3>1 DEF Enter, Fill, TypeOK
    <3>3. \A q \in Requests : q # r => MsgsOf(q)' = MsgsOf(q)
      BY <3>1, <3>2 DEF MsgsOf, TypeOK
    <3> QED
      BY <3>2, <3>3 DEF LifeInv, AnsweredOnce
  <2>7. CASE SendRefused(r)
    <3>1. /\ msg[r] # NoMsg /\ Release(r) /\ UNCHANGED <<body, got>>
          /\ pc' = [pc EXCEPT ![r] = "over"]
      BY <2>7 DEF SendRefused, Control, CallerHolds
    <3>2. MsgsOf(r)' = {} /\ \A q \in Requests \ {r} : MsgsOf(q)' = MsgsOf(q)
      BY <3>1, ReleasedMessage
    <3> QED
      BY <3>1, <3>2 DEF LifeInv, AnsweredOnce, TypeOK
  <2>8. CASE Receive(r)
    <3>1. /\ msg[r] # NoMsg /\ Release(r) /\ UNCHANGED body
          /\ pc' = [pc EXCEPT ![r] = "over"]
          /\ \E x : got' = [got EXCEPT ![r] = x]
      BY <2>8 DEF Receive, Control, CallerHolds
    <3>2. MsgsOf(r)' = {} /\ \A q \in Requests \ {r} : MsgsOf(q)' = MsgsOf(q)
      BY <3>1, ReleasedMessage
    <3>3. \A q \in Requests \ {r} : got'[q] = got[q] /\ pc'[q] = pc[q]
      BY <3>1 DEF TypeOK
    <3>4. pc'[r] = "over"
      BY <3>1 DEF TypeOK
    <3> QED
      BY <3>2, <3>3, <3>4 DEF LifeInv, AnsweredOnce
  <2> QED
    BY <1>2, <2>1, <2>2, <2>3, <2>4, <2>5, <2>6, <2>7, <2>8 DEF Caller
<1>3. CASE Prepare
  <2>1. /\ UNCHANGED <<got, pool, body>>
        /\ \A r \in Requests : r # mutex => pc'[r] = pc[r]
    BY <1>3 DEF Prepare, PrepareQueue, PrepareWaitGroup, PrepareCreate, PrepareFail,
       PrepareWorkers, PrepareReturn, callers, channels, TypeOK
  <2>2. mutex \in Requests => pc[mutex] = "prepare"
    BY <1>3, ActorAssumption DEF Control, PrepareLocked, Prepare, PrepareQueue, PrepareWaitGroup,
       PrepareCreate, PrepareFail, PrepareWorkers
  <2> QED
    BY <1>1, <2>1, <2>2
<1>4. CASE \E r \in Requests : ContextEnds(r)
  BY <1>1, <1>4 DEF ContextEnds, channels
<1>5. CASE \E w \in Workers : Worker(w)
  BY <1>1, <1>5 DEF Worker, Take, Deliver, BillAbandonedTerminal, SeeDone, WorkerDrain, Exit,
     callers, channels
<1>6. CASE \E g \in Gens : Cleanup(g)
  BY <1>1, <1>6 DEF Cleanup, CleanupWait, CleanupDrain, CleanupEnd, callers, channels
<1>7. CASE \E u \in Updates : Update(u)
  BY <1>1, <1>7 DEF Update, UpdateBegin, UpdateAbsent, UpdateFail, UpdatePublish, TransferTake,
     TransferPut, TransferCancel, CancelRest, TransferEnd, UpdateFinish, callers, channels
<1>8. CASE \E d \in Removals : Removal(d)
  BY <1>1, <1>8 DEF Removal, RemoveBegin, RemoveWait, RemoveDrain, RemoveDrained, RemoveFinish,
     callers, channels
<1>9. CASE \E k \in Getters : Getter(k)
  BY <1>1, <1>9 DEF Getter, GetterLook, GetterLocked, callers, channels
<1>10. CASE \E s \in Shutdowns : Shutdown(s)
  BY <1>1, <1>10 DEF Shutdown, ShutdownBegin, ShutdownSignal, ShutdownLoad, ShutdownWait,
     ShutdownCleanups, ShutdownDrain, ShutdownEnd, callers, channels
<1>11. CASE UNCHANGED vars
  BY <1>1, <1>11 DEF vars, callers, channels
<1> QED
  BY <1>2, <1>3, <1>4, <1>5, <1>6, <1>7, <1>8, <1>9, <1>10, <1>11 DEF Next

(* Workers that begin have no message, and those with one are busy. *)
LEMMA BusyKept ==
  ASSUME TypeOK, Control, Generations, LifeInv, [Next]_vars
  PROVE  BusyWithIt'
<1>1. ASSUME UNCHANGED <<job, worker>> PROVE BusyWithIt'
  BY <1>1 DEF LifeInv, BusyWithIt
<1>2. ASSUME NEW g \in Gens, NoWorkers(g), StartWorkers(g), UNCHANGED job PROVE BusyWithIt'
  <2>1. \A w \in Workers : w[1] = g => worker[w] = "none"
    BY <1>2, WorkersOf DEF NoWorkers
  <2> QED
    BY <1>2, <2>1 DEF StartWorkers, LifeInv, BusyWithIt
<1>3. ASSUME NEW w \in Workers, Worker(w) PROVE BusyWithIt'
  <2>1. \A v \in Workers : v # w => job'[v] = job[v] /\ worker'[v] = worker[v]
    BY <1>3 DEF Worker, Take, Deliver, BillAbandonedTerminal, SeeDone, WorkerDrain, Exit,
       workers, TypeOK
  <2>2. job'[w] # NoMsg => worker'[w] = "busy"
    BY <1>3 DEF Worker, Take, Deliver, BillAbandonedTerminal, SeeDone, WorkerDrain, Exit,
       workers, TypeOK, LifeInv, BusyWithIt
  <2> QED
    BY <2>1, <2>2 DEF LifeInv, BusyWithIt
<1>4. CASE Prepare
  <2>1. CASE PrepareWorkers
    <3>1. lastGen \in Gens /\ NoWorkers(lastGen) /\ StartWorkers(lastGen) /\ UNCHANGED job
      BY <2>1 DEF PrepareWorkers, Control, PrepareNewest, Generations, Untouched
    <3> QED
      BY <1>2, <3>1
  <2>2. CASE ~PrepareWorkers
    BY <1>1, <1>4, <2>2 DEF Prepare, PrepareQueue, PrepareWaitGroup, PrepareCreate, PrepareFail,
       workers
  <2> QED
    BY <2>1, <2>2
<1>5. CASE \E r \in Requests : Caller(r) \/ ContextEnds(r)
  BY <1>1, <1>5 DEF Caller, Lookup, LookupLocked, ShortCircuit, Enter, Send, SendRefused,
     Receive, Abandon, ContextEnds, workers
<1>6. CASE \E g \in Gens : Cleanup(g)
  BY <1>1, <1>6 DEF Cleanup, CleanupWait, CleanupDrain, CleanupEnd, workers
<1>7. ASSUME NEW u \in Updates, Update(u) PROVE BusyWithIt'
  <2>1. CASE UpdatePublish(u)
    <3>1. /\ lastGen + 1 \in Gens /\ lastGen + 1 > lastGen
          /\ StartWorkers(lastGen + 1) /\ UNCHANGED job
      BY <2>1, MaxGenAssumption DEF UpdatePublish, TypeOK, Gens
    <3>2. NoWorkers(lastGen + 1)
      BY <3>1 DEF Generations, Untouched
    <3> QED
      BY <1>2, <3>1, <3>2
  <2>2. CASE ~UpdatePublish(u)
    BY <1>1, <1>7, <2>2 DEF Update, UpdateBegin, UpdateAbsent, UpdateFail, TransferTake,
       TransferPut, TransferCancel, CancelRest, TransferEnd, UpdateFinish, workers
  <2> QED
    BY <2>1, <2>2
<1>8. CASE \E d \in Removals : Removal(d)
  BY <1>1, <1>8 DEF Removal, RemoveBegin, RemoveWait, RemoveDrain, RemoveDrained, RemoveFinish,
     workers
<1>9. CASE \E k \in Getters : Getter(k)
  BY <1>1, <1>9 DEF Getter, GetterLook, GetterLocked, workers
<1>10. CASE \E s \in Shutdowns : Shutdown(s)
  BY <1>1, <1>10 DEF Shutdown, ShutdownBegin, ShutdownSignal, ShutdownLoad, ShutdownWait,
     ShutdownCleanups, ShutdownDrain, ShutdownEnd, workers
<1>11. CASE UNCHANGED vars
  BY <1>1, <1>11 DEF vars, workers
<1> QED
  BY <1>3, <1>4, <1>5, <1>6, <1>7, <1>8, <1>9, <1>10, <1>11 DEF Next

(* Every step of the queue is a step in the life of one request, or of     *)
(* none.                                                                   *)
LEMMA StepLife ==
  ASSUME IInv, Generations, LifeInv, [Next]_vars
  PROVE  [Life!Next]_(Life!vars)
<1>1. /\ TypeOK /\ Control /\ Ownership /\ Accounting
      /\ OneMessage'
  <2>1. IInv'
    BY StepKeeps
  <2> QED
    BY <2>1 DEF IInv, Accounting
<1>2. ASSUME UNCHANGED <<queue, job, hand, got, pool, body, response, errs, ctxDone, hooks>>,
             \A r \in Requests : /\ pc'[r] = "send" <=> pc[r] = "send"
                                 /\ pc'[r] = "over" <=> pc[r] = "over"
      PROVE  UNCHANGED Life!vars
  <2>1. \A r \in Requests : StageOf(r)' = StageOf(r) /\ CallerOf(r)' = CallerOf(r)
    <3>1. \A r \in Requests \ {} : StageOf(r)' = StageOf(r) /\ CallerOf(r)' = CallerOf(r)
      BY <1>2, NothingLives
    <3> QED
      BY <3>1
  <2>2. stageBar' = stageBar /\ callerBar' = callerBar
    BY <2>1 DEF stageBar, callerBar
  <2> QED
    BY <1>2, <2>2 DEF Life!vars
<1>3. ASSUME stageBar' = stageBar /\ callerBar' = callerBar, UNCHANGED <<ctxDone, hooks>>
      PROVE  UNCHANGED Life!vars
  BY <1>3 DEF Life!vars
<1>4. CASE Prepare
  BY <1>1, <1>3, <1>4, PrepareLife DEF Life!Next
<1>5. ASSUME NEW r \in Requests, Caller(r) PROVE [Life!Next]_(Life!vars)
  <2>1. CASE Lookup(r)
    BY <1>2, <2>1 DEF Lookup, workers, channels, counts, ops, TypeOK
  <2>2. CASE LookupLocked(r)
    <3>1. UNCHANGED <<ctxDone, hooks>>
      BY <2>2 DEF LookupLocked, counts
    <3> QED
      BY <1>1, <1>3, <2>2, <3>1, LookupLockedLife DEF Life!Next
  <2>3. CASE ShortCircuit(r)
    BY <1>1, <2>3, ShortCircuitLife DEF Life!Next
  <2>4. CASE Enter(r)
    <3>1. UNCHANGED <<ctxDone, hooks>>
      BY <2>4 DEF Enter, counts
    <3> QED
      BY <1>1, <1>3, <2>4, <3>1, EnterLife DEF Life!Next
  <2>5. CASE Send(r)
    BY <1>1, <2>5, SendLife DEF Life!Next
  <2>6. CASE SendRefused(r)
    BY <1>1, <2>6, SendRefusedLife DEF Life!Next
  <2>7. CASE Receive(r)
    BY <1>1, <2>7, ReceiveLife DEF Life!Next
  <2>8. CASE Abandon(r)
    BY <1>1, <2>8, AbandonLife DEF Life!Next
  <2> QED
    BY <1>5, <2>1, <2>2, <2>3, <2>4, <2>5, <2>6, <2>7, <2>8 DEF Caller
<1>6. ASSUME NEW r \in Requests, ContextEnds(r) PROVE [Life!Next]_(Life!vars)
  <2>1. /\ UNCHANGED <<queue, job, hand, got, pool, body, response, errs, pc, hooks>>
        /\ ctxDone' = ctxDone \cup {r}
    BY <1>6 DEF ContextEnds, workers, channels, counts, ops
  <2>2. \A q \in Requests \ {} : StageOf(q)' = StageOf(q) /\ CallerOf(q)' = CallerOf(q)
    BY <2>1, NothingLives
  <2>3. stageBar' = stageBar /\ callerBar' = callerBar
    BY <2>2 DEF stageBar, callerBar
  <2>4. Life!ContextEnds(r)
    BY <2>1, <2>3 DEF Life!ContextEnds
  <2> QED
    BY <2>4 DEF Life!Next
<1>7. ASSUME NEW w \in Workers, Worker(w) PROVE [Life!Next]_(Life!vars)
  <2>1. CASE Take(w)
    BY <1>1, <2>1, TakeLife DEF Life!Next
  <2>2. CASE Deliver(w)
    BY <1>1, <2>2, DeliverLife DEF Life!Next
  <2>3. CASE BillAbandonedTerminal(w)
    BY <1>1, <2>3, BillLife DEF Life!Next
  <2>4. CASE WorkerDrain(w)
    <3>1. w[1] \in Gens
      BY DEF Workers
    <3> QED
      BY <1>1, <2>4, <3>1, DrainLife DEF WorkerDrain, Life!Next
  <2>5. CASE SeeDone(w) \/ Exit(w)
    BY <1>2, <2>5 DEF SeeDone, Exit, callers, channels, counts, ops
  <2> QED
    BY <1>7, <2>1, <2>2, <2>3, <2>4, <2>5 DEF Worker
<1>8. ASSUME NEW g \in Gens, Cleanup(g) PROVE [Life!Next]_(Life!vars)
  <2>1. CASE CleanupDrain(g)
    BY <1>1, <2>1, DrainLife DEF CleanupDrain, Life!Next
  <2>2. CASE CleanupWait(g) \/ CleanupEnd(g)
    BY <1>2, <2>2 DEF CleanupWait, CleanupEnd, callers, channels, counts, ops
  <2> QED
    BY <1>8, <2>1, <2>2 DEF Cleanup
<1>9. ASSUME NEW u \in Updates, Update(u) PROVE [Life!Next]_(Life!vars)
  <2>1. CASE TransferTake(u)
    <3>1. UNCHANGED <<ctxDone, hooks>>
      BY <2>1 DEF TransferTake, callers, counts
    <3> QED
      BY <1>1, <1>3, <2>1, <3>1, TransferTakeLife
  <2>2. CASE TransferPut(u)
    <3>1. UNCHANGED <<ctxDone, hooks>>
      BY <2>2 DEF TransferPut, callers, counts
    <3> QED
      BY <1>1, <1>3, <2>2, <3>1, TransferPutLife
  <2>3. CASE TransferCancel(u)
    BY <1>1, <2>3, TransferCancelLife DEF Life!Next
  <2>4. CASE CancelRest(u)
    <3>1. old[u] \in Gens
      BY <1>1, <2>4 DEF CancelRest, Control, UpdateLocked
    <3> QED
      BY <1>1, <2>4, <3>1, DrainLife DEF CancelRest, Life!Next
  <2>5. CASE ~(TransferTake(u) \/ TransferPut(u) \/ TransferCancel(u) \/ CancelRest(u))
    BY <1>2, <1>9, <2>5 DEF Update, UpdateBegin, UpdateAbsent, UpdateFail, UpdatePublish,
       TransferEnd, UpdateFinish, workers, callers, channels, counts, ops
  <2> QED
    BY <2>1, <2>2, <2>3, <2>4, <2>5
<1>10. ASSUME NEW d \in Removals, Removal(d) PROVE [Life!Next]_(Life!vars)
  <2>1. CASE RemoveDrain(d)
    <3>1. old[d] \in Gens
      BY <1>1, <2>1 DEF RemoveDrain, Control, RemovalLocked
    <3> QED
      BY <1>1, <2>1, <3>1, DrainLife DEF RemoveDrain, Life!Next
  <2>2. CASE ~RemoveDrain(d)
    BY <1>2, <1>10, <2>2 DEF Removal, RemoveBegin, RemoveWait, RemoveDrained, RemoveFinish,
       workers, callers, channels, counts, ops
  <2> QED
    BY <2>1, <2>2
<1>11. CASE \E k \in Getters : Getter(k)
  BY <1>2, <1>11 DEF Getter, GetterLook, GetterLocked, workers, callers, channels, counts, ops
<1>12. ASSUME NEW s \in Shutdowns, Shutdown(s) PROVE [Life!Next]_(Life!vars)
  <2>1. CASE ShutdownDrain(s)
    <3>1. old[s] \in Gens
      BY <1>1, <2>1 DEF ShutdownDrain, Control, ShutdownKnows
    <3> QED
      BY <1>1, <2>1, <3>1, DrainLife DEF ShutdownDrain, Life!Next
  <2>2. CASE ~ShutdownDrain(s)
    BY <1>2, <1>12, <2>2 DEF Shutdown, ShutdownBegin, ShutdownSignal, ShutdownLoad, ShutdownWait,
       ShutdownCleanups, ShutdownEnd, workers, callers, channels, counts, ops
  <2> QED
    BY <2>1, <2>2
<1>13. CASE UNCHANGED vars
  BY <1>2, <1>13 DEF vars, workers, callers, channels, counts, ops
<1> QED
  BY <1>4, <1>5, <1>6, <1>7, <1>8, <1>9, <1>10, <1>11, <1>12, <1>13 DEF Next

(* ProviderQueue implements RequestLife: whatever callers, workers, drains,*)
(* transfers and lifecycle calls do meanwhile, a request is refused before *)
(* it was accepted, or accepted once, executed at most once and settled    *)
(* once (tryRequest, requestWorker, UpdateProvider, RemoveProvider,        *)
(* Shutdown).                                                              *)
THEOREM QueueImplementsRequestLife == Spec => ImplementsRequestLife
<1>1. Init => Life!Init /\ LifeInv
  <2>1. SUFFICES ASSUME Init PROVE Life!Init /\ LifeInv
    OBVIOUS
  <2>2. /\ \A r \in Requests : got[r] = NoReq /\ pc[r] = "start"
        /\ pool = Msgs /\ ctxDone = {} /\ hooks = [r \in Requests |-> 0]
        /\ \A w \in Workers : job[w] = NoMsg
    BY <2>1 DEF Init
  <2>3. \A r \in Requests : MsgsOf(r) = {}
    BY <2>2 DEF MsgsOf
  <2>4. \A r \in Requests : StageOf(r) = "new" /\ CallerOf(r) = "calling"
    BY <2>2, <2>3 DEF StageOf, CallerOf
  <2>5. Life!Init
    BY <2>2, <2>4 DEF Life!Init, stageBar, callerBar
  <2>6. LifeInv
    BY <2>2 DEF LifeInv, AnsweredOnce, BusyWithIt
  <2> QED
    BY <2>5, <2>6
<1>2. IInv /\ Generations /\ LifeInv /\ [Next]_vars => LifeInv'
  BY AnswersKept, BusyKept DEF IInv, LifeInv
<1>3. IInv /\ Generations /\ LifeInv /\ [Next]_vars => [Life!Next]_(Life!vars)
  BY StepLife
<1> QED
  BY <1>1, <1>2, <1>3, GenerationsKept, PTL DEF Spec, ImplementsRequestLife, Life!Spec

=============================================================================
