----------------------- MODULE ProviderQueueRefinement -----------------------
(***************************************************************************)
(* ProviderQueue implements RequestLife.  The stage of a request is read   *)
(* off the place its message is in; a transfer from one queue to another   *)
(* is a stutter.                                                           *)
(***************************************************************************)
EXTENDS ProviderQueueInvariant

(* Messages filled for a request and not back in the pool. *)
MsgsOf(r) == {m \in Msgs \ pool : body[m] = r}

InWorker(m) == \E w \in Workers : job[w] = m

Answered(m) == response[m] # NoReq \/ errs[m] # NoReq

StageOf(r) ==
    IF got[r] # NoReq THEN "delivered"
    ELSE IF MsgsOf(r) = {} \/ pc[r] = "send" THEN "new"
    ELSE IF \E m \in MsgsOf(r) : Unstarted(m) THEN "queued"
    ELSE IF \E m \in MsgsOf(r) : InWorker(m) THEN "running"
    ELSE IF \E m \in MsgsOf(r) : Answered(m) THEN "delivered"
    ELSE "dropped"

CallerOf(r) ==
    IF pc[r] # "over" THEN "calling"
    ELSE IF got[r] # NoReq THEN "answered"
    ELSE IF MsgsOf(r) = {} THEN "refused"
    ELSE "left"

stageBar == [r \in Requests |-> StageOf(r)]
callerBar == [r \in Requests |-> CallerOf(r)]

Life == INSTANCE RequestLife WITH
            stage <- stageBar, caller <- callerBar, gone <- ctxDone, hooked <- hooks

(* Through every interleaving of callers, workers, drains, transfers and   *)
(* lifecycle calls a request lives the life RequestLife promises.          *)
ImplementsRequestLife == Life!Spec

(* A request that was answered has returned and left no message behind,    *)
(* and a worker with a message is busy with it.                            *)
AnsweredOnce == \A r \in Requests : got[r] # NoReq => pc[r] = "over" /\ MsgsOf(r) = {}

BusyWithIt == \A w \in Workers : job[w] # NoMsg => worker[w] = "busy"

LifeInv == AnsweredOnce /\ BusyWithIt

==============================================================================
