---------------------------- MODULE StreamAttempts ----------------------------
(***************************************************************************)
(* One streaming request after tryStreamRequest has queued it: the worker  *)
(* with its attempts (executeRequestWithRetries and the closure that       *)
(* requestWorker gives it), the goroutine of the provider that reads each  *)
(* attempt's stream, runs the post hooks on the attempt's own pipeline and *)
(* passes the chunks on, the forwarder of CheckFirstStreamChunkForError,   *)
(* and the caller, who may fall back to another provider.                  *)
(*                                                                         *)
(* They share a context: whether it is done, and the end indicator that    *)
(* marks the chunk being processed as the stream's last one.  They share   *)
(* the trace's deferred span too.                                          *)
(***************************************************************************)
EXTENDS Naturals, Sequences

CONSTANTS
    MaxAttempts,   \* attempts of all providers (bound)
    MaxChunks,     \* chunks of one stream (bound)
    Buffer         \* capacity of a stream's channel, 256 in the code

ASSUME AttemptsAssumption == MaxAttempts \in Nat \ {0}
ASSUME ChunksAssumption == MaxChunks \in Nat \ {0}
ASSUME BufferAssumption == Buffer \in Nat \ {0}

VARIABLES
    done,      \* the context is done: cancelled or expired
    final,     \* BifrostContextKeyStreamEndIndicator
    deferred,  \* the attempt whose span the trace store keeps, or 0
    wpc,       \* worker: "begin", "check", "drain", "failed", "fatal",
               \* "store", "deliver", "idle"
    n,         \* number of attempts so far
    verdict,   \* class of the chunk that made the attempt fail
    read,      \* chunks CheckFirstStreamChunkForError has buffered
    result,    \* what the worker has for the caller
    prov,      \* goroutine of each attempt, with the chunk in its hands
    taken,     \* chunks it has read
    pipe,      \* pipeline of each attempt: "none", "held", "pooled"
    chan,      \* channel of each attempt
    span,      \* llm span of each attempt: "none", "open", "ended"
    fwd,       \* forwarder: "off", "pass", "drain", "over"
    hand,      \* the chunk it is about to send, in a sequence
    out,       \* channel of the caller
    outClosed,
    cpc,       \* caller: "wait", "reading", "over"
    received,  \* chunks the caller has read
    \* history
    sent,      \* number of chunks each attempt has put in its channel
    stale,     \* attempts that began with the end indicator set
    misused,   \* attempts whose hooks ran on a pipeline they had released
    settled    \* attempts whose hooks have seen a last chunk

ctxVars == <<done, final, deferred>>
workerVars == <<wpc, n, verdict, read, result>>
provVars == <<prov, taken>>
attemptVars == <<pipe, span>>
chanVars == <<chan, sent>>
fwdVars == <<fwd, hand, out, outClosed>>
callerVars == <<cpc, received>>
histVars == <<stale, misused, settled>>
vars == <<ctxVars, workerVars, provVars, attemptVars, chanVars, fwdVars,
          callerVars, histVars>>

Attempts == 1..MaxAttempts

(***************************************************************************)
(* What a chunk carries: an event before any output, output, an error that *)
(* allows a retry, one that does not (cancelled, or of bifrost itself).    *)
(***************************************************************************)
Classes == {"pre", "data", "error", "stop"}
Failures == {"error", "stop"}

(* The helper that processes it, and whether the goroutine then goes on    *)
(* reading, runs its deferred calls, or is done with those.                *)
Calls == {"Response", "BifrostError", "Error"}
Nexts == {"read", "exit", "close"}

At(pc) == [pc |-> pc, class |-> "pre", call |-> "Response", next |-> "read"]

Init ==
    /\ done = FALSE /\ final = FALSE /\ deferred = 0
    /\ wpc = "begin" /\ n = 0 /\ verdict = "error" /\ read = <<>> /\ result = "none"
    /\ prov = [i \in Attempts |-> At("off")]
    /\ taken = [i \in Attempts |-> 0]
    /\ pipe = [i \in Attempts |-> "none"]
    /\ chan = [i \in Attempts |-> [queue |-> <<>>, closed |-> FALSE]]
    /\ span = [i \in Attempts |-> "none"]
    /\ fwd = "off" /\ hand = <<>> /\ out = <<>> /\ outClosed = FALSE
    /\ cpc = "wait" /\ received = <<>>
    /\ sent = [i \in Attempts |-> 0]
    /\ stale = {} /\ misused = {} /\ settled = {}

Exhausted(i) == chan[i].closed /\ chan[i].queue = <<>>

(* The finalizer of an attempt, in a sync.Once.                            *)
Finalized(i) == IF pipe[i] = "held" THEN [pipe EXCEPT ![i] = "pooled"] ELSE pipe

-----------------------------------------------------------------------------
(* The goroutine of attempt i.                                             *)

Goto(i, pc) == prov' = [prov EXCEPT ![i] = At(pc)]
Continue(i, pc) == prov' = [prov EXCEPT ![i].pc = pc]

Process(i, class, call, next) ==
    prov' = [prov EXCEPT ![i] =
                 [pc |-> "hook", class |-> class, call |-> call, next |-> next]]

(* The context is done at the head of the loop, or has closed the body.    *)
StopReading(i) ==
    /\ prov[i].pc = "read" /\ done
    /\ Goto(i, "exit")
    /\ UNCHANGED <<ctxVars, workerVars, taken, attemptVars, chanVars, fwdVars,
                   callerVars, histVars>>

ReadChunk(i) ==
    /\ prov[i].pc = "read" /\ taken[i] < MaxChunks
    /\ taken' = [taken EXCEPT ![i] = @ + 1]
    /\ \E class \in {"pre", "data"} : Process(i, class, "Response", "read")
    /\ UNCHANGED <<ctxVars, workerVars, attemptVars, chanVars, fwdVars,
                   callerVars, histVars>>

(***************************************************************************)
(* The stream ends: with a last chunk, with an error event in the stream,  *)
(* or because reading it fails.                                            *)
(***************************************************************************)
ReadLast(i) ==
    /\ prov[i].pc = "read"
    /\ \/ Process(i, "data", "Response", "exit")
       \/ \E class \in Failures : Process(i, class, "BifrostError", "exit")
       \/ Process(i, "stop", "Error", "exit")
    /\ final' = TRUE
    /\ UNCHANGED <<done, deferred, workerVars, taken, attemptVars, chanVars,
                   fwdVars, callerVars, histVars>>

(***************************************************************************)
(* postHookRunner: a plugin may leave the chunk, skip it, recover from its *)
(* error or replace it by one.                                             *)
(***************************************************************************)
RunPostHooks(i) ==
    /\ prov[i].pc = "hook"
    /\ misused' = IF pipe[i] = "held" THEN misused ELSE misused \union {i}
    /\ settled' = IF final THEN settled \union {i} ELSE settled
    /\ \/ \E class \in {prov[i].class, "data", "error"} :
             prov' = [prov EXCEPT ![i].pc = "send", ![i].class = class]
       \/ Continue(i, "complete")
    /\ UNCHANGED <<ctxVars, workerVars, taken, attemptVars, chanVars, fwdVars,
                   callerVars, stale>>

(* GateSendChunk, when no plugin has engaged the gate.                     *)
SendChunk(i) ==
    /\ prov[i].pc = "send" /\ Len(chan[i].queue) < Buffer
    /\ chan' = [chan EXCEPT ![i].queue = Append(@, [no |-> sent[i] + 1, class |-> prov[i].class])]
    /\ sent' = [sent EXCEPT ![i] = @ + 1]
    /\ Continue(i, "complete")
    /\ UNCHANGED <<ctxVars, workerVars, taken, attemptVars, fwdVars,
                   callerVars, histVars>>

(* ProcessAndSendResponse returns where the send fails.                    *)
SendFails(i) ==
    /\ prov[i].pc = "send" /\ done
    /\ IF prov[i].call = "Response" THEN Goto(i, prov[i].next) ELSE Continue(i, "complete")
    /\ UNCHANGED <<ctxVars, workerVars, taken, attemptVars, chanVars, fwdVars,
                   callerVars, histVars>>

(***************************************************************************)
(* completeDeferredSpan after the last chunk, which returns at once if the *)
(* trace store has no span (yet).  ProcessAndSendError does not call it.   *)
(***************************************************************************)
CompleteDeferredSpan(i) ==
    /\ prov[i].pc = "complete"
    /\ Goto(i, prov[i].next)
    /\ IF final /\ prov[i].call # "Error" /\ deferred # 0
       THEN /\ pipe' = Finalized(i)
            /\ span' = [span EXCEPT ![deferred] = "ended"]
            /\ deferred' = 0
       ELSE UNCHANGED <<pipe, span, deferred>>
    /\ UNCHANGED <<done, final, workerVars, taken, chanVars, fwdVars,
                   callerVars, histVars>>

(***************************************************************************)
(* The deferred calls: HandleStreamCancellation or HandleStreamTimeout if  *)
(* the context is done, which process an error of their own unless the     *)
(* indicator is set; then CloseStream; then EnsureStreamFinalizerCalled.   *)
(***************************************************************************)
LeaveUnsettled(i) ==                                           \* (mutant)
    /\ prov[i].pc = "exit"
    /\ Goto(i, "close")
    /\ UNCHANGED <<ctxVars, workerVars, taken, attemptVars, chanVars, fwdVars,
                   callerVars, histVars>>

HandleStreamEnd(i) ==
    /\ prov[i].pc = "exit"
    /\ IF done /\ ~final
       THEN /\ \E class \in Failures : Process(i, class, "BifrostError", "close")
            /\ final' = TRUE
       ELSE Goto(i, "close") /\ UNCHANGED final
    /\ UNCHANGED <<done, deferred, workerVars, taken, attemptVars, chanVars,
                   fwdVars, callerVars, histVars>>

CloseStream(i) ==
    /\ prov[i].pc = "close"
    /\ chan' = [chan EXCEPT ![i].closed = TRUE]
    /\ Goto(i, "finalize")
    /\ UNCHANGED <<ctxVars, workerVars, taken, attemptVars, sent, fwdVars,
                   callerVars, histVars>>

EnsureNothing(i) ==                                            \* (mutant)
    /\ prov[i].pc = "finalize"
    /\ Goto(i, "over")
    /\ UNCHANGED <<ctxVars, workerVars, taken, attemptVars, chanVars, fwdVars,
                   callerVars, histVars>>

EnsureFinalizer(i) ==
    /\ prov[i].pc = "finalize"
    /\ pipe' = Finalized(i)
    /\ Goto(i, "over")
    /\ UNCHANGED <<ctxVars, workerVars, taken, span, chanVars, fwdVars,
                   callerVars, histVars>>

Provider(i) ==
    \/ StopReading(i) \/ ReadChunk(i) \/ ReadLast(i)
    \/ RunPostHooks(i) \/ SendChunk(i) \/ SendFails(i) \/ CompleteDeferredSpan(i)
    \/ HandleStreamEnd(i) \/ CloseStream(i) \/ EnsureFinalizer(i)

-----------------------------------------------------------------------------
(* The worker.                                                             *)

(* The next attempt starts its stream.                                     *)
Attempt ==
    /\ wpc = "begin" /\ n < MaxAttempts
    /\ n' = n + 1
    /\ pipe' = [pipe EXCEPT ![n + 1] = "held"]
    /\ span' = [span EXCEPT ![n + 1] = "open"]
    /\ prov' = [prov EXCEPT ![n + 1].pc = "read"]
    /\ stale' = IF final THEN stale \union {n + 1} ELSE stale
    /\ wpc' = "check"
    /\ read' = <<>>
    /\ UNCHANGED <<ctxVars, verdict, result, taken, chanVars, fwdVars,
                   callerVars, misused, settled>>

(* No stream, and no goroutine: the pipeline is released at once.          *)
SetupFails ==
    /\ wpc = "begin" /\ n < MaxAttempts
    /\ n' = n + 1
    /\ pipe' = [pipe EXCEPT ![n + 1] = "pooled"]
    /\ span' = [span EXCEPT ![n + 1] = "ended"]
    /\ verdict' \in Failures
    /\ wpc' = "failed"
    /\ UNCHANGED <<ctxVars, read, result, provVars, chanVars, fwdVars,
                   callerVars, histVars>>

(* No key for this attempt.                                                *)
SelectionFails ==
    /\ wpc = "begin"
    /\ wpc' = "fatal"
    /\ UNCHANGED <<ctxVars, n, verdict, read, result, provVars, attemptVars,
                   chanVars, fwdVars, callerVars, histVars>>

(***************************************************************************)
(* CheckFirstStreamChunkForError reads up to the first output.             *)
(***************************************************************************)
TakeHead(i) == chan' = [chan EXCEPT ![i].queue = Tail(@)]

CheckError ==
    /\ wpc = "check" /\ chan[n].queue # <<>>
    /\ Head(chan[n].queue).class \in Failures
    /\ TakeHead(n)
    /\ verdict' = Head(chan[n].queue).class
    /\ wpc' = "drain"
    /\ UNCHANGED <<ctxVars, n, read, result, provVars, attemptVars, sent,
                   fwdVars, callerVars, histVars>>

CheckPre ==
    /\ wpc = "check" /\ chan[n].queue # <<>>
    /\ Head(chan[n].queue).class = "pre"
    /\ TakeHead(n)
    /\ read' = Append(read, Head(chan[n].queue).no)
    /\ UNCHANGED <<ctxVars, wpc, n, verdict, result, provVars, attemptVars,
                   sent, fwdVars, callerVars, histVars>>

(* The first output behind what was read before it; (mutant) alone.        *)
FirstOutputOnly == <<Head(chan[n].queue).no>>
Wrapped == Append(read, Head(chan[n].queue).no)

CheckData ==
    /\ wpc = "check" /\ chan[n].queue # <<>>
    /\ Head(chan[n].queue).class = "data"
    /\ TakeHead(n)
    /\ out' = Wrapped
    /\ fwd' = "pass"
    /\ wpc' = "store"
    /\ UNCHANGED <<ctxVars, n, verdict, read, result, provVars, attemptVars,
                   sent, hand, outClosed, callerVars, histVars>>

(* The stream ends before any output: what there is, or no stream at all.  *)
CheckEnd ==
    /\ wpc = "check" /\ Exhausted(n)
    /\ IF read # <<>>
       THEN /\ out' = read /\ outClosed' = TRUE /\ wpc' = "store"
            /\ UNCHANGED <<result, span>>
       ELSE /\ result' = "nil" /\ wpc' = "deliver"
            /\ span' = [span EXCEPT ![n] = "ended"]
            /\ UNCHANGED <<out, outClosed>>
    /\ UNCHANGED <<ctxVars, n, verdict, read, provVars, pipe, chanVars, fwd,
                   hand, callerVars, histVars>>

(* drainStream, until the goroutine has closed its channel.                *)
Drain ==
    /\ wpc = "drain" /\ chan[n].queue # <<>>
    /\ TakeHead(n)
    /\ UNCHANGED <<ctxVars, workerVars, provVars, attemptVars, sent, fwdVars,
                   callerVars, histVars>>

(* The attempt is discarded with its channel; (mutant) before the          *)
(* goroutine has closed it.                                                *)
DrainedEarly == wpc = "drain"
Drained == wpc = "drain" /\ Exhausted(n)

DrainDone ==
    /\ Drained
    /\ span' = [span EXCEPT ![n] = "ended"]
    /\ wpc' = "failed"
    /\ UNCHANGED <<ctxVars, n, verdict, read, result, provVars, pipe,
                   chanVars, fwdVars, callerVars, histVars>>

(* The same message again.  The end indicator is left as it is.            *)
Retry ==
    /\ wpc = "failed" /\ verdict = "error"
    /\ wpc' = "begin"
    /\ UNCHANGED <<ctxVars, n, verdict, read, result, provVars, attemptVars,
                   chanVars, fwdVars, callerVars, histVars>>

GiveUp ==
    /\ wpc = "failed"
    /\ wpc' = "fatal"
    /\ UNCHANGED <<ctxVars, n, verdict, read, result, provVars, attemptVars,
                   chanVars, fwdVars, callerVars, histVars>>

(* lastAttemptFinalizer of the worker.                                     *)
FinalizeLast ==
    /\ wpc = "fatal"
    /\ pipe' = IF n > 0 THEN Finalized(n) ELSE pipe
    /\ result' = "error"
    /\ wpc' = "deliver"
    /\ UNCHANGED <<ctxVars, n, verdict, read, provVars, span, chanVars,
                   fwdVars, callerVars, histVars>>

StoreDeferredSpan ==
    /\ wpc = "store"
    /\ deferred' = n
    /\ result' = "stream"
    /\ wpc' = "deliver"
    /\ UNCHANGED <<done, final, n, verdict, read, provVars, attemptVars,
                   chanVars, fwdVars, callerVars, histVars>>

Worker ==
    \/ Attempt \/ SetupFails \/ SelectionFails
    \/ CheckError \/ CheckPre \/ CheckData \/ CheckEnd \/ Drain \/ DrainDone
    \/ Retry \/ GiveUp \/ FinalizeLast \/ StoreDeferredSpan

-----------------------------------------------------------------------------
(* The forwarder: from the attempt's channel to the caller's.              *)

Capacity == IF Len(read) + 1 > Buffer THEN Len(read) + 1 ELSE Buffer

ForwardTake ==
    /\ fwd = "pass" /\ hand = <<>> /\ chan[n].queue # <<>>
    /\ TakeHead(n)
    /\ hand' = <<Head(chan[n].queue).no>>
    /\ UNCHANGED <<ctxVars, workerVars, provVars, attemptVars, sent, fwd, out,
                   outClosed, callerVars, histVars>>

ForwardPut ==
    /\ fwd = "pass" /\ hand # <<>> /\ Len(out) < Capacity
    /\ out' = out \o hand
    /\ hand' = <<>>
    /\ UNCHANGED <<ctxVars, workerVars, provVars, attemptVars, chanVars, fwd,
                   outClosed, callerVars, histVars>>

(* The caller is gone: let the goroutine run out.                          *)
ForwardAbandon ==
    /\ fwd = "pass" /\ hand # <<>> /\ done
    /\ hand' = <<>>
    /\ fwd' = "drain"
    /\ UNCHANGED <<ctxVars, workerVars, provVars, attemptVars, chanVars, out,
                   outClosed, callerVars, histVars>>

ForwardDrain ==
    /\ fwd = "drain" /\ chan[n].queue # <<>>
    /\ TakeHead(n)
    /\ UNCHANGED <<ctxVars, workerVars, provVars, attemptVars, sent, fwdVars,
                   callerVars, histVars>>

ForwardEnd ==
    /\ fwd \in {"pass", "drain"} /\ hand = <<>> /\ Exhausted(n)
    /\ outClosed' = TRUE
    /\ fwd' = "over"
    /\ UNCHANGED <<ctxVars, workerVars, provVars, attemptVars, chanVars, hand,
                   out, callerVars, histVars>>

Forwarder ==
    \/ ForwardTake \/ ForwardPut \/ ForwardAbandon \/ ForwardDrain \/ ForwardEnd

-----------------------------------------------------------------------------
(* The caller.                                                             *)

ReceiveStream ==
    /\ cpc = "wait" /\ wpc = "deliver" /\ result \in {"stream", "nil"}
    /\ wpc' = "idle"
    /\ cpc' = IF result = "stream" THEN "reading" ELSE "over"
    /\ UNCHANGED <<ctxVars, n, verdict, read, result, provVars, attemptVars,
                   chanVars, fwdVars, received, histVars>>

(***************************************************************************)
(* tryStreamRequest marks the error as the end, runs its own post hooks,   *)
(* and returns it; handleStreamRequest may take a fallback, whose context  *)
(* clearCtxForFallback has cleaned.                                        *)
(***************************************************************************)
ReceiveError ==
    /\ cpc = "wait" /\ wpc = "deliver" /\ result = "error"
    /\ \/ final' = FALSE /\ wpc' = "begin" /\ UNCHANGED cpc
       \/ final' = TRUE /\ wpc' = "idle" /\ cpc' = "over"
    /\ result' = "none"
    /\ UNCHANGED <<done, deferred, n, verdict, read, provVars, attemptVars,
                   chanVars, fwdVars, received, histVars>>

(* The context ends the wait; the worker then finds nobody.                *)
Leave ==
    /\ cpc = "wait" /\ done
    /\ cpc' = "over"
    /\ UNCHANGED <<ctxVars, workerVars, provVars, attemptVars, chanVars,
                   fwdVars, received, histVars>>

DeliverFails ==
    /\ wpc = "deliver" /\ done
    /\ wpc' = "idle"
    /\ UNCHANGED <<ctxVars, n, verdict, read, result, provVars, attemptVars,
                   chanVars, fwdVars, callerVars, histVars>>

ReadOut ==
    /\ cpc = "reading" /\ out # <<>>
    /\ received' = Append(received, Head(out))
    /\ out' = Tail(out)
    /\ UNCHANGED <<ctxVars, workerVars, provVars, attemptVars, chanVars, fwd,
                   hand, outClosed, cpc, histVars>>

ReadEnd ==
    /\ cpc = "reading" /\ out = <<>> /\ outClosed
    /\ cpc' = "over"
    /\ UNCHANGED <<ctxVars, workerVars, provVars, attemptVars, chanVars,
                   fwdVars, received, histVars>>

Caller ==
    \/ ReceiveStream \/ ReceiveError \/ Leave \/ ReadOut \/ ReadEnd

(* The client disconnects or the deadline passes.                          *)
CtxDone ==
    /\ ~done
    /\ done' = TRUE
    /\ UNCHANGED <<final, deferred, workerVars, provVars, attemptVars,
                   chanVars, fwdVars, callerVars, histVars>>

Next ==
    \/ \E i \in Attempts : Provider(i)
    \/ Worker
    \/ Forwarder
    \/ Caller \/ DeliverFails
    \/ CtxDone

Spec == Init /\ [][Next]_vars

(***************************************************************************)
(* Goroutines that can run do run.  The provider's stream ends (its reads  *)
(* have an idle timeout), and a caller reads what it is given, unless its  *)
(* context ends.                                                           *)
(***************************************************************************)
Fairness ==
    /\ \A i \in Attempts : WF_vars(Provider(i))
    /\ WF_vars(Worker)
    /\ WF_vars(Forwarder)
    /\ WF_vars(Caller) /\ WF_vars(DeliverFails)

FairSpec == Spec /\ Fairness

-----------------------------------------------------------------------------
Chunks == [no : Nat, class : Classes]

TypeOK ==
    /\ done \in BOOLEAN
    /\ final \in BOOLEAN /\ deferred \in 0..n
    /\ wpc \in {"begin", "check", "drain", "failed", "fatal", "store", "deliver", "idle"}
    /\ n \in 0..MaxAttempts
    /\ verdict \in Failures /\ read \in Seq(Nat)
    /\ result \in {"none", "stream", "nil", "error"}
    /\ prov \in [Attempts ->
          [pc : {"off", "read", "hook", "send", "complete", "exit", "close",
                 "finalize", "over"},
           class : Classes, call : Calls, next : Nexts]]
    /\ taken \in [Attempts -> 0..MaxChunks]
    /\ pipe \in [Attempts -> {"none", "held", "pooled"}]
    /\ chan \in [Attempts -> [queue : Seq(Chunks), closed : BOOLEAN]]
    /\ span \in [Attempts -> {"none", "open", "ended"}]
    /\ fwd \in {"off", "pass", "drain", "over"}
    /\ hand \in Seq(Nat) /\ out \in Seq(Nat) /\ outClosed \in BOOLEAN
    /\ cpc \in {"wait", "reading", "over"} /\ received \in Seq(Nat)
    /\ sent \in [Attempts -> Nat]
    /\ stale \subseteq Attempts /\ misused \subseteq Attempts /\ settled \subseteq Attempts

(***************************************************************************)
(* The post hooks of an attempt run on its pipeline before the finalizer   *)
(* has returned it to the pool, whoever calls the finalizer: the last      *)
(* chunk, the goroutine's deferred call or the worker.  A retry that       *)
(* begins with the end indicator set is the exception.                     *)
(***************************************************************************)
HooksHoldPipeline == misused \subseteq stale

(***************************************************************************)
(* The caller reads the chunks of the attempt that was not discarded, in   *)
(* order, those CheckFirstStreamChunkForError looked at included; while    *)
(* its context is alive none is lost on the way.                           *)
(***************************************************************************)
Chosen == fwd # "off" \/ outClosed
InChannel(i) == [k \in 1..Len(chan[i].queue) |-> chan[i].queue[k].no]
Way == received \o out \o hand \o InChannel(n)

ChunksDelivered ==
    Chosen =>
        /\ received = [k \in 1..Len(received) |-> k]
        /\ ~done => Way = [k \in 1..sent[n] |-> k]

(***************************************************************************)
(* Every pipeline returns to the pool, whatever ends the attempt.          *)
(***************************************************************************)
PipelinesReturn == \A i \in Attempts : pipe[i] = "held" ~> pipe[i] = "pooled"

(***************************************************************************)
(* The post hooks of every stream that starts see a last chunk, from which *)
(* they bill and log it, also where the client leaves: this is why         *)
(* billAbandonedTerminal has nothing to do for streams.                    *)
(***************************************************************************)
StreamsSettled ==
    \A i \in Attempts : prov[i].pc # "off" /\ i \notin stale ~> i \in settled

(***************************************************************************)
(* "If they were request-scoped, a retry triggered by                      *)
(* CheckFirstStreamChunkForError could run against a pipeline the previous *)
(* attempt's provider goroutine has already returned to the pool", says    *)
(* the comment on the pipelines in requestWorker: no hooks run on a        *)
(* pipeline that was returned.                                             *)
(***************************************************************************)
NoHooksOnReturnedPipeline == misused = {}

(* Every stream's hooks see a last chunk, those of retries included.       *)
EveryStreamSettled ==
    \A i \in Attempts : prov[i].pc # "off" ~> i \in settled

(***************************************************************************)
(* "It also completes the deferred LLM span when the final chunk is sent", *)
(* says the comment on ProcessAndSendResponse.                             *)
(***************************************************************************)
SpansEnd == \A i \in Attempts : span[i] = "open" ~> span[i] = "ended"

=============================================================================
