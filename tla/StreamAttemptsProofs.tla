------------------------- MODULE StreamAttemptsProofs -------------------------
(***************************************************************************)
(* Proofs about StreamAttempts, for every number of attempts and chunks    *)
(* and every capacity of the channels.                                     *)
(*                                                                         *)
(* The argument is about who is at work.  An attempt's goroutine runs      *)
(* hooks only before it has closed its channel, and the worker begins      *)
(* another attempt, or finalizes the last one, only after that.  So at     *)
(* most one goroutine is at work, and unless it began with the end         *)
(* indicator set, the indicator tells whether its last chunk has been      *)
(* read.                                                                   *)
(*                                                                         *)
(* The second part counts the chunks of the attempt whose stream is        *)
(* chosen: what the caller read, the forwarder's output, its hand and the  *)
(* channel are consecutive pieces of 1, 2, 3, ...                          *)
(***************************************************************************)
EXTENDS StreamAttempts, SequenceTheorems, TLAPS

Procs ==
    [pc : {"off", "read", "hook", "send", "complete", "exit", "close",
           "finalize", "over"},
     class : Classes, call : Calls, next : Nexts]
Channels == [queue : Seq(Chunks), closed : BOOLEAN]

(* The type invariant, in the groups of variables that the actions name.   *)
CtxType == done \in BOOLEAN /\ final \in BOOLEAN
WorkerType ==
    /\ wpc \in {"begin", "check", "drain", "failed", "fatal", "store", "deliver", "idle"}
    /\ n \in 0..MaxAttempts /\ deferred \in 0..n
    /\ verdict \in Failures /\ read \in Seq(Nat)
    /\ result \in {"none", "stream", "nil", "error"}
ProvType == prov \in [Attempts -> Procs] /\ taken \in [Attempts -> 0..MaxChunks]
AttemptType ==
    /\ pipe \in [Attempts -> {"none", "held", "pooled"}]
    /\ span \in [Attempts -> {"none", "open", "ended"}]
ChanType == chan \in [Attempts -> Channels] /\ sent \in [Attempts -> Nat]
FwdType ==
    /\ fwd \in {"off", "pass", "drain", "over"}
    /\ hand \in Seq(Nat) /\ out \in Seq(Nat) /\ outClosed \in BOOLEAN
CallerType == cpc \in {"wait", "reading", "over"} /\ received \in Seq(Nat)
HistType == stale \subseteq Attempts /\ misused \subseteq Attempts /\ settled \subseteq Attempts

(* Who reads a channel reads that of an attempt.                           *)
Started == wpc \in {"check", "drain", "store"} \/ fwd \in {"pass", "drain"} => n > 0

Typed ==
    /\ CtxType /\ WorkerType /\ ProvType /\ AttemptType
    /\ ChanType /\ FwdType /\ CallerType /\ HistType
    /\ Started

LEMMA TypeParts == Typed => TypeOK
BY DEF Typed, CtxType, WorkerType, ProvType, AttemptType, ChanType, FwdType, CallerType,
       HistType, TypeOK, Procs, Channels

(* A goroutine that is at work has not closed its channel.                 *)
Active(i) == prov[i].pc \notin {"off", "finalize", "over"}
BetweenAttempts == wpc \in {"begin", "failed", "fatal"} \/ (wpc = "deliver" /\ result = "error")
OneAtWork ==
    /\ \A i \in Attempts : Active(i) => i = n /\ ~chan[i].closed /\ ~BetweenAttempts
    /\ \A i \in Attempts : i > n => ~chan[i].closed /\ prov[i] = At("off")

(* Of an attempt that began with a clear indicator: while it still reads   *)
(* the indicator is clear, and until then, and with a chunk in its hands,  *)
(* it has its pipeline.                                                    *)
InHand(i) == prov[i].pc \in {"hook", "send", "complete"}
Reading(i) == prov[i].pc = "read" \/ (InHand(i) /\ prov[i].next = "read")
HeldInHand ==
    \A i \in Attempts \ stale :
        Active(i) => /\ Reading(i) => ~final
                     /\ InHand(i) \/ ~final => pipe[i] = "held"

FinalizerInv == Typed /\ OneAtWork /\ HeldInHand /\ HooksHoldPipeline

-----------------------------------------------------------------------------
(* Types.                                                                  *)
LEMMA InitTyped == Init => Typed
<1> SUFFICES ASSUME Init PROVE Typed
  OBVIOUS
<1>1. \A i \in Attempts : At("off") \in Procs
  BY DEF At, Procs, Classes, Calls, Nexts
<1>2. [queue |-> <<>>, closed |-> FALSE] \in Channels
  BY DEF Channels
<1>3. CallerType /\ HistType
  <2>1. cpc = "wait" /\ received = <<>> /\ stale = {} /\ misused = {} /\ settled = {}
    BY DEF Init
  <2> QED
    BY <2>1 DEF CallerType, HistType
<1>8. FwdType /\ CtxType
  <2>1. /\ fwd = "off" /\ hand = <<>> /\ out = <<>> /\ outClosed = FALSE
        /\ done = FALSE /\ final = FALSE
    BY DEF Init
  <2>2. {outClosed, done, final} \subseteq BOOLEAN
    BY <2>1
  <2> QED
    BY <2>1, <2>2 DEF FwdType, CtxType
<1>7. AttemptType
  BY DEF Init, AttemptType
<1>4. WorkerType /\ Started
  BY AttemptsAssumption DEF Init, WorkerType, Started, Failures
<1>5. ProvType
  BY <1>1, ChunksAssumption DEF Init, ProvType
<1>6. ChanType
  BY <1>2 DEF Init, ChanType
<1> QED
  BY <1>3, <1>4, <1>5, <1>6, <1>7, <1>8 DEF Typed

(* One goroutine moves.                                                    *)
LEMMA PutProc ==
    ASSUME ProvType, NEW i \in Attempts, NEW p \in Procs
    PROVE  LET q == [prov EXCEPT ![i] = p] IN
           /\ q \in [Attempts -> Procs] /\ q[i] = p
           /\ \A j \in Attempts : j # i => q[j] = prov[j]
BY DEF ProvType

(* What a goroutine does, for the invariants below: where it goes, and     *)
(* what happens to the indicator, its channel and its pipeline.            *)
Moved(i, pc, next) ==
    /\ prov'[i].pc = pc /\ prov'[i].next = next
    /\ \A j \in Attempts : j # i => prov'[j] = prov[j]

LEMMA GoesTo ==
    ASSUME ProvType, NEW i \in Attempts,
           NEW pc \in {"off", "read", "hook", "send", "complete", "exit", "close", "finalize", "over"},
           taken' \in [Attempts -> 0..MaxChunks]
    PROVE  /\ Goto(i, pc) => ProvType' /\ Moved(i, pc, "read")
           /\ Continue(i, pc) => ProvType' /\ Moved(i, pc, prov[i].next)
           /\ \A class \in Classes : prov' = [prov EXCEPT ![i].pc = pc, ![i].class = class] =>
                  ProvType' /\ Moved(i, pc, prov[i].next)
<1>1. prov[i] \in Procs
  BY DEF ProvType
<1>2. ASSUME Goto(i, pc) PROVE ProvType' /\ Moved(i, pc, "read")
  <2>1. prov' = [prov EXCEPT ![i] = At(pc)]
    BY <1>2 DEF Goto
  <2>2. At(pc) \in Procs /\ At(pc).pc = pc /\ At(pc).next = "read"
    BY DEF At, Procs, Classes, Calls, Nexts
  <2> QED
    BY <2>1, <2>2, PutProc DEF ProvType, Moved
<1>3. ASSUME Continue(i, pc) PROVE ProvType' /\ Moved(i, pc, prov[i].next)
  <2> DEFINE q == [prov[i] EXCEPT !.pc = pc]
  <2>1. prov' = [prov EXCEPT ![i] = q]
    BY <1>3 DEF Continue
  <2>2. q \in Procs /\ q.pc = pc /\ q.next = prov[i].next
    BY <1>1 DEF Procs
  <2> HIDE DEF q
  <2> QED
    BY <2>1, <2>2, PutProc DEF ProvType, Moved
<1>4. ASSUME NEW class \in Classes, prov' = [prov EXCEPT ![i].pc = pc, ![i].class = class]
      PROVE  ProvType' /\ Moved(i, pc, prov[i].next)
  <2> DEFINE q == [prov[i] EXCEPT !.pc = pc, !.class = class]
  <2>1. prov' = [prov EXCEPT ![i] = q]
    BY <1>4 DEF ProvType
  <2>2. q \in Procs /\ q.pc = pc /\ q.next = prov[i].next
    BY <1>1 DEF Procs
  <2> HIDE DEF q
  <2> QED
    BY <2>1, <2>2, PutProc DEF ProvType, Moved
<1> QED
  BY <1>2, <1>3, <1>4

LEMMA Processes ==
    ASSUME ProvType, NEW i \in Attempts, NEW class \in Classes, NEW callee \in Calls,
           NEW next \in Nexts, taken' \in [Attempts -> 0..MaxChunks], Process(i, class, callee, next)
    PROVE  ProvType' /\ Moved(i, "hook", next)
<1> DEFINE q == [pc |-> "hook", class |-> class, call |-> callee, next |-> next]
<1>1. prov' = [prov EXCEPT ![i] = q]
  BY DEF Process
<1>2. q \in Procs /\ q.pc = "hook" /\ q.next = next
  BY DEF Procs
<1> HIDE DEF q
<1> QED
  BY <1>1, <1>2, PutProc DEF ProvType, Moved

(* The finalizer releases a pipeline that is held.                         *)
LEMMA Finalizes ==
    ASSUME AttemptType, NEW i \in Attempts
    PROVE  /\ Finalized(i) \in [Attempts -> {"none", "held", "pooled"}]
           /\ \A j \in Attempts : j # i => Finalized(i)[j] = pipe[j]
BY DEF AttemptType, Finalized

(***************************************************************************)
(* The moves of a goroutine, by where it is.  Only CloseStream touches a   *)
(* closed flag, and the indicator is never cleared here.                   *)
(***************************************************************************)
ProviderMoves(i) ==
    /\ UNCHANGED <<wpc, n, result, stale>>
    /\ \A j \in Attempts : chan'[j].closed <=> (chan[j].closed \/ (j = i /\ prov[i].pc = "close"))
    /\ \A j \in Attempts : j # i => pipe'[j] = pipe[j]
    /\ misused' \subseteq misused \union {i}
    /\ i \in misused' /\ i \notin misused => prov[i].pc = "hook" /\ pipe[i] # "held"
    /\ \/ /\ prov[i].pc = "read" /\ pipe' = pipe
          /\ \/ Moved(i, "exit", "read") /\ final' = final
             \/ Moved(i, "hook", "read") /\ final' = final
             \/ Moved(i, "hook", "exit") /\ final'
       \/ /\ prov[i].pc = "hook" /\ pipe' = pipe /\ final' = final
          /\ \E pc \in {"send", "complete"} : Moved(i, pc, prov[i].next)
       \/ /\ prov[i].pc = "send" /\ pipe' = pipe /\ final' = final
          /\ Moved(i, "complete", prov[i].next) \/ Moved(i, prov[i].next, "read")
       \/ /\ prov[i].pc = "complete" /\ (pipe' = pipe \/ final) /\ final' = final
          /\ Moved(i, prov[i].next, "read")
       \/ /\ prov[i].pc = "exit" /\ pipe' = pipe
          /\ \/ ~final /\ final' /\ Moved(i, "hook", "close")
             \/ final' = final /\ Moved(i, "close", "read")
       \/ prov[i].pc = "close" /\ pipe' = pipe /\ final' = final /\ Moved(i, "finalize", "read")
       \/ prov[i].pc = "finalize" /\ final' = final /\ Moved(i, "over", "read")

LEMMA ReadMoves ==
    ASSUME Typed, NEW i \in Attempts, StopReading(i) \/ ReadChunk(i) \/ ReadLast(i)
    PROVE  Typed' /\ ProviderMoves(i)
<1>1. /\ prov[i].pc = "read"
      /\ UNCHANGED <<done, deferred, workerVars, attemptVars, chanVars, fwdVars, callerVars, histVars>>
  BY DEF StopReading, ReadChunk, ReadLast, ctxVars
<1>2. taken' \in [Attempts -> 0..MaxChunks]
  BY ChunksAssumption DEF Typed, ProvType, StopReading, ReadChunk, ReadLast
<1>3. /\ ProvType'
      /\ \/ Moved(i, "exit", "read") /\ final' = final
         \/ Moved(i, "hook", "read") /\ final' = final
         \/ Moved(i, "hook", "exit") /\ final' = TRUE
  <2>1. CASE StopReading(i)
    BY <1>2, <2>1, GoesTo DEF Typed, StopReading, ctxVars
  <2>2. CASE ReadChunk(i)
    <3>1. PICK class \in {"pre", "data"} : Process(i, class, "Response", "read")
      BY <2>2 DEF ReadChunk
    <3>2. ProvType' /\ Moved(i, "hook", "read")
      BY <1>2, <3>1, Processes DEF Typed, Classes, Calls, Nexts
    <3> QED
      BY <2>2, <3>2 DEF ReadChunk, ctxVars
  <2>3. CASE ReadLast(i)
    <3>1. PICK class \in Classes, callee \in Calls : Process(i, class, callee, "exit")
      BY <2>3 DEF ReadLast, Classes, Calls, Failures
    <3>2. ProvType' /\ Moved(i, "hook", "exit")
      BY <1>2, <3>1, Processes DEF Typed, Nexts
    <3> QED
      BY <2>3, <3>2 DEF ReadLast
  <2> QED
    BY <2>1, <2>2, <2>3
<1>4. done' \in BOOLEAN /\ final' \in BOOLEAN
  BY <1>1, <1>3 DEF Typed, CtxType
<1>5. Typed'
  BY <1>1, <1>3, <1>4 DEF Typed, CtxType, WorkerType, AttemptType, ChanType, FwdType, CallerType,
     HistType, Started, workerVars, attemptVars, chanVars, fwdVars, callerVars, histVars
<1>6. \A j \in Attempts : chan'[j].closed <=> (chan[j].closed \/ (j = i /\ prov[i].pc = "close"))
  BY <1>1 DEF Typed, ChanType, Channels, chanVars
<1> QED
  BY <1>1, <1>3, <1>5, <1>6 DEF ProviderMoves, workerVars, attemptVars, histVars

(* The post hooks run; a pipeline that is released is misused.              *)
LEMMA HookMoves ==
    ASSUME Typed, NEW i \in Attempts, RunPostHooks(i)
    PROVE  Typed' /\ ProviderMoves(i)
<1>1. /\ prov[i].pc = "hook"
      /\ UNCHANGED <<ctxVars, workerVars, taken, attemptVars, chanVars, fwdVars, callerVars, stale>>
      /\ misused' = IF pipe[i] = "held" THEN misused ELSE misused \union {i}
      /\ settled' = IF final THEN settled \union {i} ELSE settled
  BY DEF RunPostHooks
<1>2. ProvType' /\ \E pc \in {"send", "complete"} : Moved(i, pc, prov[i].next)
  <2>1. taken' \in [Attempts -> 0..MaxChunks] /\ prov[i].class \in Classes
    BY <1>1 DEF Typed, ProvType, Procs
  <2>2. CASE \E class \in {prov[i].class, "data", "error"} :
                 prov' = [prov EXCEPT ![i].pc = "send", ![i].class = class]
    <3>1. PICK class \in Classes : prov' = [prov EXCEPT ![i].pc = "send", ![i].class = class]
      BY <2>1, <2>2 DEF Classes
    <3> QED
      BY <2>1, <3>1, GoesTo DEF Typed
  <2>3. CASE Continue(i, "complete")
    BY <2>1, <2>3, GoesTo DEF Typed
  <2> QED
    BY <2>2, <2>3 DEF RunPostHooks
<1>3. Typed'
  <2>1. HistType'
    BY <1>1 DEF Typed, HistType
  <2> QED
    BY <1>1, <1>2, <2>1 DEF Typed, CtxType, WorkerType, AttemptType, ChanType, FwdType, CallerType,
       Started, ctxVars, workerVars, attemptVars, chanVars, fwdVars, callerVars
<1>4. \A j \in Attempts : chan'[j].closed <=> (chan[j].closed \/ (j = i /\ prov[i].pc = "close"))
  BY <1>1 DEF Typed, ChanType, Channels, chanVars
<1> QED
  BY <1>1, <1>2, <1>3, <1>4 DEF ProviderMoves, workerVars, attemptVars, ctxVars

LEMMA SendMoves ==
    ASSUME Typed, NEW i \in Attempts, SendChunk(i) \/ SendFails(i)
    PROVE  Typed' /\ ProviderMoves(i)
<1>1. /\ prov[i].pc = "send"
      /\ UNCHANGED <<ctxVars, workerVars, taken, attemptVars, fwdVars, callerVars, histVars>>
  BY DEF SendChunk, SendFails
<1>2. ProvType' /\ (Moved(i, "complete", prov[i].next) \/ Moved(i, prov[i].next, "read"))
  <2>1. /\ taken' \in [Attempts -> 0..MaxChunks]
        /\ prov[i].next \in {"read", "exit", "close"}
    BY <1>1 DEF Typed, ProvType, Procs, Nexts
  <2>2. Continue(i, "complete") \/ Goto(i, prov[i].next)
    BY DEF SendChunk, SendFails
  <2> QED
    BY <2>1, <2>2, GoesTo DEF Typed
<1>3. ChanType' /\ \A j \in Attempts : (chan'[j].closed <=> chan[j].closed)
  <2>1. CASE SendChunk(i)
    <3> DEFINE c == [no |-> sent[i] + 1, class |-> prov[i].class]
               q == [chan[i] EXCEPT !.queue = Append(@, c)]
    <3>1. c \in Chunks
      BY DEF Typed, ProvType, ChanType, Procs, Chunks
    <3>2. chan[i] \in Channels
      BY DEF Typed, ChanType
    <3>3. q \in Channels /\ q.closed = chan[i].closed
      BY <3>1, <3>2, AppendProperties DEF Channels
    <3>4. chan' = [chan EXCEPT ![i] = q] /\ sent' = [sent EXCEPT ![i] = @ + 1]
      BY <2>1 DEF SendChunk
    <3> HIDE DEF q
    <3> QED
      BY <3>3, <3>4 DEF Typed, ChanType
  <2>2. CASE SendFails(i)
    BY <2>2 DEF SendFails, chanVars, Typed, ChanType
  <2> QED
    BY <2>1, <2>2
<1>4. Typed'
  BY <1>1, <1>2, <1>3 DEF Typed, CtxType, WorkerType, AttemptType, FwdType, CallerType, HistType,
     Started, ctxVars, workerVars, attemptVars, fwdVars, callerVars, histVars
<1>5. \A j \in Attempts : chan'[j].closed <=> (chan[j].closed \/ (j = i /\ prov[i].pc = "close"))
  BY <1>1, <1>3 DEF Typed, ChanType, Channels
<1> QED
  BY <1>1, <1>2, <1>4, <1>5 DEF ProviderMoves, workerVars, attemptVars, ctxVars, histVars

LEMMA CompleteMoves ==
    ASSUME Typed, NEW i \in Attempts, CompleteDeferredSpan(i)
    PROVE  Typed' /\ ProviderMoves(i)
<1>1. /\ prov[i].pc = "complete" /\ Goto(i, prov[i].next)
      /\ UNCHANGED <<done, final, workerVars, taken, chanVars, fwdVars, callerVars, histVars>>
  BY DEF CompleteDeferredSpan
<1>2. \/ /\ final /\ pipe' = Finalized(i)
         /\ span' = [span EXCEPT ![deferred] = "ended"] /\ deferred' = 0
      \/ UNCHANGED <<pipe, span, deferred>>
  BY DEF CompleteDeferredSpan
<1>3. ProvType' /\ Moved(i, prov[i].next, "read")
  <2>1. /\ taken' \in [Attempts -> 0..MaxChunks]
        /\ prov[i].next \in {"read", "exit", "close"}
    BY <1>1 DEF Typed, ProvType, Procs, Nexts
  <2> QED
    BY <1>1, <2>1, GoesTo DEF Typed
<1>4. AttemptType' /\ \A j \in Attempts : j # i => pipe'[j] = pipe[j]
  BY <1>2, Finalizes DEF Typed, AttemptType
<1>5. WorkerType'
  BY <1>1, <1>2 DEF Typed, WorkerType, workerVars
<1>6. Typed'
  BY <1>1, <1>3, <1>4, <1>5 DEF Typed, CtxType, ChanType, FwdType, CallerType, HistType,
     Started, workerVars, chanVars, fwdVars, callerVars, histVars
<1>7. \A j \in Attempts : chan'[j].closed <=> (chan[j].closed \/ (j = i /\ prov[i].pc = "close"))
  BY <1>1 DEF Typed, ChanType, Channels, chanVars
<1> QED
  BY <1>1, <1>2, <1>3, <1>4, <1>6, <1>7 DEF ProviderMoves, workerVars, histVars

LEMMA EndMoves ==
    ASSUME Typed, NEW i \in Attempts, HandleStreamEnd(i) \/ CloseStream(i) \/ EnsureFinalizer(i)
    PROVE  Typed' /\ ProviderMoves(i)
<1>1. UNCHANGED <<done, deferred, workerVars, taken, span, sent, fwdVars, callerVars, histVars>>
  BY DEF HandleStreamEnd, CloseStream, EnsureFinalizer, ctxVars, attemptVars, chanVars
<1>2. taken' \in [Attempts -> 0..MaxChunks]
  BY <1>1 DEF Typed, ProvType
<1>3. CASE HandleStreamEnd(i)
  <2>1. prov[i].pc = "exit" /\ UNCHANGED <<pipe, chan>>
    BY <1>3 DEF HandleStreamEnd, attemptVars, chanVars
  <2>2. /\ ProvType'
        /\ \/ ~final /\ final' = TRUE /\ Moved(i, "hook", "close")
           \/ final' = final /\ Moved(i, "close", "read")
    <3>1. CASE done /\ ~final
      <4>1. PICK class \in Failures : Process(i, class, "BifrostError", "close")
        BY <1>3, <3>1 DEF HandleStreamEnd
      <4>2. final' = TRUE
        BY <1>3, <3>1 DEF HandleStreamEnd
      <4>3. ProvType' /\ Moved(i, "hook", "close")
        BY <1>2, <4>1, Processes DEF Typed, Classes, Failures, Calls, Nexts
      <4> QED
        BY <3>1, <4>2, <4>3
    <3>2. CASE ~(done /\ ~final)
      <4>1. Goto(i, "close") /\ final' = final
        BY <1>3, <3>2 DEF HandleStreamEnd
      <4> QED
        BY <1>2, <4>1, GoesTo DEF Typed
    <3> QED
      BY <3>1, <3>2
  <2>3. final' \in BOOLEAN
    BY <2>2 DEF Typed, CtxType
  <2>4. Typed'
    BY <1>1, <2>1, <2>2, <2>3 DEF Typed, CtxType, WorkerType, AttemptType, ChanType, FwdType,
       CallerType, HistType, Started, workerVars, fwdVars, callerVars, histVars
  <2>5. \A j \in Attempts : chan'[j].closed <=> (chan[j].closed \/ (j = i /\ prov[i].pc = "close"))
    BY <2>1 DEF Typed, ChanType, Channels
  <2> QED
    BY <1>1, <2>1, <2>2, <2>4, <2>5 DEF ProviderMoves, workerVars, histVars
<1>4. CASE CloseStream(i)
  <2>1. /\ prov[i].pc = "close" /\ UNCHANGED <<pipe, final>> /\ Goto(i, "finalize")
        /\ chan' = [chan EXCEPT ![i].closed = TRUE]
    BY <1>4 DEF CloseStream, attemptVars, ctxVars
  <2>2. ProvType' /\ Moved(i, "finalize", "read")
    BY <1>2, <2>1, GoesTo DEF Typed
  <2>3. ChanType'
    BY <1>1, <2>1 DEF Typed, ChanType, Channels
  <2>4. \A j \in Attempts : chan'[j].closed <=> (chan[j].closed \/ (j = i /\ prov[i].pc = "close"))
    BY <2>1 DEF Typed, ChanType, Channels
  <2>5. Typed'
    BY <1>1, <2>1, <2>2, <2>3 DEF Typed, CtxType, WorkerType, AttemptType, FwdType,
       CallerType, HistType, Started, workerVars, fwdVars, callerVars, histVars
  <2> QED
    BY <1>1, <2>1, <2>2, <2>4, <2>5 DEF ProviderMoves, workerVars, histVars
<1>5. CASE EnsureFinalizer(i)
  <2>1. /\ prov[i].pc = "finalize" /\ UNCHANGED <<chan, final>> /\ Goto(i, "over")
        /\ pipe' = Finalized(i)
    BY <1>5 DEF EnsureFinalizer, chanVars, ctxVars
  <2>2. ProvType' /\ Moved(i, "over", "read")
    BY <1>2, <2>1, GoesTo DEF Typed
  <2>3. AttemptType' /\ \A j \in Attempts : j # i => pipe'[j] = pipe[j]
    BY <1>1, <2>1, Finalizes DEF Typed, AttemptType
  <2>4. \A j \in Attempts : chan'[j].closed <=> (chan[j].closed \/ (j = i /\ prov[i].pc = "close"))
    BY <2>1 DEF Typed, ChanType, Channels
  <2>5. Typed'
    BY <1>1, <2>1, <2>2, <2>3 DEF Typed, CtxType, WorkerType, ChanType, FwdType,
       CallerType, HistType, Started, workerVars, fwdVars, callerVars, histVars
  <2> QED
    BY <1>1, <2>1, <2>2, <2>3, <2>4, <2>5 DEF ProviderMoves, workerVars, histVars
<1> QED
  BY <1>3, <1>4, <1>5

(* The invariant through the moves of a goroutine.                         *)
LEMMA ProviderKeeps ==
    ASSUME FinalizerInv, NEW i \in Attempts, Provider(i)
    PROVE  FinalizerInv'
<1>1. Typed' /\ ProviderMoves(i)
  BY ReadMoves, HookMoves, SendMoves, CompleteMoves, EndMoves DEF FinalizerInv, Provider
<1>2. /\ UNCHANGED <<wpc, n, result, stale>>
      /\ \A j \in Attempts : chan'[j].closed <=> (chan[j].closed \/ (j = i /\ prov[i].pc = "close"))
      /\ \A j \in Attempts : j # i => pipe'[j] = pipe[j] /\ prov'[j] = prov[j]
      /\ misused' \subseteq misused \union {i}
      /\ i \in misused' /\ i \notin misused => prov[i].pc = "hook" /\ pipe[i] # "held"
  BY <1>1 DEF ProviderMoves, Moved
<1>3. prov[i].pc # "off" /\ (prov'[i].pc # "over" => Active(i))
  BY <1>1 DEF ProviderMoves, Moved, Active
<1>4. i <= n
  BY <1>3 DEF FinalizerInv, Typed, WorkerType, Attempts, OneAtWork, At
<1>5. OneAtWork'
  <2>1. Active(i)' => Active(i) /\ prov[i].pc # "close"
    BY <1>1 DEF ProviderMoves, Moved, Active
  <2>2. \A j \in Attempts : Active(j)' => Active(j) /\ (chan'[j].closed <=> chan[j].closed)
    BY <1>2, <2>1 DEF Active
  <2>3. \A j \in Attempts : j > n => (chan'[j].closed <=> chan[j].closed) /\ prov'[j] = prov[j]
    <3>1. \A j \in Attempts : j > n => j # i
      BY <1>4 DEF FinalizerInv, Typed, WorkerType, Attempts
    <3> QED
      BY <1>2, <1>3, <3>1
  <2> QED
    BY <1>2, <2>2, <2>3 DEF FinalizerInv, OneAtWork, BetweenAttempts, At
<1>6. ASSUME NEW j \in Attempts \ stale', Active(j)'
      PROVE  (Reading(j)' => ~final') /\ ((InHand(j) \/ ~final)' => pipe'[j] = "held")
  <2>1. CASE j = i
    <3>1. /\ Active(i)
          /\ Reading(i) => ~final
          /\ InHand(i) \/ ~final => pipe[i] = "held"
      BY <1>2, <1>3, <1>6, <2>1 DEF FinalizerInv, HeldInHand, Active
    <3>2. Active(i)' /\ prov[i].pc # "finalize"
      BY <1>1, <1>6, <2>1 DEF ProviderMoves, Moved, Active
    <3>3. /\ Reading(i)' => Reading(i) /\ final' = final
          /\ (InHand(i) \/ ~final)' =>
                   pipe'[i] = pipe[i] /\ (InHand(i) \/ Reading(i) \/ ~final)
      <4>0. prov[i].next \in {"read", "exit", "close"}
        BY DEF FinalizerInv, Typed, ProvType, Procs, Nexts
      <4> USE <3>2, <4>0 DEF ProviderMoves, Moved, Active, Reading, InHand
      <4>1. CASE prov[i].pc = "read"
        BY <1>1, <4>1
      <4>2. CASE prov[i].pc = "hook"
        BY <1>1, <4>2
      <4>3. CASE prov[i].pc = "send"
        BY <1>1, <4>3
      <4>4. CASE prov[i].pc = "complete"
        BY <1>1, <4>4
      <4>5. CASE prov[i].pc = "exit"
        BY <1>1, <4>5
      <4>6. CASE prov[i].pc = "close"
        BY <1>1, <4>6
      <4> QED
        BY <1>1, <4>1, <4>2, <4>3, <4>4, <4>5, <4>6
    <3> QED
      BY <2>1, <3>1, <3>3
  <2>2. CASE j # i
    <3>1. Active(j) /\ j = n
      BY <1>2, <1>6, <2>2 DEF FinalizerInv, OneAtWork, Active
    <3>2. ~Active(i)
      BY <2>2, <3>1 DEF FinalizerInv, OneAtWork
    <3>3. final' = final
      BY <1>1, <3>2 DEF ProviderMoves, Active
    <3> QED
      BY <1>2, <1>6, <2>2, <3>1, <3>3 DEF FinalizerInv, HeldInHand, Reading, InHand, Active
  <2> QED
    BY <2>1, <2>2
<1>7. HooksHoldPipeline'
  <2>1. i \in misused' /\ i \notin misused => i \in stale
    BY <1>2, <1>3 DEF FinalizerInv, HeldInHand, InHand, Active
  <2> QED
    BY <1>2, <2>1 DEF FinalizerInv, HooksHoldPipeline
<1>8. HeldInHand'
  BY <1>6 DEF HeldInHand
<1> QED
  BY <1>1, <1>5, <1>7, <1>8 DEF FinalizerInv

-----------------------------------------------------------------------------
(* The worker, the forwarder and the caller: they change the indicator and *)
(* the pipelines only between attempts, and get there from an attempt only *)
(* when its goroutine has closed the channel.                              *)
OthersMove ==
    /\ UNCHANGED <<prov, misused, stale>>
    /\ \A j \in Attempts : (chan'[j].closed <=> chan[j].closed)
    /\ n' \in {n, n + 1}
    /\ BetweenAttempts' => BetweenAttempts \/ (n > 0 /\ chan[n].closed)
    /\ BetweenAttempts \/ (n' = n /\ pipe' = pipe /\ final' = final)

LEMMA OthersKeep ==
    ASSUME FinalizerInv, Typed', OthersMove
    PROVE  FinalizerInv'
<1>1. OneAtWork'
  BY DEF FinalizerInv, OneAtWork, OthersMove, Active, Typed, WorkerType, Attempts, At
<1>2. HeldInHand'
  BY DEF FinalizerInv, OneAtWork, HeldInHand, OthersMove, Active, InHand, Reading
<1> QED
  BY <1>1, <1>2 DEF FinalizerInv, HooksHoldPipeline, OthersMove

(* Taking the first chunk out of a channel.                                *)
LEMMA Takes ==
    ASSUME Typed, n \in Attempts, chan[n].queue # <<>>, TakeHead(n), sent' = sent
    PROVE  /\ ChanType' /\ Head(chan[n].queue) \in Chunks
           /\ \A j \in Attempts : (chan'[j].closed <=> chan[j].closed)
<1>1. chan[n] \in Channels /\ chan[n].queue \in Seq(Chunks)
  BY DEF Typed, ChanType, Channels
<1> DEFINE q == [chan[n] EXCEPT !.queue = Tail(@)]
<1>2. Tail(chan[n].queue) \in Seq(Chunks) /\ Head(chan[n].queue) \in Chunks
  BY <1>1, HeadTailProperties
<1>3. q \in Channels /\ q.closed = chan[n].closed
  BY <1>1, <1>2 DEF Channels
<1>4. chan' = [chan EXCEPT ![n] = q]
  BY DEF TakeHead
<1> HIDE DEF q
<1>5. ChanType'
  BY <1>3, <1>4 DEF Typed, ChanType
<1>6. \A j \in Attempts : (chan'[j].closed <=> chan[j].closed)
  BY <1>3, <1>4 DEF Typed, ChanType
<1> QED
  BY <1>2, <1>5, <1>6

(* A next attempt: everybody else is done with his.                        *)
LEMMA AttemptKeeps ==
    ASSUME FinalizerInv, Attempt
    PROVE  FinalizerInv'
<1> DEFINE m == n + 1
<1>1. /\ wpc = "begin" /\ wpc' = "check" /\ n' = m /\ n < MaxAttempts
      /\ pipe' = [pipe EXCEPT ![m] = "held"]
      /\ span' = [span EXCEPT ![m] = "open"]
      /\ prov' = [prov EXCEPT ![m].pc = "read"]
      /\ stale' = (IF final THEN stale \union {m} ELSE stale)
      /\ read' = <<>>
      /\ UNCHANGED <<done, final, deferred, verdict, result, taken, chan, sent, fwdVars,
                     callerVars, misused, settled>>
  BY DEF Attempt, ctxVars, chanVars
<1>2. m \in Attempts /\ n \in 0..MaxAttempts /\ n \in Nat /\ m \in 0..MaxAttempts
  BY <1>1, AttemptsAssumption DEF FinalizerInv, Typed, WorkerType, Attempts
<1>3. ~chan[m].closed /\ prov[m] = At("off")
  BY <1>2 DEF FinalizerInv, OneAtWork
<1>4. \A i \in Attempts : ~Active(i)
  BY <1>1 DEF FinalizerInv, OneAtWork, BetweenAttempts
<1>5. ProvType' /\ Moved(m, "read", prov[m].next)
  <2>1. Continue(m, "read") /\ taken' \in [Attempts -> 0..MaxChunks]
    BY <1>1 DEF Continue, FinalizerInv, Typed, ProvType
  <2> QED
    BY <1>2, <2>1, GoesTo DEF FinalizerInv, Typed
<1>6. AttemptType' /\ HistType'
  BY <1>1, <1>2 DEF FinalizerInv, Typed, AttemptType, HistType
<1>7. WorkerType' /\ Started'
  BY <1>1, <1>2 DEF FinalizerInv, Typed, WorkerType, Started
<1>8. Typed'
  BY <1>1, <1>5, <1>6, <1>7 DEF FinalizerInv, Typed, CtxType, ChanType, FwdType, CallerType,
     fwdVars, callerVars
<1> HIDE DEF m
<1>9. \A i \in Attempts : i # m => ~Active(i)' /\ prov'[i] = prov[i]
  BY <1>4, <1>5 DEF Moved, Active
<1>10. OneAtWork'
  <2>1. \A i \in Attempts : i > m => i > n /\ i # m
    BY <1>2 DEF Attempts, m
  <2> QED
    BY <1>1, <1>3, <1>9, <2>1 DEF FinalizerInv, OneAtWork, BetweenAttempts, At
<1>11. HeldInHand'
  <2>1. m \notin stale' => ~final' /\ pipe'[m] = "held"
    BY <1>1, <1>2 DEF FinalizerInv, Typed, AttemptType
  <2> QED
    BY <1>9, <2>1 DEF HeldInHand
<1>12. HooksHoldPipeline'
  BY <1>1 DEF FinalizerInv, HooksHoldPipeline
<1> QED
  BY <1>8, <1>10, <1>11, <1>12 DEF FinalizerInv

(* The worker's other steps that read no channel.                          *)
LEMMA WorkerMoves ==
    ASSUME Typed, SetupFails \/ SelectionFails \/ Retry \/ GiveUp \/ FinalizeLast \/ StoreDeferredSpan
    PROVE  Typed' /\ OthersMove
<1>1. /\ UNCHANGED <<done, final, read, provVars, chanVars, fwdVars, callerVars, histVars>>
      /\ n' \in {n, n + 1} /\ n' \in 0..MaxAttempts
      /\ wpc \in {"begin", "failed", "fatal"} \/ (wpc = "store" /\ n' = n /\ pipe' = pipe)
      /\ wpc' \in {"failed", "fatal", "begin", "deliver"}
      /\ wpc' = "deliver" /\ result' = "error" => wpc = "fatal"
      /\ wpc = "store" => wpc' = "deliver" /\ result' = "stream"
      /\ verdict' \in Failures /\ result' \in {"none", "stream", "nil", "error"}
      /\ deferred' \in 0..n'
  BY AttemptsAssumption DEF Typed, WorkerType, SetupFails, SelectionFails, Retry, GiveUp,
     FinalizeLast, StoreDeferredSpan, ctxVars, attemptVars
<1>2. AttemptType'
  <2>1. CASE SetupFails
    BY <2>1 DEF SetupFails, Typed, AttemptType
  <2>2. CASE FinalizeLast
    <3>1. n > 0 => n \in Attempts
      BY DEF Typed, WorkerType, Attempts
    <3>2. n = 0 \/ n > 0
      BY DEF Typed, WorkerType
    <3> QED
      BY <2>2, <3>1, <3>2, Finalizes DEF FinalizeLast, Typed, AttemptType
  <2>3. CASE SelectionFails \/ Retry \/ GiveUp \/ StoreDeferredSpan
    BY <2>3 DEF SelectionFails, Retry, GiveUp, StoreDeferredSpan, attemptVars, Typed, AttemptType
  <2> QED
    BY <2>1, <2>2, <2>3
<1>3. WorkerType' /\ Started'
  BY <1>1 DEF Typed, WorkerType, Started, fwdVars
<1>4. Typed'
  BY <1>1, <1>2, <1>3 DEF Typed, CtxType, ProvType, ChanType, FwdType, CallerType, HistType,
     provVars, chanVars, fwdVars, callerVars, histVars
<1>5. BetweenAttempts' => BetweenAttempts
  BY <1>1 DEF BetweenAttempts
<1>6. BetweenAttempts \/ (n' = n /\ pipe' = pipe /\ final' = final)
  BY <1>1 DEF BetweenAttempts
<1> QED
  BY <1>1, <1>4, <1>5, <1>6 DEF OthersMove, provVars, chanVars, histVars

(* CheckFirstStreamChunkForError and the drain of what it rejects.         *)
LEMMA CheckMoves ==
    ASSUME Typed, CheckError \/ CheckPre \/ CheckData \/ CheckEnd \/ Drain \/ DrainDone
    PROVE  Typed' /\ OthersMove
<1>1. /\ UNCHANGED <<ctxVars, n, provVars, pipe, sent, hand, callerVars, histVars>>
      /\ wpc \in {"check", "drain"}
  BY DEF CheckError, CheckPre, CheckData, CheckEnd, Drain, DrainDone, Drained, workerVars,
     attemptVars, chanVars, fwdVars
<1>2. n \in Attempts /\ n > 0
  BY <1>1 DEF Typed, Started, WorkerType, Attempts
<1>3. /\ ChanType' /\ \A j \in Attempts : (chan'[j].closed <=> chan[j].closed)
      /\ CheckError \/ CheckPre \/ CheckData \/ Drain => Head(chan[n].queue) \in Chunks
  <2>1. CASE CheckEnd \/ DrainDone
    BY <2>1 DEF CheckEnd, DrainDone, Drained, Exhausted, chanVars, Typed, ChanType, CheckError,
       CheckPre, CheckData, Drain
  <2>2. CASE CheckError \/ CheckPre \/ CheckData \/ Drain
    BY <1>1, <1>2, <2>2, Takes DEF CheckError, CheckPre, CheckData, Drain
  <2> QED
    BY <2>1, <2>2
<1>4. AttemptType'
  BY <1>1, <1>2 DEF Typed, AttemptType, CheckError, CheckPre, CheckData, CheckEnd, Drain, DrainDone,
     attemptVars
<1>5. WorkerType'
  <2>1. CASE CheckPre
    <3>1. Head(chan[n].queue).no \in Nat
      BY <1>3, <2>1 DEF Chunks, CheckPre
    <3>2. read' \in Seq(Nat)
      BY <2>1, <3>1, AppendProperties DEF CheckPre, Typed, WorkerType
    <3> QED
      BY <1>1, <2>1, <3>2 DEF CheckPre, Typed, WorkerType, ctxVars
  <2>2. CASE CheckError \/ CheckData \/ CheckEnd \/ Drain \/ DrainDone
    BY <1>1, <2>2 DEF CheckError, CheckData, CheckEnd, Drain, DrainDone, Typed, WorkerType, ctxVars,
       workerVars
  <2> QED
    BY <2>1, <2>2
<1>6. FwdType'
  <2>1. CASE CheckData
    <3>1. Head(chan[n].queue).no \in Nat
      BY <1>3, <2>1 DEF Chunks, CheckData
    <3>2. out' \in Seq(Nat)
      BY <2>1, <3>1, AppendProperties DEF CheckData, Wrapped, Typed, WorkerType
    <3> QED
      BY <1>1, <2>1, <3>2 DEF CheckData, Typed, FwdType
  <2>2. CASE CheckEnd
    BY <2>2 DEF CheckEnd, Typed, FwdType, WorkerType
  <2>3. CASE CheckError \/ CheckPre \/ Drain \/ DrainDone
    BY <2>3 DEF CheckError, CheckPre, Drain, DrainDone, Typed, FwdType, fwdVars
  <2> QED
    BY <2>1, <2>2, <2>3
<1>7. Typed'
  BY <1>1, <1>2, <1>3, <1>4, <1>5, <1>6 DEF Typed, CtxType, ProvType, CallerType, HistType, Started,
     ctxVars, provVars, callerVars, histVars
<1>8. BetweenAttempts' => n > 0 /\ chan[n].closed
  BY <1>1, <1>2 DEF BetweenAttempts, CheckError, CheckPre, CheckData, CheckEnd, Drain, DrainDone,
     Drained, Exhausted, workerVars
<1> QED
  BY <1>1, <1>3, <1>7, <1>8 DEF OthersMove, ctxVars, provVars, histVars

LEMMA ForwardMoves ==
    ASSUME Typed, Forwarder
    PROVE  Typed' /\ OthersMove
<1>1. /\ UNCHANGED <<ctxVars, workerVars, provVars, attemptVars, sent, callerVars, histVars>>
      /\ fwd \in {"pass", "drain"}
  BY DEF Forwarder, ForwardTake, ForwardPut, ForwardAbandon, ForwardDrain, ForwardEnd, chanVars
<1>2. n \in Attempts
  BY <1>1 DEF Typed, Started, WorkerType, Attempts
<1>3. CASE ForwardTake \/ ForwardDrain
  <2>1. /\ ChanType' /\ Head(chan[n].queue) \in Chunks
        /\ \A j \in Attempts : (chan'[j].closed <=> chan[j].closed)
    BY <1>1, <1>2, <1>3, Takes DEF ForwardTake, ForwardDrain
  <2>2. Head(chan[n].queue).no \in Nat
    BY <2>1 DEF Chunks
  <2>3. FwdType' /\ fwd' = fwd
    <3>1. UNCHANGED <<fwd, out, outClosed>>
      BY <1>3 DEF ForwardTake, ForwardDrain, fwdVars
    <3>2. hand' = <<Head(chan[n].queue).no>> \/ hand' = hand
      BY <1>3 DEF ForwardTake, ForwardDrain, fwdVars
    <3>3. hand' \in Seq(Nat)
      <4> DEFINE x == Head(chan[n].queue).no
      <4>1. x \in Nat /\ (hand' = <<x>> \/ hand' = hand)
        BY <2>2, <3>2
      <4> HIDE DEF x
      <4>2. <<x>> \in Seq(Nat)
        BY <4>1
      <4>3. hand \in Seq(Nat)
        BY DEF Typed, FwdType
      <4> QED
        BY <4>1, <4>2, <4>3
    <3> QED
      BY <3>1, <3>3 DEF Typed, FwdType
  <2>4. Typed'
    BY <1>1, <2>1, <2>3 DEF Typed, CtxType, WorkerType, ProvType, AttemptType, CallerType, HistType,
       Started, ctxVars, workerVars, provVars, attemptVars, callerVars, histVars
  <2> QED
    BY <1>1, <2>1, <2>4 DEF OthersMove, BetweenAttempts, ctxVars, workerVars, provVars, attemptVars, histVars
<1>4. CASE ForwardPut \/ ForwardAbandon \/ ForwardEnd
  <2>1. UNCHANGED chanVars
    BY <1>4 DEF ForwardPut, ForwardAbandon, ForwardEnd
  <2>2. out' \in Seq(Nat) /\ hand' \in Seq(Nat) /\ fwd' \in {fwd, "drain", "over"}
    <3>1. hand \in Seq(Nat) /\ out \in Seq(Nat) /\ <<>> \in Seq(Nat)
      BY DEF Typed, FwdType
    <3>2. out \o hand \in Seq(Nat)
      BY <3>1, ConcatProperties
    <3> QED
      BY <1>4, <3>1, <3>2 DEF ForwardPut, ForwardAbandon, ForwardEnd
  <2>3. outClosed' \in BOOLEAN
    BY <1>4 DEF ForwardPut, ForwardAbandon, ForwardEnd, Typed, FwdType
  <2>4. FwdType'
    BY <2>2, <2>3 DEF Typed, FwdType
  <2>5. Typed'
    BY <1>1, <1>2, <2>1, <2>4 DEF Typed, CtxType, WorkerType, ProvType, AttemptType, ChanType,
       CallerType, HistType, Started, ctxVars, workerVars, provVars, attemptVars, chanVars,
       callerVars, histVars, Attempts
  <2> QED
    BY <1>1, <2>1, <2>5 DEF OthersMove, BetweenAttempts, ctxVars, workerVars, provVars, attemptVars,
       chanVars, histVars
<1> QED
  BY <1>3, <1>4 DEF Forwarder

LEMMA CallerMoves ==
    ASSUME Typed, Caller \/ DeliverFails \/ CtxDone
    PROVE  Typed' /\ OthersMove
<1>1. /\ UNCHANGED <<n, deferred, verdict, read, provVars, attemptVars, chanVars, fwd, hand,
                     outClosed, histVars>>
      /\ wpc' = wpc \/ (wpc = "deliver" /\ wpc' \in {"idle", "begin"})
      /\ result' \in {result, "none"}
      /\ wpc' = "begin" /\ wpc # "begin" => result = "error"
      /\ result' # result => wpc = "deliver" /\ result = "error"
  BY DEF Caller, ReceiveStream, ReceiveError, Leave, ReadOut, ReadEnd, DeliverFails, CtxDone,
     ctxVars, workerVars, fwdVars
<1>2. final' = final \/ (wpc = "deliver" /\ result = "error")
  BY DEF Caller, ReceiveStream, ReceiveError, Leave, ReadOut, ReadEnd, DeliverFails, CtxDone, ctxVars
<1>3. CtxType'
  BY DEF Caller, ReceiveStream, ReceiveError, Leave, ReadOut, ReadEnd, DeliverFails, CtxDone,
     ctxVars, Typed, CtxType
<1>4. WorkerType' /\ Started'
  BY <1>1 DEF Typed, WorkerType, Started
<1>5. FwdType' /\ CallerType'
  <2>1. CASE ReadOut
    <3>1. Head(out) \in Nat /\ Tail(out) \in Seq(Nat)
      BY <2>1, HeadTailProperties DEF ReadOut, Typed, FwdType
    <3>2. Append(received, Head(out)) \in Seq(Nat)
      BY <3>1, AppendProperties DEF Typed, CallerType
    <3>3. received' = Append(received, Head(out)) /\ out' = Tail(out) /\ cpc' = cpc
      BY <2>1 DEF ReadOut
    <3> QED
      BY <1>1, <3>1, <3>2, <3>3 DEF Typed, FwdType, CallerType
  <2>2. CASE ~ReadOut
    <3>1. received' = received /\ out' = out
      BY <2>2 DEF Caller, ReceiveStream, ReceiveError, Leave, ReadEnd, DeliverFails, CtxDone,
         callerVars, fwdVars
    <3>2. cpc' \in {"wait", "reading", "over"}
      BY <2>2 DEF Caller, ReceiveStream, ReceiveError, Leave, ReadEnd, DeliverFails, CtxDone,
         callerVars, Typed, CallerType
    <3> QED
      BY <1>1, <3>1, <3>2 DEF Typed, FwdType, CallerType
  <2> QED
    BY <2>1, <2>2
<1>6. Typed'
  BY <1>1, <1>3, <1>4, <1>5 DEF Typed, ProvType, AttemptType, ChanType, HistType,
     provVars, attemptVars, chanVars, histVars
<1>7. BetweenAttempts' => BetweenAttempts
  BY <1>1 DEF BetweenAttempts
<1>8. BetweenAttempts \/ (n' = n /\ pipe' = pipe /\ final' = final)
  BY <1>1, <1>2 DEF BetweenAttempts, attemptVars
<1> QED
  BY <1>1, <1>6, <1>7, <1>8 DEF OthersMove, provVars, chanVars, histVars

-----------------------------------------------------------------------------
LEMMA InitFinalizer == Init => FinalizerInv
<1> SUFFICES ASSUME Init PROVE FinalizerInv
  OBVIOUS
<1>1. \A i \in Attempts : prov[i] = At("off") /\ ~chan[i].closed /\ prov[i].pc = "off"
  BY DEF Init, At
<1>2. misused = {}
  BY DEF Init
<1> QED
  BY <1>1, <1>2, InitTyped DEF FinalizerInv, OneAtWork, HeldInHand, HooksHoldPipeline, Active

LEMMA StepFinalizer ==
    ASSUME FinalizerInv, [Next]_vars
    PROVE  FinalizerInv'
<1>1. CASE \E i \in Attempts : Provider(i)
  BY <1>1, ProviderKeeps
<1>2. CASE Worker
  BY <1>2, AttemptKeeps, WorkerMoves, CheckMoves, OthersKeep DEF Worker, FinalizerInv
<1>3. CASE Forwarder \/ Caller \/ DeliverFails \/ CtxDone
  BY <1>3, ForwardMoves, CallerMoves, OthersKeep DEF FinalizerInv
<1>4. CASE UNCHANGED vars
  <2>1. Typed'
    BY <1>4 DEF FinalizerInv, Typed, CtxType, WorkerType, ProvType, AttemptType, ChanType, FwdType,
       CallerType, HistType, Started, vars, ctxVars, workerVars, provVars, attemptVars, chanVars,
       fwdVars, callerVars, histVars
  <2>2. OthersMove
    BY <1>4 DEF OthersMove, BetweenAttempts, vars, ctxVars, workerVars, provVars, attemptVars,
       chanVars, histVars
  <2> QED
    BY <2>1, <2>2, OthersKeep
<1> QED
  BY <1>1, <1>2, <1>3, <1>4 DEF Next

(* At most one goroutine is at work, and it holds its pipeline for as long *)
(* as it has hooks to run, unless its attempt began with the indicator set.*)
THEOREM Invariance == Spec => []FinalizerInv
BY InitFinalizer, StepFinalizer, PTL DEF Spec

(* Every variable has its type.                                            *)
THEOREM StreamTypes == Spec => []TypeOK
<1>1. FinalizerInv => TypeOK
  BY TypeParts DEF FinalizerInv
<1> QED
  BY <1>1, Invariance, PTL

(* The last chunk, the goroutine's deferred call and the worker may all    *)
(* call an attempt's finalizer; none returns the pipeline under a hook,    *)
(* but in a retry that begins with the end indicator set.                  *)
THEOREM HooksKeepPipeline == Spec => []HooksHoldPipeline
<1>1. FinalizerInv => HooksHoldPipeline
  BY DEF FinalizerInv
<1> QED
  BY <1>1, Invariance, PTL

-----------------------------------------------------------------------------
(***************************************************************************)
(* The chunks on their way.  Each part of it goes on where the one before  *)
(* it ends, so that steps change the parts and nothing is concatenated     *)
(* before the last theorem.                                                *)
(***************************************************************************)
Follows(s, a) == \A k \in 1..Len(s) : s[k] = a + k
Queued(q, a, last) ==
    /\ \A k \in 1..Len(q) : q[k].no = a + k
    /\ a + Len(q) = last

(* Out of the channel: read and passed on, or still in the hand.           *)
Forwarded == Len(received) + Len(out) + Len(hand)

Parts ==
    /\ Follows(received, 0)
    /\ Follows(out, Len(received))
    /\ Follows(hand, Len(received) + Len(out))

(* A stream is chosen once, and then nothing is checked or tried again.    *)
ChosenOnce ==
    /\ Chosen => n > 0 /\ wpc \in {"store", "deliver", "idle"} /\ ~BetweenAttempts
    /\ ~Chosen => out = <<>> /\ received = <<>>
    /\ hand # <<>> => fwd = "pass" /\ Len(hand) = 1
    /\ fwd = "drain" => done

(* Until the forwarder drops chunks because nobody reads them, what it has *)
(* forwarded and what is in the channel is all that was sent.              *)
Complete ==
    /\ wpc = "check" => Follows(read, 0) /\ Queued(chan[n].queue, Len(read), sent[n])
    /\ Chosen /\ (fwd = "pass" \/ ~done) => Queued(chan[n].queue, Forwarded, sent[n])
    /\ \A i \in Attempts : i > n => chan[i].queue = <<>> /\ sent[i] = 0

DeliveryInv == FinalizerInv /\ Parts /\ ChosenOnce /\ Complete

LEMMA FollowsAppend ==
    ASSUME NEW s \in Seq(Nat), NEW a \in Nat, Follows(s, a)
    PROVE  LET t == Append(s, a + Len(s) + 1) IN
           t \in Seq(Nat) /\ Len(t) = Len(s) + 1 /\ Follows(t, a)
<1> DEFINE x == a + Len(s) + 1
           t == Append(s, x)
<1>1. Len(s) \in Nat /\ x \in Nat
  BY LenProperties
<1>2. /\ t \in Seq(Nat) /\ Len(t) = Len(s) + 1
      /\ \A k \in 1..Len(s) : t[k] = s[k]
      /\ t[Len(s) + 1] = x
  BY <1>1, AppendProperties
<1> HIDE DEF t
<1>3. Follows(t, a)
  <2>1. \A k \in 1..Len(t) : k \in 1..Len(s) \/ k = Len(s) + 1
    BY <1>1, <1>2
  <2>2. a + (Len(s) + 1) = x
    BY <1>1
  <2> QED
    BY <1>2, <2>1, <2>2 DEF Follows
<1> QED
  BY <1>2, <1>3 DEF t

LEMMA FollowsTail ==
    ASSUME NEW s \in Seq(Nat), s # <<>>, NEW a \in Nat, Follows(s, a)
    PROVE  /\ Head(s) = a + 1 /\ Tail(s) \in Seq(Nat) /\ Len(s) = Len(Tail(s)) + 1
           /\ Follows(Tail(s), a + 1)
<1> DEFINE t == Tail(s)
<1>1. /\ t \in Seq(Nat) /\ Len(t) = Len(s) - 1 /\ Len(s) \in Nat \ {0}
      /\ \A k \in 1..Len(t) : t[k] = s[k + 1]
  BY HeadTailProperties, LenProperties, EmptySeq
<1>2. Head(s) = s[1]
  OBVIOUS
<1> HIDE DEF t
<1>3. \A k \in 1..Len(t) : k + 1 \in 1..Len(s)
  BY <1>1
<1>4. Follows(t, a + 1)
  BY <1>1, <1>3 DEF Follows
<1>5. Head(s) = a + 1
  BY <1>1, <1>2 DEF Follows
<1> QED
  BY <1>1, <1>4, <1>5 DEF t

LEMMA QueuedTail ==
    ASSUME NEW q \in Seq(Chunks), q # <<>>, NEW a \in Nat, NEW last, Queued(q, a, last)
    PROVE  Head(q).no = a + 1 /\ Queued(Tail(q), a + 1, last)
<1> DEFINE t == Tail(q)
<1>1. /\ t \in Seq(Chunks) /\ Len(t) = Len(q) - 1 /\ Len(q) \in Nat \ {0}
      /\ \A k \in 1..Len(t) : t[k] = q[k + 1]
  BY HeadTailProperties, LenProperties, EmptySeq
<1>2. Head(q) = q[1]
  OBVIOUS
<1> HIDE DEF t
<1>3. \A k \in 1..Len(t) : k + 1 \in 1..Len(q)
  BY <1>1
<1>4. Queued(t, a + 1, last)
  BY <1>1, <1>3 DEF Queued
<1>5. Head(q).no = a + 1
  BY <1>1, <1>2 DEF Queued
<1> QED
  BY <1>4, <1>5 DEF t

LEMMA QueuedAppend ==
    ASSUME NEW q \in Seq(Chunks), NEW c \in Chunks, NEW a \in Nat, NEW last,
           Queued(q, a, last), c.no = last + 1
    PROVE  Queued(Append(q, c), a, last + 1)
<1> DEFINE t == Append(q, c)
<1>1. Len(q) \in Nat /\ last = a + Len(q)
  BY LenProperties DEF Queued
<1>2. /\ Len(t) = Len(q) + 1
      /\ \A k \in 1..Len(q) : t[k] = q[k]
      /\ t[Len(q) + 1] = c
  BY AppendProperties
<1> HIDE DEF t
<1>3. Queued(t, a, last + 1)
  <2>1. \A k \in 1..Len(t) : k \in 1..Len(q) \/ k = Len(q) + 1
    BY <1>1, <1>2
  <2>2. a + (Len(q) + 1) = last + 1
    BY <1>1
  <2> QED
    BY <1>2, <2>1, <2>2 DEF Queued
<1> QED
  BY <1>3 DEF t

(* The next chunk out of a channel.                                        *)
LEMMA TakesNext ==
    ASSUME Typed, n \in Attempts, chan[n].queue # <<>>, TakeHead(n), n' = n, sent' = sent,
           NEW a \in Nat, Queued(chan[n].queue, a, sent[n])
    PROVE  Head(chan[n].queue).no = a + 1 /\ Queued(chan[n].queue', a + 1, sent'[n'])
<1> DEFINE q == chan[n].queue
<1>1. q \in Seq(Chunks) /\ chan[n] \in Channels
  BY DEF Typed, ChanType, Channels
<1>2. chan'[n'].queue = Tail(q)
  BY <1>1 DEF TakeHead, Typed, ChanType, Channels
<1> HIDE DEF q
<1>3. Head(q).no = a + 1 /\ Queued(Tail(q), a + 1, sent[n])
  BY <1>1, QueuedTail DEF q
<1> QED
  BY <1>2, <1>3 DEF q

-----------------------------------------------------------------------------
(* A step that moves no chunk.                                             *)
LEMMA NothingMoves ==
    ASSUME DeliveryInv, UNCHANGED <<fwdVars, received, sent>>,
           \A i \in Attempts : chan'[i].queue = chan[i].queue,
           done => done',
           n' \in {n, n + 1} /\ n' \in 0..MaxAttempts,
           wpc' = "check" => wpc = "check" /\ n' = n /\ read' = read,
           Chosen => n' = n /\ wpc' \in {"store", "deliver", "idle"} /\ ~BetweenAttempts'
    PROVE  (Parts /\ ChosenOnce /\ Complete)'
<1>1. UNCHANGED <<fwd, hand, out, outClosed, received, sent>>
  BY DEF fwdVars
<1>2. Chosen' <=> Chosen
  BY <1>1 DEF Chosen
<1>3. Parts' /\ ChosenOnce'
  BY <1>1, <1>2 DEF DeliveryInv, Parts, ChosenOnce
<1>4. n \in 0..MaxAttempts /\ (wpc = "check" => n \in Attempts) /\ (Chosen => n \in Attempts)
  BY DEF DeliveryInv, FinalizerInv, Typed, WorkerType, Started, ChosenOnce, Attempts
<1>5. wpc' = "check" => Follows(read', 0) /\ Queued(chan'[n'].queue, Len(read'), sent'[n'])
  BY <1>1, <1>4 DEF DeliveryInv, Complete
<1>6. Forwarded' = Forwarded
  BY <1>1 DEF Forwarded
<1>7. Chosen' /\ (fwd' = "pass" \/ ~done') => Queued(chan'[n'].queue, Forwarded', sent'[n'])
  BY <1>1, <1>2, <1>4, <1>6 DEF DeliveryInv, Complete
<1>8. \A i \in Attempts : i > n' => i > n /\ chan'[i].queue = <<>> /\ sent'[i] = 0
  BY <1>1, <1>4 DEF DeliveryInv, Complete, Attempts
<1> QED
  BY <1>3, <1>5, <1>7, <1>8 DEF Complete

(* The goroutine at work puts its next chunk behind those of its attempt.  *)
LEMMA ProviderDelivers ==
    ASSUME DeliveryInv, NEW i \in Attempts, Provider(i)
    PROVE  (Parts /\ ChosenOnce /\ Complete)'
<1>1. /\ UNCHANGED <<done, workerVars, fwdVars, callerVars>>
      /\ SendChunk(i) \/ (sent' = sent /\ \A j \in Attempts : chan'[j].queue = chan[j].queue)
  <2>1. CASE SendChunk(i)
    BY <2>1 DEF SendChunk, ctxVars
  <2>2. CASE CloseStream(i)
    BY <2>2 DEF CloseStream, ctxVars, DeliveryInv, FinalizerInv, Typed, ChanType, Channels
  <2>3. CASE ~SendChunk(i) /\ ~CloseStream(i)
    BY <2>3 DEF Provider, StopReading, ReadChunk, ReadLast, RunPostHooks, SendFails,
       CompleteDeferredSpan, HandleStreamEnd, EnsureFinalizer, ctxVars, chanVars
  <2> QED
    BY <2>1, <2>2, <2>3
<1>2. UNCHANGED <<wpc, n, read, result, received, fwd, hand, out, outClosed>>
  BY <1>1 DEF workerVars, fwdVars, callerVars
<1>3. n \in 0..MaxAttempts
  BY DEF DeliveryInv, FinalizerInv, Typed, WorkerType
<1>4. CASE sent' = sent /\ \A j \in Attempts : chan'[j].queue = chan[j].queue
  BY <1>1, <1>2, <1>3, <1>4, NothingMoves DEF DeliveryInv, ChosenOnce, BetweenAttempts
<1>5. CASE SendChunk(i)
  <2> DEFINE c == [no |-> sent[n] + 1, class |-> prov[n].class]
             q == chan[n].queue
  <2>1. i = n /\ n \in Attempts
    BY <1>5 DEF SendChunk, DeliveryInv, FinalizerInv, OneAtWork, Active
  <2>2. /\ chan' = [chan EXCEPT ![n].queue = Append(@, c)]
        /\ sent' = [sent EXCEPT ![n] = @ + 1]
    BY <1>5, <2>1 DEF SendChunk
  <2>3. q \in Seq(Chunks) /\ c \in Chunks /\ c.no = sent[n] + 1 /\ sent[n] \in Nat
    <3>1. chan[n] \in Channels /\ prov[n] \in Procs /\ sent[n] \in Nat
      BY <2>1 DEF DeliveryInv, FinalizerInv, Typed, ChanType, ProvType
    <3>2. q \in Seq(Chunks)
      BY <3>1 DEF Channels
    <3>3. prov[n].class \in Classes
      BY <3>1 DEF Procs
    <3> QED
      BY <3>1, <3>2, <3>3 DEF Chunks
  <2>4. /\ chan'[n].queue = Append(q, c) /\ sent'[n] = sent[n] + 1
        /\ \A j \in Attempts : j # n => chan'[j] = chan[j] /\ sent'[j] = sent[j]
    BY <2>1, <2>2 DEF DeliveryInv, FinalizerInv, Typed, ChanType, Channels
  <2> HIDE DEF c
  <2>5. \A a \in Nat : Queued(q, a, sent[n]) => Queued(chan'[n].queue, a, sent'[n])
    BY <2>3, <2>4, QueuedAppend
  <2>6. Len(read) \in Nat /\ Forwarded \in Nat
    BY LenProperties DEF DeliveryInv, FinalizerInv, Typed, WorkerType, FwdType, CallerType, Forwarded
  <2>7. Complete'
    <3>1. wpc' = "check" => Follows(read', 0) /\ Queued(chan'[n'].queue, Len(read'), sent'[n'])
      BY <1>2, <2>5, <2>6 DEF DeliveryInv, Complete
    <3>2. Chosen' /\ (fwd' = "pass" \/ ~done') => Queued(chan'[n'].queue, Forwarded', sent'[n'])
      BY <1>1, <1>2, <2>5, <2>6 DEF DeliveryInv, Complete, Chosen, Forwarded
    <3>3. \A j \in Attempts : j > n => j # n
      BY <1>3 DEF Attempts
    <3> QED
      BY <1>2, <2>4, <3>1, <3>2, <3>3 DEF DeliveryInv, Complete
  <2> QED
    BY <1>1, <1>2, <2>7 DEF DeliveryInv, Parts, ChosenOnce, Chosen, BetweenAttempts
<1> QED
  BY <1>1, <1>4, <1>5

LEMMA WorkerDelivers ==
    ASSUME DeliveryInv, SetupFails \/ SelectionFails \/ Retry \/ GiveUp \/ FinalizeLast
                        \/ StoreDeferredSpan \/ DrainDone
    PROVE  (Parts /\ ChosenOnce /\ Complete)'
<1>1. /\ UNCHANGED <<done, read, chan, sent, fwdVars, received>>
      /\ n' \in {n, n + 1} /\ n' \in 0..MaxAttempts
      /\ wpc' # "check"
      /\ BetweenAttempts \/ wpc = "drain" \/ (wpc = "store" /\ n' = n /\ wpc' = "deliver" /\ result' = "stream")
  BY AttemptsAssumption DEF DeliveryInv, FinalizerInv, Typed, WorkerType, BetweenAttempts, SetupFails,
     SelectionFails, Retry, GiveUp, FinalizeLast, StoreDeferredSpan, DrainDone, Drained, ctxVars,
     chanVars, callerVars
<1>2. Chosen => n' = n /\ wpc' \in {"store", "deliver", "idle"} /\ ~BetweenAttempts'
  BY <1>1 DEF DeliveryInv, ChosenOnce, BetweenAttempts
<1> QED
  BY <1>1, <1>2, NothingMoves

LEMMA AttemptDelivers ==
    ASSUME DeliveryInv, Attempt
    PROVE  (Parts /\ ChosenOnce /\ Complete)'
<1>1. /\ UNCHANGED <<done, chan, sent, fwd, hand, out, outClosed, received>>
      /\ wpc = "begin" /\ wpc' = "check" /\ n' = n + 1 /\ read' = <<>> /\ n < MaxAttempts
  BY DEF Attempt, ctxVars, chanVars, fwdVars, callerVars
<1>2. ~Chosen /\ ~Chosen'
  BY <1>1 DEF DeliveryInv, ChosenOnce, Chosen
<1>3. n \in 0..MaxAttempts /\ n + 1 \in Attempts /\ n + 1 > n
  BY <1>1, AttemptsAssumption DEF DeliveryInv, FinalizerInv, Typed, WorkerType, Attempts
<1>4. chan'[n'].queue = <<>> /\ sent'[n'] = 0
  BY <1>1, <1>3 DEF DeliveryInv, Complete
<1>5. Follows(read', 0) /\ Queued(chan'[n'].queue, Len(read'), sent'[n'])
  BY <1>1, <1>4 DEF Follows, Queued
<1>6. \A i \in Attempts : i > n' => i > n
  BY <1>1, <1>3 DEF Attempts
<1>7. Complete'
  BY <1>1, <1>2, <1>5, <1>6 DEF DeliveryInv, Complete
<1>8. Parts' /\ ChosenOnce'
  BY <1>1, <1>2 DEF DeliveryInv, Parts, ChosenOnce
<1> QED
  BY <1>7, <1>8

(* A chunk is taken out of the channel of the last attempt only.           *)
LEMMA TakesOne ==
    ASSUME DeliveryInv, TakeHead(n), n' = n, sent' = sent
    PROVE  \A i \in Attempts : i > n' => chan'[i].queue = <<>> /\ sent'[i] = 0
<1>1. n \in 0..MaxAttempts
  BY DEF DeliveryInv, FinalizerInv, Typed, WorkerType
<1>2. \A i \in Attempts : i > n => chan'[i] = chan[i]
  BY <1>1 DEF TakeHead, DeliveryInv, FinalizerInv, Typed, ChanType, Attempts
<1> QED
  BY <1>2 DEF DeliveryInv, Complete

LEMMA CheckDelivers ==
    ASSUME DeliveryInv, CheckError \/ CheckPre \/ CheckData \/ CheckEnd \/ Drain
    PROVE  (Parts /\ ChosenOnce /\ Complete)'
<1>1. /\ UNCHANGED <<done, n, sent, received, hand>>
      /\ wpc \in {"check", "drain"}
  BY DEF CheckError, CheckPre, CheckData, CheckEnd, Drain, workerVars, ctxVars, callerVars,
     chanVars, fwdVars
<1>2. /\ Typed /\ n \in Attempts /\ n > 0 /\ ~Chosen /\ fwd = "off" /\ ~outClosed
      /\ hand = <<>> /\ out = <<>> /\ received = <<>>
  BY <1>1 DEF DeliveryInv, FinalizerInv, Typed, Started, WorkerType, Attempts, ChosenOnce, Chosen
<1>3. wpc = "check" => Follows(read, 0) /\ Queued(chan[n].queue, Len(read), sent[n])
  BY DEF DeliveryInv, Complete
<1>4. read \in Seq(Nat) /\ Len(read) \in Nat
  BY <1>2, LenProperties DEF Typed, WorkerType
<1>5. CASE CheckError \/ Drain
  <2>1. UNCHANGED <<fwd, out, outClosed>> /\ TakeHead(n) /\ wpc' = "drain"
    BY <1>5 DEF CheckError, Drain, fwdVars, workerVars
  <2>2. Complete'
    BY <1>1, <1>2, <2>1, TakesOne DEF Complete, Chosen
  <2> QED
    BY <1>1, <1>2, <2>1, <2>2 DEF DeliveryInv, Parts, ChosenOnce, Chosen
<1>6. CASE CheckPre
  <2>1. /\ UNCHANGED <<fwd, out, outClosed>> /\ TakeHead(n) /\ wpc = "check" /\ wpc' = "check"
        /\ read' = Append(read, Head(chan[n].queue).no) /\ chan[n].queue # <<>>
    BY <1>6 DEF CheckPre, fwdVars
  <2>2. Head(chan[n].queue).no = Len(read) + 1 /\ Queued(chan'[n'].queue, Len(read) + 1, sent'[n'])
    BY <1>1, <1>2, <1>3, <1>4, <2>1, TakesNext
  <2>3. read' = Append(read, 0 + Len(read) + 1)
    BY <1>4, <2>1, <2>2
  <2>4. Len(read') = Len(read) + 1 /\ Follows(read', 0)
    BY <1>3, <1>4, <2>1, <2>3, FollowsAppend
  <2>5. Complete'
    BY <1>1, <1>2, <2>1, <2>2, <2>4, TakesOne DEF Complete, Chosen
  <2> QED
    BY <1>1, <1>2, <2>1, <2>5 DEF DeliveryInv, Parts, ChosenOnce, Chosen
<1>7. CASE CheckData
  <2>1. /\ UNCHANGED outClosed /\ TakeHead(n) /\ wpc = "check" /\ wpc' = "store" /\ fwd' = "pass"
        /\ out' = Append(read, Head(chan[n].queue).no) /\ chan[n].queue # <<>>
    BY <1>7 DEF CheckData, Wrapped
  <2>2. Head(chan[n].queue).no = Len(read) + 1 /\ Queued(chan'[n'].queue, Len(read) + 1, sent'[n'])
    BY <1>1, <1>2, <1>3, <1>4, <2>1, TakesNext
  <2>3. out' = Append(read, 0 + Len(read) + 1)
    BY <1>4, <2>1, <2>2
  <2>4. Len(out') = Len(read) + 1 /\ Follows(out', 0)
    BY <1>3, <1>4, <2>1, <2>3, FollowsAppend
  <2>5. received' = <<>> /\ hand' = <<>> /\ Len(received') = 0 /\ Len(hand') = 0
    BY <1>1, <1>2
  <2>6. Forwarded' = Len(read) + 1
    BY <1>4, <2>4, <2>5 DEF Forwarded
  <2>7. Complete'
    BY <1>1, <1>2, <2>1, <2>2, <2>6, TakesOne DEF Complete
  <2>8. Parts'
    BY <2>4, <2>5 DEF Parts, Follows
  <2>9. ChosenOnce'
    BY <1>1, <1>2, <2>1, <2>5 DEF ChosenOnce, BetweenAttempts, Chosen
  <2> QED
    BY <2>7, <2>8, <2>9
<1>8. CASE CheckEnd
  <2>1. UNCHANGED <<read, chan, fwd>> /\ wpc = "check"
    BY <1>8 DEF CheckEnd, chanVars
  <2>2. CASE read # <<>>
    <3>1. out' = read /\ outClosed' /\ wpc' = "store"
      BY <1>8, <2>2 DEF CheckEnd
    <3>2. received' = <<>> /\ hand' = <<>> /\ Len(received') = 0 /\ Len(hand') = 0
      BY <1>1, <1>2
    <3>3. Forwarded' = Len(read)
      BY <1>4, <3>1, <3>2 DEF Forwarded
    <3>4. Complete'
      BY <1>1, <1>3, <2>1, <3>1, <3>3 DEF DeliveryInv, Complete
    <3>5. Parts'
      BY <1>3, <2>1, <3>1, <3>2 DEF Parts, Follows
    <3>6. ChosenOnce'
      BY <1>1, <1>2, <2>1, <3>1, <3>2 DEF ChosenOnce, BetweenAttempts, Chosen
    <3> QED
      BY <3>4, <3>5, <3>6
  <2>3. CASE read = <<>>
    <3>1. UNCHANGED <<out, outClosed>> /\ wpc' = "deliver"
      BY <1>8, <2>3 DEF CheckEnd
    <3>2. UNCHANGED fwdVars /\ n' \in 0..MaxAttempts
      BY <1>1, <1>2, <2>1, <3>1 DEF fwdVars, Typed, WorkerType
    <3> QED
      BY <1>1, <1>2, <2>1, <3>1, <3>2, NothingMoves
  <2> QED
    BY <2>2, <2>3
<1> QED
  BY <1>5, <1>6, <1>7, <1>8

(* What follows a sequence may be put behind it.                           *)
LEMMA FollowsConcat ==
    ASSUME NEW s \in Seq(Nat), NEW t \in Seq(Nat), NEW a \in Nat,
           Follows(s, a), Follows(t, a + Len(s))
    PROVE  /\ s \o t \in Seq(Nat) /\ Len(s \o t) = Len(s) + Len(t)
           /\ Follows(s \o t, a)
<1> DEFINE u == s \o t
<1>1. Len(s) \in Nat /\ Len(t) \in Nat
  BY LenProperties
<1>2. /\ u \in Seq(Nat) /\ Len(u) = Len(s) + Len(t)
      /\ \A k \in 1..Len(u) : u[k] = IF k <= Len(s) THEN s[k] ELSE t[k - Len(s)]
  BY ConcatProperties
<1> HIDE DEF u
<1>3. ASSUME NEW k \in 1..Len(u) PROVE u[k] = a + k
  <2>1. CASE k <= Len(s)
    <3>1. k \in 1..Len(s) /\ u[k] = s[k]
      BY <1>1, <1>2, <2>1
    <3> QED
      BY <3>1 DEF Follows
  <2>2. CASE ~(k <= Len(s))
    <3>1. k - Len(s) \in 1..Len(t) /\ a + Len(s) + (k - Len(s)) = a + k
      BY <1>1, <1>2, <2>2
    <3> QED
      BY <1>2, <2>2, <3>1 DEF Follows
  <2> QED
    BY <2>1, <2>2
<1>4. Follows(u, a)
  BY <1>3 DEF Follows
<1> QED
  BY <1>2, <1>4 DEF u

LEMMA ForwardDelivers ==
    ASSUME DeliveryInv, Forwarder
    PROVE  (Parts /\ ChosenOnce /\ Complete)'
<1>1. /\ UNCHANGED <<done, wpc, n, result, read, sent, received>>
      /\ fwd \in {"pass", "drain"}
  BY DEF Forwarder, ForwardTake, ForwardPut, ForwardAbandon, ForwardDrain, ForwardEnd, workerVars,
     ctxVars, callerVars, chanVars
<1>2. /\ Typed /\ Chosen /\ wpc \in {"store", "deliver", "idle"} /\ ~BetweenAttempts
      /\ n \in Attempts /\ n > 0
      /\ ~BetweenAttempts'
  BY <1>1 DEF DeliveryInv, FinalizerInv, Typed, WorkerType, Attempts, ChosenOnce, Chosen, BetweenAttempts
<1>3. /\ hand \in Seq(Nat) /\ out \in Seq(Nat) /\ received \in Seq(Nat)
      /\ Len(hand) \in Nat /\ Len(out) \in Nat /\ Len(received) \in Nat
  BY <1>2, LenProperties DEF Typed, FwdType, CallerType
<1>4. CASE ForwardTake
  <2>1. /\ UNCHANGED <<fwd, out, outClosed>> /\ fwd = "pass" /\ hand = <<>>
        /\ TakeHead(n) /\ chan[n].queue # <<>>
        /\ hand' = <<Head(chan[n].queue).no>>
    BY <1>4 DEF ForwardTake
  <2> DEFINE a == Len(received) + Len(out)
  <2>2. a \in Nat /\ Forwarded = a
    BY <1>3, <2>1 DEF Forwarded
  <2>3. Queued(chan[n].queue, a, sent[n])
    BY <1>2, <2>1, <2>2 DEF DeliveryInv, Complete
  <2> HIDE DEF a
  <2>4. Head(chan[n].queue).no = a + 1 /\ Queued(chan'[n'].queue, a + 1, sent'[n'])
    BY <1>1, <1>2, <2>1, <2>2, <2>3, TakesNext
  <2>5. hand' = <<a + 1>> /\ Len(hand') = 1 /\ hand'[1] = a + 1
    BY <2>1, <2>4
  <2>6. Follows(hand', a)
    BY <2>2, <2>5 DEF Follows
  <2>7. Forwarded' = a + 1
    BY <1>1, <2>1, <2>2, <2>5 DEF Forwarded, a
  <2>8. Parts'
    BY <1>1, <2>1, <2>6 DEF DeliveryInv, Parts, a
  <2>9. ChosenOnce'
    BY <1>1, <1>2, <2>1, <2>5 DEF ChosenOnce, Chosen
  <2>10. Complete'
    BY <1>1, <1>2, <2>1, <2>4, <2>7, TakesOne DEF Complete
  <2> QED
    BY <2>8, <2>9, <2>10
<1>5. CASE ForwardPut
  <2>1. /\ UNCHANGED <<fwd, chan, outClosed>> /\ fwd = "pass" /\ hand # <<>>
        /\ out' = out \o hand /\ hand' = <<>>
    BY <1>5 DEF ForwardPut, chanVars
  <2>2. Len(out') = Len(out) + Len(hand) /\ Follows(out', Len(received))
    BY <1>3, <2>1, FollowsConcat DEF DeliveryInv, Parts
  <2>3. Len(hand') = 0 /\ Forwarded' = Forwarded
    BY <1>1, <1>3, <2>1, <2>2 DEF Forwarded
  <2>4. Parts'
    BY <1>1, <2>1, <2>2, <2>3 DEF DeliveryInv, Parts, Follows
  <2>5. ChosenOnce'
    BY <1>1, <1>2, <2>1 DEF ChosenOnce, Chosen
  <2>6. Complete'
    BY <1>1, <1>2, <2>1, <2>3 DEF DeliveryInv, Complete
  <2> QED
    BY <2>4, <2>5, <2>6
<1>6. CASE ForwardAbandon
  <2>1. UNCHANGED <<chan, out, outClosed>> /\ fwd' = "drain" /\ hand' = <<>> /\ done
    BY <1>6 DEF ForwardAbandon, chanVars
  <2>2. Parts'
    BY <1>1, <2>1 DEF DeliveryInv, Parts, Follows
  <2>3. ChosenOnce'
    BY <1>1, <1>2, <2>1 DEF ChosenOnce, Chosen
  <2>4. Complete'
    BY <1>1, <1>2, <2>1 DEF DeliveryInv, Complete
  <2> QED
    BY <2>2, <2>3, <2>4
<1>7. CASE ForwardDrain
  <2>1. UNCHANGED <<fwd, hand, out, outClosed>> /\ fwd = "drain" /\ TakeHead(n)
    BY <1>7 DEF ForwardDrain, fwdVars
  <2>2. done
    BY <2>1 DEF DeliveryInv, ChosenOnce
  <2>3. Parts' /\ ChosenOnce'
    BY <1>1, <1>2, <2>1 DEF DeliveryInv, Parts, ChosenOnce, Chosen
  <2>4. Complete'
    BY <1>1, <1>2, <2>1, <2>2, TakesOne DEF Complete
  <2> QED
    BY <2>3, <2>4
<1>8. CASE ForwardEnd
  <2>1. UNCHANGED <<chan, hand, out>> /\ hand = <<>> /\ fwd' = "over" /\ outClosed'
    BY <1>8 DEF ForwardEnd, chanVars
  <2>2. fwd = "drain" => done
    BY DEF DeliveryInv, ChosenOnce
  <2>3. Forwarded' = Forwarded
    BY <1>1, <2>1 DEF Forwarded
  <2>4. Parts'
    BY <1>1, <2>1 DEF DeliveryInv, Parts
  <2>5. ChosenOnce'
    BY <1>1, <1>2, <2>1 DEF ChosenOnce, Chosen
  <2>6. Complete'
    BY <1>1, <1>2, <2>1, <2>2, <2>3 DEF DeliveryInv, Complete
  <2> QED
    BY <2>4, <2>5, <2>6
<1> QED
  BY <1>4, <1>5, <1>6, <1>7, <1>8 DEF Forwarder

LEMMA CallerDelivers ==
    ASSUME DeliveryInv, Caller \/ DeliverFails \/ CtxDone
    PROVE  (Parts /\ ChosenOnce /\ Complete)'
<1>1. Typed /\ n \in 0..MaxAttempts
  BY DEF DeliveryInv, FinalizerInv, Typed, WorkerType
<1>2. CASE ReadOut
  <2>1. /\ UNCHANGED <<done, wpc, n, result, read, chan, sent, fwd, hand, outClosed>>
        /\ out # <<>> /\ received' = Append(received, Head(out)) /\ out' = Tail(out)
    BY <1>2 DEF ReadOut, ctxVars, workerVars, chanVars
  <2>2. /\ out \in Seq(Nat) /\ received \in Seq(Nat) /\ Len(received) \in Nat
        /\ Len(out) \in Nat /\ Len(hand) \in Nat
    BY <1>1, LenProperties DEF Typed, FwdType, CallerType
  <2>3. /\ Head(out) = Len(received) + 1 /\ Len(out) = Len(out') + 1 /\ Len(out') \in Nat
        /\ Follows(out', Len(received) + 1)
    <3>1. /\ Head(out) = Len(received) + 1 /\ Tail(out) \in Seq(Nat) /\ Len(out) = Len(Tail(out)) + 1
          /\ Follows(Tail(out), Len(received) + 1)
      BY <2>1, <2>2, FollowsTail DEF DeliveryInv, Parts
    <3> QED
      BY <2>1, <3>1, LenProperties
  <2>4. received' = Append(received, 0 + Len(received) + 1)
    BY <2>1, <2>2, <2>3
  <2>5. Len(received') = Len(received) + 1 /\ Follows(received', 0)
    BY <2>2, <2>4, FollowsAppend DEF DeliveryInv, Parts
  <2>6. Len(received') + Len(out') = Len(received) + Len(out) /\ Forwarded' = Forwarded
    BY <2>1, <2>2, <2>3, <2>5 DEF Forwarded
  <2>7. Parts'
    BY <2>1, <2>3, <2>5, <2>6 DEF DeliveryInv, Parts
  <2>8. Chosen' /\ Chosen /\ ~BetweenAttempts
    BY <2>1 DEF DeliveryInv, ChosenOnce, Chosen
  <2>9. ChosenOnce'
    BY <2>1, <2>8 DEF DeliveryInv, ChosenOnce, BetweenAttempts
  <2>10. Complete'
    BY <2>1, <2>6, <2>8 DEF DeliveryInv, Complete
  <2> QED
    BY <2>7, <2>9, <2>10
<1>3. CASE ~ReadOut
  <2>1. /\ UNCHANGED <<n, read, chan, sent, fwdVars, received>>
        /\ done => done'
        /\ wpc' = wpc \/ (wpc = "deliver" /\ wpc' = "idle") \/ (BetweenAttempts /\ wpc' # "check")
        /\ BetweenAttempts' => BetweenAttempts
    BY <1>3 DEF Caller, ReceiveStream, ReceiveError, Leave, ReadEnd, DeliverFails, CtxDone,
       ctxVars, workerVars, chanVars, callerVars, BetweenAttempts
  <2>2. Chosen => wpc' \in {"store", "deliver", "idle"} /\ ~BetweenAttempts'
    BY <2>1 DEF DeliveryInv, ChosenOnce
  <2>3. wpc' = "check" => wpc = "check"
    BY <2>1
  <2> QED
    BY <1>1, <2>1, <2>2, <2>3, NothingMoves
<1> QED
  BY <1>2, <1>3

LEMMA InitDelivery == Init => Parts /\ ChosenOnce /\ Complete
<1> SUFFICES ASSUME Init PROVE Parts /\ ChosenOnce /\ Complete
  OBVIOUS
<1>1. /\ received = <<>> /\ out = <<>> /\ hand = <<>> /\ fwd = "off" /\ ~outClosed
      /\ wpc = "begin"
      /\ \A i \in Attempts : chan[i].queue = <<>> /\ sent[i] = 0
  BY DEF Init
<1> QED
  BY <1>1 DEF Parts, Follows, ChosenOnce, Chosen, Complete

LEMMA DeliveryAlways == Spec => []DeliveryInv
<1>1. Init => DeliveryInv
  BY InitFinalizer, InitDelivery DEF DeliveryInv
<1>2. ASSUME DeliveryInv, [Next]_vars PROVE DeliveryInv'
  <2>1. FinalizerInv'
    BY <1>2, StepFinalizer DEF DeliveryInv
  <2>2. CASE UNCHANGED vars
    BY <1>2, <2>2 DEF DeliveryInv, Parts, ChosenOnce, Complete, Chosen, Forwarded, BetweenAttempts,
       vars, ctxVars, workerVars, provVars, attemptVars, chanVars, fwdVars, callerVars, histVars,
       FinalizerInv, Typed, CtxType, WorkerType, ProvType, AttemptType, ChanType, FwdType, CallerType,
       HistType, Started, OneAtWork, Active, HeldInHand, InHand, Reading, HooksHoldPipeline
  <2>3. CASE Worker
    BY <1>2, <2>1, <2>3, WorkerDelivers, AttemptDelivers, CheckDelivers DEF Worker, DeliveryInv
  <2>4. CASE Next /\ ~Worker
    BY <1>2, <2>1, <2>4, ProviderDelivers, ForwardDelivers, CallerDelivers DEF Next, DeliveryInv
  <2> QED
    BY <1>2, <2>2, <2>3, <2>4
<1> QED
  BY <1>1, <1>2, PTL DEF Spec

(* CheckFirstStreamChunkForError and its forwarder lose and reorder        *)
(* nothing: the caller reads the chosen attempt's chunks in order, and all *)
(* of them are on their way while its context is alive.                    *)
THEOREM EveryChunkArrives == Spec => []ChunksDelivered
<1>1. ASSUME DeliveryInv, Chosen
      PROVE  /\ received = [k \in 1..Len(received) |-> k]
             /\ ~done => Way = [k \in 1..sent[n] |-> k]
  <2>1. /\ hand \in Seq(Nat) /\ out \in Seq(Nat) /\ received \in Seq(Nat)
        /\ Len(hand) \in Nat /\ Len(out) \in Nat /\ Len(received) \in Nat
    BY <1>1, LenProperties DEF DeliveryInv, FinalizerInv, Typed, FwdType, CallerType
  <2>2. \A s \in Seq(Nat) : Follows(s, 0) => s = [k \in 1..Len(s) |-> k]
    <3>1. ASSUME NEW s \in Seq(Nat), Follows(s, 0) PROVE s = [k \in 1..Len(s) |-> k]
      <4>1. s = [k \in 1..Len(s) |-> s[k]]
        BY LenProperties
      <4>2. \A k \in 1..Len(s) : s[k] = k
        BY <3>1 DEF Follows
      <4> QED
        BY <4>1, <4>2
    <3> QED
      BY <3>1
  <2>3. received = [k \in 1..Len(received) |-> k]
    BY <1>1, <2>1, <2>2 DEF DeliveryInv, Parts
  <2>4. ASSUME ~done PROVE Way = [k \in 1..sent[n] |-> k]
    <3> DEFINE q == chan[n].queue
               c == InChannel(n)
    <3>1. Queued(q, Forwarded, sent[n])
      BY <1>1, <2>4 DEF DeliveryInv, Complete
    <3>2. n \in Attempts
      BY <1>1 DEF DeliveryInv, ChosenOnce, FinalizerInv, Typed, WorkerType, Attempts
    <3>3. q \in Seq(Chunks) /\ Len(q) \in Nat
      <4>1. chan[n] \in Channels
        BY <1>1, <3>2 DEF DeliveryInv, FinalizerInv, Typed, ChanType
      <4>2. q \in Seq(Chunks)
        BY <4>1 DEF Channels
      <4> QED
        BY <4>2, LenProperties
    <3>4. c = [k \in 1..Len(q) |-> q[k].no]
      BY DEF InChannel
    <3> HIDE DEF q, c
    <3>5. \A k \in 1..Len(q) : q[k].no \in Nat
      <4>1. \A k \in 1..Len(q) : q[k] \in Chunks
        BY <3>3, ElementOfSeq
      <4> QED
        BY <4>1 DEF Chunks
    <3>6. c \in Seq(Nat) /\ Len(c) = Len(q)
      BY <3>3, <3>4, <3>5
    <3>7. Follows(c, Forwarded) /\ Forwarded + Len(c) = sent[n]
      BY <3>1, <3>4, <3>6 DEF Follows, Queued
    <3>8. /\ received \o out \in Seq(Nat) /\ Len(received \o out) = Len(received) + Len(out)
          /\ Follows(received \o out, 0)
      BY <1>1, <2>1, FollowsConcat DEF DeliveryInv, Parts
    <3> DEFINE v == received \o out
               u == v \o hand
    <3>9. u \in Seq(Nat) /\ Len(u) = Forwarded /\ Follows(u, 0)
      <4>1. v \in Seq(Nat) /\ Len(v) = Len(received) + Len(out) /\ Follows(v, 0)
        BY <3>8
      <4> HIDE DEF v
      <4>2. Follows(hand, 0 + Len(v))
        <5>1. 0 + Len(v) = Len(received) + Len(out)
          BY <2>1, <4>1
        <5> QED
          BY <1>1, <5>1 DEF DeliveryInv, Parts
      <4>3. v \o hand \in Seq(Nat) /\ Len(v \o hand) = Len(v) + Len(hand) /\ Follows(v \o hand, 0)
        BY <2>1, <4>1, <4>2, FollowsConcat
      <4> QED
        BY <2>1, <4>1, <4>3 DEF Forwarded
    <3> HIDE DEF u
    <3>10. u \o c \in Seq(Nat) /\ Len(u \o c) = sent[n] /\ Follows(u \o c, 0)
      <4>1. 0 + Len(u) = Forwarded
        BY <2>1, <3>9 DEF Forwarded
      <4>2. Follows(c, 0 + Len(u))
        BY <3>7, <4>1
      <4>3. u \o c \in Seq(Nat) /\ Len(u \o c) = Len(u) + Len(c) /\ Follows(u \o c, 0)
        BY <3>6, <3>9, <4>2, FollowsConcat
      <4> QED
        BY <3>7, <3>9, <4>3
    <3>11. u \o c = [k \in 1..Len(u \o c) |-> k]
      BY <2>2, <3>10
    <3> QED
      BY <3>10, <3>11 DEF Way, u, v, c
  <2> QED
    BY <2>3, <2>4
<1> QED
  BY <1>1, DeliveryAlways, PTL DEF ChunksDelivered

=============================================================================
