----------------------------- MODULE StreamGate -----------------------------
(***************************************************************************)
(* The pause / resume / end gate of one streamed response: the gate state  *)
(* of framework/streaming (gate.go), the life of the accumulator entry it  *)
(* hangs on (accumulator.go), and the provider goroutine that sends        *)
(* through it and closes the response channel (core/providers/utils).      *)
(*                                                                         *)
(* Four parties share a gate: the provider goroutine, which runs the post  *)
(* hooks, sends chunks and closes; plugins, which pause, resume and end    *)
(* the stream from any goroutine; the flusher, started on the first        *)
(* buffered chunk; and the reaper (trace completer or TTL sweep).  The     *)
(* mutex of the gate is free while a chunk is being sent, and the entry    *)
(* may be deleted and created again between a lookup and its use.          *)
(***************************************************************************)
EXTENDS Integers, Sequences, FiniteSets, SequencesExt

CONSTANTS
    Chunks,      \* number of chunks the provider sends at most
    BufferLimit, \* gateReplayBufMaxBytes, in chunks
    MaxGates,    \* bound: gates created for the stream
    MaxControls, \* bound: plugin calls of Pause, Resume and End
    Reaping,     \* TRUE iff the TTL sweep may find the stream too old
    NoGate       \* no entry in streamAccumulators

ASSUME NatAssumption ==
    /\ {Chunks, BufferLimit, MaxGates} \subseteq Nat \ {0}
    /\ MaxControls \in Nat
ASSUME ReapingAssumption == Reaping \in BOOLEAN

Gates == 1 .. MaxGates
ASSUME NoGateAssumption == NoGate \notin Gates

VARIABLES
    gate,      \* the StreamAccumulators created so far, in order
    entry,     \* the one streamAccumulators maps the trace to, or NoGate
    gated,     \* BifrostContextKeyStreamGated
    cancelled, \* the request's context is done
    producer,  \* the provider goroutine
    call,      \* plugin calls between the lookup of the entry and its lock
    controls,  \* plugin calls made
    out,       \* chunks sent on the response channel, in order
    accepted,  \* history: chunks buffered, or sent with success
    owed,      \* history: the mapped gate staged a terminal error for a known channel
    reaped     \* history: the entry was reaped by force

vars == <<gate, entry, gated, cancelled, producer, call, controls, out,
          accepted, owed, reaped>>

(* The synthetic terminal error is one more chunk.                         *)
TerminalError == Chunks + 1

Operations == {"pause", "resume", "end", "endError"}
NoCall == [op |-> "none", on |-> NoGate]

(***************************************************************************)
(* A gate.  Its flusher is "off", "wait"ing on the condition variable,     *)
(* about to "check" it with the lock, or has released the lock to "send"   *)
(* chunk hold or to send the terminal "error".                             *)
(***************************************************************************)
NewGate == [state |-> "active", buf |-> <<>>, term |-> FALSE, endErr |-> FALSE,
            target |-> FALSE, cleanup |-> FALSE, refs |-> 0,
            flusher |-> "off", hold |-> 0]

Ended(g) == g.state = "ended"
Running(g) == g.flusher # "off"
Sending(g) == g.flusher \in {"send", "error"}

Broadcast(g) == IF g.flusher = "wait" THEN [g EXCEPT !.flusher = "check"] ELSE g
StartFlusher(g) == IF Running(g) THEN g ELSE [g EXCEPT !.flusher = "check"]

Pause(g) == IF g.state = "active" THEN [g EXCEPT !.state = "paused"] ELSE g
(* Resume wakes the flusher, or lets it sleep (mutant).                    *)
ResumeInSilence(g) == IF g.state = "paused" THEN [g EXCEPT !.state = "active"] ELSE g
Resume(g) == IF g.state = "paused" THEN Broadcast([g EXCEPT !.state = "active"]) ELSE g

(* End starts a flusher where there is work for one, and wakes the one     *)
(* there is; or forgets the broadcast (mutant).                            *)
EndInSilence(g, withError) ==
    LET ended == [g EXCEPT !.state = "ended", !.endErr = @ \/ withError]
    IN  IF Ended(g) THEN g
        ELSE IF g.target /\ (g.buf # <<>> \/ ended.endErr) THEN StartFlusher(ended) ELSE ended

End(g, withError) ==
    LET ended == [g EXCEPT !.state = "ended", !.endErr = @ \/ withError]
        work  == g.target /\ (g.buf # <<>> \/ ended.endErr)
    IN  IF Ended(g) THEN g
        ELSE Broadcast(IF work THEN StartFlusher(ended) ELSE ended)

Buffer(g, c) == [g EXCEPT !.buf = Append(@, c)]

(* Where the flusher, holding the lock, lets go of it again.               *)
AfterDrain(g) ==
    LET settled == IF g.term /\ g.state = "active"
                   THEN [g EXCEPT !.term = FALSE, !.state = "ended"] ELSE g
    IN  IF ~Ended(settled) THEN [settled EXCEPT !.flusher = "wait"]
        ELSE IF settled.endErr THEN [settled EXCEPT !.flusher = "error", !.endErr = FALSE]
        ELSE [settled EXCEPT !.flusher = "off"]

(* The loop of drainBufferLocked, which stops at a pause.                  *)
Drain(g) ==
    IF g.state # "paused" /\ g.buf # <<>>
    THEN [g EXCEPT !.flusher = "send", !.hold = Head(g.buf), !.buf = Tail(g.buf)]
    ELSE AfterDrain(g)

Check(g) ==
    IF ~Ended(g) /\ (g.state = "paused" \/ g.buf = <<>>)
    THEN [g EXCEPT !.flusher = "wait"]
    ELSE Drain(g)

Abandon(g) == AfterDrain([g EXCEPT !.buf = <<>>, !.state = "ended"])

-----------------------------------------------------------------------------
(* getOrCreateStreamAccumulator.                                           *)
Lookup == IF entry = NoGate THEN Len(gate) + 1 ELSE entry
Known == IF entry = NoGate THEN Append(gate, NewGate) ELSE gate
CanLookup == entry # NoGate \/ Len(gate) < MaxGates

(* cleanupStreamAccumulator for the entry of the trace, given all gates.   *)
(* It waits for a flusher and for a paused gate; for the latter only       *)
(* (mutant).                                                               *)
DeferredWhilePaused(gs) == gs[entry].state = "paused"

Deferred(gs) == Running(gs[entry]) \/ gs[entry].state = "paused"

Teardown(gs) ==
    IF entry # NoGate /\ Deferred(gs)
    THEN /\ gate' = [gs EXCEPT ![entry].cleanup = TRUE]
         /\ entry' = entry
    ELSE /\ gate' = gs
         /\ entry' = NoGate

ForceEnd(g) ==
    IF Ended(g) THEN g
    ELSE Broadcast([g EXCEPT !.state = "ended", !.term = FALSE, !.endErr = FALSE,
                             !.buf = <<>>])

(* The flusher of gate i leaves the lock as g, running its deferred        *)
(* function when it exits.                                                 *)
Leave(i, g) ==
    LET gs == [gate EXCEPT ![i] = g]
    IN  IF ~Running(g) /\ g.cleanup
        THEN Teardown(gs)
        ELSE gate' = gs /\ entry' = entry

Closed == producer.pc = "closed"
Delivered(c) == ~Closed /\ out' = Append(out, c)
Undelivered == (Closed \/ cancelled) /\ out' = out

-----------------------------------------------------------------------------
(* CreateStreamAccumulator has run in the logging plugin's pre hook.       *)
Init ==
    /\ gate = <<[NewGate EXCEPT !.refs = 1]>>
    /\ entry = 1
    /\ gated = FALSE
    /\ cancelled = FALSE
    /\ producer = [pc |-> "hook", chunk |-> 1, final |-> FALSE, on |-> NoGate]
    /\ call = NoCall
    /\ controls = 0
    /\ out = <<>>
    /\ accepted = {}
    /\ owed = FALSE
    /\ reaped = FALSE

(* The producer is through with its chunk: the next one, or the close.     *)
Advance ==
    producer' = IF producer.final
                THEN [producer EXCEPT !.pc = "close"]
                ELSE [producer EXCEPT !.pc = "hook", !.chunk = @ + 1]

(* The post hooks of a chunk.  The last one, which a failure or a          *)
(* cancellation may bring forward, makes the logging plugin give up its    *)
(* reference.                                                              *)
PostHooks(final) ==
    LET gs == [gate EXCEPT ![entry].refs = @ - 1]
    IN  /\ producer.pc = "hook"
        /\ producer.chunk = Chunks \/ cancelled => final
        /\ producer' = [producer EXCEPT !.pc = "route", !.final = final]
        /\ IF final /\ entry # NoGate
           THEN IF gs[entry].refs <= 0 THEN Teardown(gs) ELSE gate' = gs /\ entry' = entry
           ELSE UNCHANGED <<gate, entry>>
        /\ UNCHANGED <<gated, cancelled, call, controls, out, accepted, owed, reaped>>

(* GateSendChunk: the gate if a plugin has engaged it, else the channel.   *)
Route ==
    /\ producer.pc = "route"
    /\ IF gated
       THEN /\ CanLookup
            /\ gate' = Known
            /\ entry' = Lookup
            /\ producer' = [producer EXCEPT !.pc = "gate", !.on = Lookup]
       ELSE /\ producer' = [producer EXCEPT !.pc = "send"]
            /\ UNCHANGED <<gate, entry>>
    /\ UNCHANGED <<gated, cancelled, call, controls, out, accepted, owed, reaped>>

(* A post hook asked to skip the chunk.                                    *)
SkipChunk ==
    /\ producer.pc = "route"
    /\ Advance
    /\ UNCHANGED <<gate, entry, gated, cancelled, call, controls, out, accepted, owed, reaped>>

(* GateSend, by the state it finds: the gate it leaves, and whether the    *)
(* chunk is dropped, kept in the buffer, or sent by the producer itself.   *)
Overflow(g) == StartFlusher(Broadcast([g EXCEPT !.state = "ended", !.endErr = TRUE]))

(* The paused branch starts the flusher, or leaves that to End (mutant).   *)
HoldBackAlone(g, c, final) ==
    IF Len(g.buf) >= BufferLimit
    THEN [gate |-> Overflow(g), fate |-> "drop"]
    ELSE [gate |-> [Buffer(g, c) EXCEPT !.term = @ \/ final], fate |-> "keep"]

HoldBack(g, c, final) ==
    IF Len(g.buf) >= BufferLimit
    THEN [gate |-> Overflow(g), fate |-> "drop"]
    ELSE [gate |-> StartFlusher([Buffer(g, c) EXCEPT !.term = @ \/ final]), fate |-> "keep"]

PassOn(g, c, final) ==
    LET ending == IF final THEN [g EXCEPT !.state = "ended"] ELSE g
    IN  IF g.buf # <<>> \/ (final /\ Running(g))
        THEN [gate |-> Broadcast(Buffer(ending, c)), fate |-> "keep"]
        ELSE [gate |-> ending, fate |-> "send"]

Gated(g, c, final) ==
    CASE g.state = "ended"  -> [gate |-> g, fate |-> "drop"]
      [] g.state = "paused" -> HoldBack(g, c, final)
      [] g.state = "active" -> PassOn(g, c, final)

GateSend ==
    LET g    == [gate[producer.on] EXCEPT !.target = TRUE]
        done == Gated(g, producer.chunk, producer.final)
    IN  /\ producer.pc = "gate"
        /\ gate' = [gate EXCEPT ![producer.on] = done.gate]
        /\ owed' = (owed \/ (done.gate.endErr /\ ~g.endErr))
        /\ accepted' = IF done.fate = "keep" THEN accepted \union {producer.chunk} ELSE accepted
        /\ IF done.fate = "send"
           THEN producer' = [producer EXCEPT !.pc = "send"]
           ELSE Advance
        /\ UNCHANGED <<entry, gated, cancelled, call, controls, out, reaped>>

(* The producer's own send, the lock released.                             *)
SendDirect ==
    /\ producer.pc = "send"
    /\ \/ Delivered(producer.chunk) /\ accepted' = accepted \union {producer.chunk}
       \/ Undelivered /\ accepted' = accepted
    /\ Advance
    /\ UNCHANGED <<gate, entry, gated, cancelled, call, controls, owed, reaped>>

(* CloseStream: end the gate, wait for its flusher, close the channel.     *)
CloseStream ==
    /\ producer.pc = "close"
    /\ IF gated
       THEN /\ CanLookup
            /\ entry' = Lookup
            /\ gate' = [Known EXCEPT ![Lookup] = End(@, FALSE)]
            /\ producer' = [producer EXCEPT !.pc = "find"]
       ELSE /\ producer' = [producer EXCEPT !.pc = "closed"]
            /\ UNCHANGED <<gate, entry>>
    /\ UNCHANGED <<gated, cancelled, call, controls, out, accepted, owed, reaped>>

(* The flusher CloseStream waits for; it might not wait (mutant).          *)
CloseAtOnce ==
    /\ producer.pc = "find"
    /\ producer' = [producer EXCEPT !.pc = "closed"]
    /\ UNCHANGED <<gate, entry, gated, cancelled, call, controls, out, accepted, owed, reaped>>

WaitForFlusher ==
    /\ producer.pc = "find"
    /\ producer' = IF entry # NoGate /\ Running(gate[entry])
                   THEN [producer EXCEPT !.pc = "wait", !.on = entry]
                   ELSE [producer EXCEPT !.pc = "closed"]
    /\ UNCHANGED <<gate, entry, gated, cancelled, call, controls, out, accepted, owed, reaped>>

FlusherDone ==
    /\ producer.pc = "wait"
    /\ ~Running(gate[producer.on])
    /\ producer' = [producer EXCEPT !.pc = "closed"]
    /\ UNCHANGED <<gate, entry, gated, cancelled, call, controls, out, accepted, owed, reaped>>

Producer ==
    \/ \E final \in BOOLEAN : PostHooks(final)
    \/ Route \/ SkipChunk \/ GateSend \/ SendDirect
    \/ CloseStream \/ WaitForFlusher \/ FlusherDone

-----------------------------------------------------------------------------
(* ctx.PauseStream, ResumeStream and EndStream: engage the gate and look   *)
(* the entry up, then act on what was found.                               *)
Engage(op) ==
    /\ call = NoCall
    /\ controls < MaxControls
    /\ CanLookup
    /\ controls' = controls + 1
    /\ gated' = TRUE
    /\ gate' = Known
    /\ entry' = Lookup
    /\ call' = [op |-> op, on |-> Lookup]
    /\ UNCHANGED <<cancelled, producer, out, accepted, owed, reaped>>

Applied(g, op) ==
    CASE op = "pause"    -> Pause(g)
      [] op = "resume"   -> Resume(g)
      [] op = "end"      -> End(g, FALSE)
      [] op = "endError" -> End(g, TRUE)

Apply ==
    LET g == gate[call.on]
    IN  /\ call # NoCall
        /\ gate' = [gate EXCEPT ![call.on] = Applied(g, call.op)]
        /\ owed' = (owed \/ (call.op = "endError" /\ ~Ended(g) /\ g.target /\ call.on = entry))
        /\ call' = NoCall
        /\ UNCHANGED <<entry, gated, cancelled, producer, controls, out, accepted, reaped>>

Plugin == Apply \/ \E op \in Operations : Engage(op)

-----------------------------------------------------------------------------
(* gateFlusher.                                                            *)
FlusherChecks(i) ==
    /\ gate[i].flusher = "check"
    /\ Leave(i, Check(gate[i]))
    /\ UNCHANGED <<gated, cancelled, producer, call, controls, out, accepted, owed, reaped>>

FlusherSends(i) ==
    /\ gate[i].flusher = "send"
    /\ \/ Delivered(gate[i].hold) /\ Leave(i, Drain(gate[i]))
       \/ Undelivered /\ Leave(i, Abandon(gate[i]))
    /\ UNCHANGED <<gated, cancelled, producer, call, controls, accepted, owed, reaped>>

FlusherEnds(i) ==
    /\ gate[i].flusher = "error"
    /\ Delivered(TerminalError) \/ Undelivered
    /\ Leave(i, [gate[i] EXCEPT !.flusher = "off"])
    /\ UNCHANGED <<gated, cancelled, producer, call, controls, accepted, owed, reaped>>

Flusher(i) == FlusherChecks(i) \/ FlusherSends(i) \/ FlusherEnds(i)

-----------------------------------------------------------------------------
(* ForceCleanupStreamAccumulator, called when the client has drained the   *)
(* stream or left; the TTL sweep does the same to a stream too old.        *)
Reap ==
    /\ ~reaped  \* bound: one reap
    /\ Closed \/ cancelled \/ Reaping
    /\ entry # NoGate
    /\ gate' = [gate EXCEPT ![entry] = ForceEnd(@)]
    /\ entry' = NoGate
    /\ reaped' = TRUE
    /\ UNCHANGED <<gated, cancelled, producer, call, controls, out, accepted, owed>>

Cancel ==
    /\ ~cancelled
    /\ cancelled' = TRUE
    /\ UNCHANGED <<gate, entry, gated, producer, call, controls, out, accepted, owed, reaped>>

Finished ==
    /\ Closed
    /\ \A i \in DOMAIN gate : gate[i].flusher \in {"off", "wait"}
    /\ UNCHANGED vars

Next ==
    \/ Producer
    \/ Plugin
    \/ \E i \in DOMAIN gate : Flusher(i)
    \/ Reap
    \/ Cancel
    \/ Finished

(* The goroutines run; a send goes through because the client reads the     *)
(* channel until it is closed, or its context is done.                     *)
Fairness ==
    /\ WF_vars(Producer)
    /\ WF_vars(Apply)
    /\ \A i \in Gates : WF_vars(i \in DOMAIN gate /\ Flusher(i))

Spec == Init /\ [][Next]_vars
FairSpec == Spec /\ Fairness

-----------------------------------------------------------------------------
GateRecord ==
    [state : {"active", "paused", "ended"}, buf : Seq(1 .. Chunks), term : BOOLEAN,
     endErr : BOOLEAN, target : BOOLEAN, cleanup : BOOLEAN, refs : Int,
     flusher : {"off", "wait", "check", "send", "error"}, hold : 0 .. Chunks]

(* Every variable has its type, and no gate buffers more than its limit    *)
(* and the chunks that join while it drains.                               *)
TypeOK ==
    /\ gate \in Seq(GateRecord) /\ Len(gate) \in Gates
    /\ entry \in DOMAIN gate \union {NoGate}
    /\ {gated, cancelled, owed, reaped} \subseteq BOOLEAN
    /\ producer \in [pc : {"hook", "route", "gate", "send", "close", "find", "wait", "closed"},
                     chunk : 1 .. Chunks, final : BOOLEAN, on : Gates \union {NoGate}]
    /\ call \in [op : Operations, on : DOMAIN gate] \union {NoCall}
    /\ controls \in 0 .. MaxControls
    /\ out \in Seq(1 .. TerminalError)
    /\ accepted \subseteq 1 .. Chunks

(* Broadcasts are not lost: a flusher asleep on the condition variable has *)
(* nothing to do.  Resume, End, an append while the buffer drains and a    *)
(* forced reap all change what it waits for, and each must wake it.        *)
NoLostWakeup ==
    \A i \in DOMAIN gate :
        gate[i].flusher = "wait" =>
            ~Ended(gate[i]) /\ (gate[i].state = "paused" \/ gate[i].buf = <<>>)

(* A chunk GateSend took into a buffer always has a flusher to deliver it, *)
(* though only the paused branch and End start one.                        *)
NoStrandedChunk ==
    \A i \in DOMAIN gate : gate[i].buf # <<>> => Running(gate[i])

(* No chunk is sent twice, and when the response channel closes everything *)
(* GateSend answered true for and the terminal error it owes have been     *)
(* sent, unless the client left or the stream was reaped: CloseStream      *)
(* waits for the right flusher, and a deferred cleanup loses no buffer.    *)
NothingLost ==
    /\ \A i, j \in DOMAIN out : i # j /\ out[i] = out[j] => out[i] = TerminalError
    /\ Closed /\ ~cancelled /\ ~reaped =>
           /\ accepted \subseteq ToSet(out)
           /\ owed => TerminalError \in ToSet(out)

(* No flusher holds a chunk of the stream when its channel is closed (the  *)
(* send would panic), unless the stream was reaped under it: CloseStream   *)
(* waits for every flusher but that of an EndStream that looked its gate   *)
(* up before the entry was deleted, which has only an error to lose.       *)
QuietClose ==
    Closed /\ ~reaped =>
        \A i \in DOMAIN gate : gate[i].buf = <<>> /\ gate[i].flusher # "send"

(* However plugins pause, the provider goroutine gets through CloseStream, *)
(* even if the stream is reaped under it, and otherwise no flusher is left *)
(* asleep or sending.                                                      *)
StreamEnds ==
    <>[](Closed /\ (reaped \/ \A i \in DOMAIN gate : ~Running(gate[i])))

(* What gate.go:341 says of the append to a buffer that drains: "if a      *)
(* flusher is mid-drain (buffer non-empty), append so order is preserved   *)
(* between buffered and live chunks".                                      *)
InOrder ==
    \A i, j \in DOMAIN out :
        i < j /\ out[j] # TerminalError => out[i] < out[j] \/ out[i] = TerminalError

=============================================================================
