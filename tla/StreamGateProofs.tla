-------------------------- MODULE StreamGateProofs --------------------------
(***************************************************************************)
(* Proofs about StreamGate, for every number of chunks, plugin calls and   *)
(* accumulator entries and every limit of the replay buffer.               *)
(*                                                                         *)
(* The inductive invariant is built in three layers.  The first speaks of  *)
(* one gate: what its mutex protects.  The second follows the entry of the *)
(* trace and says which gates are over once another one is mapped, or once *)
(* the producer closes.  The third follows each chunk.                     *)
(***************************************************************************)
EXTENDS StreamGate, SequenceTheorems, TLAPS

(* What the mutex of a gate protects: a sleeping flusher has nothing to do *)
(* and a filled buffer has a flusher; a terminal error comes last; a gate  *)
(* nobody has sent through has neither chunks nor a flusher.               *)
Sound(g) ==
    /\ g.flusher = "wait" => ~Ended(g) /\ (g.state = "paused" \/ g.buf = <<>>)
    /\ g.buf # <<>> => Running(g)
    /\ g.flusher = "error" => Ended(g) /\ g.buf = <<>>
    /\ g.flusher = "send" => g.hold # 0
    /\ ~g.target => g.buf = <<>> /\ ~Running(g)

Fit(g) == g \in GateRecord /\ Sound(g)

-----------------------------------------------------------------------------
(* First layer: the operations of one gate.                                *)

(* A new entry has an open, empty gate without a flusher.                  *)
LEMMA NewFits ==
    Fit(NewGate) /\ Fit([NewGate EXCEPT !.refs = 1])
<1>1. 0 \in 0 .. Chunks /\ <<>> \in Seq(1 .. Chunks)
  BY NatAssumption
<1>2. NewGate \in GateRecord
  BY <1>1 DEF NewGate, GateRecord
<1>3. [NewGate EXCEPT !.refs = 1] \in GateRecord
  BY <1>2 DEF GateRecord
<1> QED
  BY <1>2, <1>3 DEF Fit, Sound, NewGate, Running, Ended

(* References and the flags of the entry do not concern the flusher.       *)
LEMMA RefsFit ==
    ASSUME NEW g, Fit(g), NEW n \in Int
    PROVE  Fit([g EXCEPT !.refs = n])
BY DEF Fit, Sound, GateRecord, Running, Ended

LEMMA FlagsFit ==
    ASSUME NEW g, Fit(g)
    PROVE  /\ Fit([g EXCEPT !.cleanup = TRUE])
           /\ Fit([g EXCEPT !.target = TRUE])
BY DEF Fit, Sound, GateRecord, Running, Ended

(* Pause does not concern it either, and Resume wakes it.                  *)
LEMMA PauseFits ==
    ASSUME NEW g, Fit(g)
    PROVE  Fit(Pause(g)) /\ Fit(Resume(g))
BY DEF Fit, Sound, GateRecord, Running, Ended, Pause, Resume, Broadcast

(* The two ways to get a flusher to work change nothing else.              *)
Same(g, h) ==
    /\ h.state = g.state /\ h.buf = g.buf /\ h.hold = g.hold
    /\ h.term = g.term /\ h.endErr = g.endErr
    /\ h.target = g.target /\ h.cleanup = g.cleanup

LEMMA Woken ==
    ASSUME NEW g \in GateRecord
    PROVE  /\ Broadcast(g) \in GateRecord
           /\ Same(g, Broadcast(g))
           /\ Broadcast(g).flusher = IF g.flusher = "wait" THEN "check" ELSE g.flusher
<1>1. CASE g.flusher = "wait"
  BY <1>1 DEF GateRecord, Broadcast, Same
<1>2. CASE g.flusher # "wait"
  BY <1>2 DEF Broadcast, Same
<1> QED
  BY <1>1, <1>2

LEMMA Started ==
    ASSUME NEW g \in GateRecord
    PROVE  /\ StartFlusher(g) \in GateRecord
           /\ Same(g, StartFlusher(g))
           /\ StartFlusher(g).flusher = IF g.flusher = "off" THEN "check" ELSE g.flusher
<1>1. CASE g.flusher = "off"
  BY <1>1 DEF GateRecord, StartFlusher, Running, Same
<1>2. CASE g.flusher # "off"
  BY <1>2 DEF StartFlusher, Running, Same
<1> QED
  BY <1>1, <1>2

(* End, for what it sets and whom it wakes.                                *)
LEMMA Ending ==
    ASSUME NEW g \in GateRecord, NEW e \in BOOLEAN, ~Ended(g)
    PROVE  LET h == End(g, e) IN
           /\ h \in GateRecord
           /\ h.state = "ended" /\ h.endErr = (g.endErr \/ e)
           /\ h.buf = g.buf /\ h.hold = g.hold /\ h.term = g.term
           /\ h.target = g.target /\ h.cleanup = g.cleanup
           /\ h.flusher = IF \/ g.flusher = "wait"
                             \/ g.flusher = "off" /\ g.target /\ (g.buf # <<>> \/ h.endErr)
                          THEN "check" ELSE g.flusher
<1> DEFINE x == [g EXCEPT !.state = "ended", !.endErr = @ \/ e]
           work == g.target /\ (g.buf # <<>> \/ x.endErr)
<1>1. x \in GateRecord
  BY DEF GateRecord
<1>2. /\ x.state = "ended" /\ x.endErr = (g.endErr \/ e)
      /\ x.buf = g.buf /\ x.hold = g.hold /\ x.term = g.term
      /\ x.target = g.target /\ x.cleanup = g.cleanup /\ x.flusher = g.flusher
  BY DEF GateRecord
<1>3. End(g, e) = Broadcast(IF work THEN StartFlusher(x) ELSE x)
  BY DEF End
<1> HIDE DEF x
<1>4. CASE work
  <2>1. StartFlusher(x) \in GateRecord /\ Same(x, StartFlusher(x))
        /\ StartFlusher(x).flusher = IF x.flusher = "off" THEN "check" ELSE x.flusher
    BY <1>1, Started
  <2>2. /\ End(g, e) \in GateRecord /\ Same(StartFlusher(x), End(g, e))
        /\ End(g, e).flusher = IF StartFlusher(x).flusher = "wait" THEN "check"
                               ELSE StartFlusher(x).flusher
    BY <1>3, <1>4, <2>1, Woken
  <2> QED
    BY <1>2, <1>4, <2>1, <2>2 DEF Same
<1>5. CASE ~work
  <2>1. /\ End(g, e) \in GateRecord /\ Same(x, End(g, e))
        /\ End(g, e).flusher = IF x.flusher = "wait" THEN "check" ELSE x.flusher
    BY <1>1, <1>3, <1>5, Woken
  <2> QED
    BY <1>2, <1>5, <2>1 DEF Same
<1> QED
  BY <1>4, <1>5

LEMMA EndFits ==
    ASSUME NEW g, Fit(g), NEW e \in BOOLEAN
    PROVE  Fit(End(g, e))
<1>1. CASE Ended(g)
  BY <1>1 DEF End
<1>2. CASE ~Ended(g)
  BY <1>2, Ending DEF Fit, Sound, GateRecord, Ended, Running
<1> QED
  BY <1>1, <1>2

LEMMA ForceFits ==
    ASSUME NEW g, Fit(g)
    PROVE  Fit(ForceEnd(g))
BY EmptySeq DEF Fit, Sound, GateRecord, Running, Ended, ForceEnd, Broadcast, StartFlusher

(* What no operation of a gate takes back.                                 *)
Over(g) == Ended(g) /\ ~Running(g)

(* The terminal error is on its way.                                       *)
Pending(g) ==
    /\ Ended(g)
    /\ g.target
    /\ g.flusher = "error" \/ (g.endErr /\ g.flusher \in {"check", "send"})

Later(g, h) ==
    /\ h.target = g.target /\ h.cleanup = g.cleanup
    /\ Ended(g) => Ended(h)
    /\ Over(g) => Over(h)

(* An operation that moves no chunk.                                       *)
Unmoved(g, h) ==
    /\ h.buf = g.buf
    /\ h.flusher = "send" <=> g.flusher = "send"
    /\ h.flusher = "send" => h.hold = g.hold

(* The flusher takes the first chunk of the buffer, or none.               *)
Popped(g, h) ==
    \/ /\ g.buf # <<>>
       /\ h.flusher = "send" /\ h.hold = Head(g.buf) /\ h.buf = Tail(g.buf)
    \/ h.flusher # "send" /\ h.buf = g.buf

(* A plugin's call moves no chunk; EndStream with an error has one sent if *)
(* somebody has sent through the gate.                                     *)
LEMMA Controlled ==
    ASSUME NEW g, Fit(g), NEW op \in Operations
    PROVE  LET h == Applied(g, op) IN
           /\ Fit(h) /\ Later(g, h) /\ Unmoved(g, h)
           /\ Pending(g) => Pending(h)
           /\ op = "endError" /\ ~Ended(g) /\ g.target => Pending(h)
           /\ op \in {"end", "endError"} => Ended(h)
<1>1. CASE op = "pause"
  <2>1. Applied(g, op) = Pause(g)
    BY <1>1 DEF Applied
  <2> QED
    BY <1>1, <2>1, PauseFits
    DEF Fit, GateRecord, Pause, Later, Unmoved, Pending, Over, Ended, Running
<1>2. CASE op = "resume"
  <2>1. Applied(g, op) = Resume(g)
    BY <1>2 DEF Applied
  <2> DEFINE x == [g EXCEPT !.state = "active"]
  <2>2. CASE g.state = "paused"
    <3>1. x \in GateRecord
      BY DEF Fit, GateRecord
    <3>2. /\ x.state = "active" /\ x.buf = g.buf /\ x.hold = g.hold /\ x.flusher = g.flusher
          /\ x.target = g.target /\ x.cleanup = g.cleanup
      BY DEF Fit, GateRecord
    <3>3. Applied(g, op) = Broadcast(x)
      BY <2>1, <2>2 DEF Resume
    <3> HIDE DEF x
    <3>4. Fit(Broadcast(x))
      BY <2>1, <3>3, PauseFits
    <3> QED
      BY <1>2, <2>2, <3>1, <3>2, <3>3, <3>4, Woken
      DEF Same, Later, Unmoved, Pending, Over, Ended, Running
  <2>3. CASE g.state # "paused"
    <3>1. Applied(g, op) = g
      BY <2>1, <2>3 DEF Resume
    <3> QED
      BY <1>2, <3>1 DEF Later, Unmoved
  <2> QED
    BY <2>2, <2>3
<1>3. CASE op \in {"end", "endError"}
  <2>1. PICK e \in BOOLEAN : Applied(g, op) = End(g, e) /\ (op = "endError" => e)
    BY <1>3 DEF Applied
  <2>2. CASE Ended(g)
    <3>1. Applied(g, op) = g
      BY <2>1, <2>2 DEF End
    <3> QED
      BY <2>2, <3>1 DEF Later, Unmoved
  <2>3. CASE ~Ended(g)
    <3>1. Fit(End(g, e))
      BY EndFits
    <3> DEFINE h == End(g, e)
    <3>2. /\ h.state = "ended" /\ h.endErr = (g.endErr \/ e)
          /\ h.buf = g.buf /\ h.hold = g.hold
          /\ h.target = g.target /\ h.cleanup = g.cleanup
          /\ h.flusher = IF \/ g.flusher = "wait"
                            \/ g.flusher = "off" /\ g.target /\ (g.buf # <<>> \/ h.endErr)
                         THEN "check" ELSE g.flusher
      BY <2>3, Ending DEF Fit
    <3>3. g.flusher \in {"off", "wait", "check", "send"}
      BY <2>3 DEF Fit, Sound, GateRecord
    <3> HIDE DEF h
    <3>4. Later(g, h) /\ Unmoved(g, h) /\ Ended(h)
      BY <2>3, <3>2, <3>3 DEF Later, Unmoved, Over, Ended, Running
    <3>5. op = "endError" /\ g.target => Pending(h)
      BY <2>1, <3>2, <3>3 DEF Pending, Ended
    <3> QED
      BY <1>3, <2>1, <2>3, <3>1, <3>4, <3>5 DEF Pending, h
  <2> QED
    BY <2>2, <2>3
<1> QED
  BY <1>1, <1>2, <1>3 DEF Operations

(* Where the flusher lets go of the lock with nothing to send.             *)
LEMMA Settled ==
    ASSUME NEW g \in GateRecord
    PROVE  LET h     == AfterDrain(g)
               ended == Ended(g) \/ (g.term /\ g.state = "active")
           IN  /\ h \in GateRecord
               /\ h.buf = g.buf /\ h.target = g.target /\ h.cleanup = g.cleanup
               /\ IF ended THEN Ended(h) ELSE h.state = g.state
               /\ h.flusher = IF ~ended THEN "wait" ELSE IF g.endErr THEN "error" ELSE "off"
<1> DEFINE x == IF g.term /\ g.state = "active"
                THEN [g EXCEPT !.term = FALSE, !.state = "ended"] ELSE g
<1>1. x \in GateRecord
  BY DEF GateRecord
<1>2. /\ x.buf = g.buf /\ x.target = g.target /\ x.cleanup = g.cleanup /\ x.endErr = g.endErr
      /\ IF Ended(g) \/ (g.term /\ g.state = "active") THEN Ended(x) ELSE x.state = g.state /\ ~Ended(x)
  BY DEF GateRecord, Ended
<1>3. AfterDrain(g) = IF ~Ended(x) THEN [x EXCEPT !.flusher = "wait"]
                      ELSE IF x.endErr THEN [x EXCEPT !.flusher = "error", !.endErr = FALSE]
                      ELSE [x EXCEPT !.flusher = "off"]
  BY DEF AfterDrain
<1> HIDE DEF x
<1>4. CASE ~Ended(x)
  BY <1>1, <1>2, <1>3, <1>4 DEF GateRecord, Ended
<1>5. CASE Ended(x) /\ x.endErr
  BY <1>1, <1>2, <1>3, <1>5 DEF GateRecord, Ended
<1>6. CASE Ended(x) /\ ~x.endErr
  BY <1>1, <1>2, <1>3, <1>6 DEF GateRecord, Ended
<1> QED
  BY <1>4, <1>5, <1>6

(* The loop of drainBufferLocked, entered with the lock.                   *)
LEMMA Drained ==
    ASSUME NEW g, Fit(g), g.flusher \in {"check", "send"}
    PROVE  LET h == Drain(g) IN
           /\ Fit(h) /\ Later(g, h) /\ Popped(g, h)
           /\ Pending(g) => Pending(h)
           /\ ~Running(h) => Ended(h)
<1>1. CASE g.state # "paused" /\ g.buf # <<>>
  <2>1. Drain(g) = [g EXCEPT !.flusher = "send", !.hold = Head(g.buf), !.buf = Tail(g.buf)]
    BY <1>1 DEF Drain
  <2>2. Head(g.buf) \in 1 .. Chunks /\ Tail(g.buf) \in Seq(1 .. Chunks)
    BY <1>1, HeadTailProperties DEF Fit, GateRecord
  <2>6. Head(g.buf) \in 0 .. Chunks
    BY <2>2
  <2>3. Drain(g) \in GateRecord
    BY <2>1, <2>2, <2>6 DEF Fit, GateRecord
  <2>4. /\ Drain(g).flusher = "send" /\ Drain(g).hold = Head(g.buf) /\ Drain(g).buf = Tail(g.buf)
        /\ Drain(g).state = g.state /\ Drain(g).target = g.target
        /\ Drain(g).cleanup = g.cleanup /\ Drain(g).endErr = g.endErr
    BY <2>1 DEF Fit, GateRecord
  <2>5. Head(g.buf) # 0
    BY <2>2
  <2> QED
    BY <1>1, <2>3, <2>4, <2>5 DEF Fit, Sound, Later, Popped, Pending, Over, Ended, Running
<1>2. CASE ~(g.state # "paused" /\ g.buf # <<>>)
  <2>1. Drain(g) = AfterDrain(g)
    BY <1>2 DEF Drain
  <2> DEFINE h == Drain(g)
             ended == Ended(g) \/ (g.term /\ g.state = "active")
  <2>2. /\ h \in GateRecord
        /\ h.buf = g.buf /\ h.target = g.target /\ h.cleanup = g.cleanup
        /\ IF ended THEN Ended(h) ELSE h.state = g.state
        /\ h.flusher = IF ~ended THEN "wait" ELSE IF g.endErr THEN "error" ELSE "off"
    BY <2>1, Settled DEF Fit
  <2> HIDE DEF h
  <2>3. Sound(h)
    BY <1>2, <2>2 DEF Fit, Sound, Ended, Running
  <2>4. Later(g, h) /\ Popped(g, h)
    BY <2>2 DEF Later, Popped, Over, Ended, Running
  <2>5. Pending(g) => Pending(h)
    BY <2>2 DEF Pending, Ended
  <2> QED
    BY <2>2, <2>3, <2>4, <2>5 DEF Fit, Ended, Running, h
<1> QED
  BY <1>1, <1>2

(* The flusher's test, back from the condition variable.                   *)
LEMMA Checked ==
    ASSUME NEW g, Fit(g), g.flusher = "check"
    PROVE  LET h == Check(g) IN
           /\ Fit(h) /\ Later(g, h) /\ Popped(g, h)
           /\ Pending(g) => Pending(h)
           /\ ~Running(h) => Ended(h)
<1>1. CASE ~Ended(g) /\ (g.state = "paused" \/ g.buf = <<>>)
  BY <1>1 DEF Check, Fit, Sound, GateRecord, Later, Popped, Pending, Over, Ended, Running
<1>2. CASE ~(~Ended(g) /\ (g.state = "paused" \/ g.buf = <<>>))
  BY <1>2, Drained DEF Check
<1> QED
  BY <1>1, <1>2

(* A failed send empties the buffer and ends the gate.                     *)
LEMMA Abandoned ==
    ASSUME NEW g, Fit(g), g.flusher = "send"
    PROVE  LET h == Abandon(g) IN
           /\ Fit(h) /\ Later(g, h)
           /\ Ended(h) /\ h.buf = <<>> /\ h.flusher # "send"
<1> DEFINE x == [g EXCEPT !.buf = <<>>, !.state = "ended"]
<1>1. x \in GateRecord
  BY EmptySeq DEF Fit, GateRecord
<1>2. x.buf = <<>> /\ x.state = "ended" /\ x.target = g.target /\ x.cleanup = g.cleanup
  BY DEF Fit, GateRecord
<1>3. Abandon(g) = AfterDrain(x)
  BY DEF Abandon
<1> HIDE DEF x
<1>4. /\ Abandon(g) \in GateRecord
      /\ Abandon(g).buf = <<>> /\ Abandon(g).target = g.target /\ Abandon(g).cleanup = g.cleanup
      /\ Ended(Abandon(g)) /\ Abandon(g).flusher \in {"error", "off"}
  BY <1>1, <1>2, <1>3, Settled DEF Ended
<1> QED
  BY <1>4 DEF Fit, Sound, Later, Over, Ended, Running

(* The flusher is through.                                                 *)
LEMMA Gone ==
    ASSUME NEW g, Fit(g), g.flusher = "error"
    PROVE  LET h == [g EXCEPT !.flusher = "off"] IN
           /\ Fit(h) /\ Later(g, h)
           /\ Over(h) /\ h.buf = <<>> /\ h.flusher # "send"
BY DEF Fit, Sound, GateRecord, Later, Over, Ended, Running

(* GateSend: what it leaves of the gate, and the fate of the chunk.        *)
Handled(g, c, h, fate) ==
    /\ Fit(h) /\ Later(g, h)
    /\ h.flusher = "send" <=> g.flusher = "send"
    /\ h.flusher = "send" => h.hold = g.hold
    /\ h.buf = IF fate = "keep" THEN Append(g.buf, c) ELSE g.buf
    /\ fate \in {"drop", "keep", "send"}
    /\ Ended(g) => fate = "drop" /\ h = g
    /\ Pending(g) => Pending(h)
    /\ h.endErr /\ ~g.endErr => Pending(h)

LEMMA HeldBack ==
    ASSUME NEW g, Fit(g), g.target, g.state = "paused", NEW c \in 1 .. Chunks,
           NEW final \in BOOLEAN
    PROVE  LET done == HoldBack(g, c, final) IN Handled(g, c, done.gate, done.fate)
<1>1. g \in GateRecord /\ g.flusher \in {"off", "wait", "check", "send"}
  BY DEF Fit, Sound, GateRecord, Ended
<1>2. CASE Len(g.buf) >= BufferLimit
  <2> DEFINE x == [g EXCEPT !.state = "ended", !.endErr = TRUE]
  <2>1. x \in GateRecord
    BY <1>1 DEF GateRecord
  <2>2. /\ x.state = "ended" /\ x.endErr /\ x.buf = g.buf /\ x.hold = g.hold
        /\ x.flusher = g.flusher /\ x.target = g.target /\ x.cleanup = g.cleanup
    BY <1>1 DEF GateRecord
  <2>3. HoldBack(g, c, final) = [gate |-> StartFlusher(Broadcast(x)), fate |-> "drop"]
    BY <1>2 DEF HoldBack, Overflow
  <2> HIDE DEF x
  <2> DEFINE y == Broadcast(x)
             h == StartFlusher(y)
  <2>4. y \in GateRecord /\ Same(x, y) /\ y.flusher = IF x.flusher = "wait" THEN "check" ELSE x.flusher
    BY <2>1, Woken
  <2> HIDE DEF y
  <2>5. h \in GateRecord /\ Same(y, h) /\ h.flusher = IF y.flusher = "off" THEN "check" ELSE y.flusher
    BY <2>4, Started
  <2> HIDE DEF h
  <2>6. Sound(h) /\ Later(g, h) /\ Pending(h)
    BY <1>1, <2>2, <2>4, <2>5 DEF Fit, Sound, Same, Later, Pending, Over, Ended, Running
  <2>7. HoldBack(g, c, final).gate = h /\ HoldBack(g, c, final).fate = "drop"
    BY <2>3 DEF h, y
  <2> QED
    BY <1>1, <2>2, <2>4, <2>5, <2>6, <2>7 DEF Fit, Same, Handled, Ended
<1>3. CASE ~(Len(g.buf) >= BufferLimit)
  <2> DEFINE x == [Buffer(g, c) EXCEPT !.term = @ \/ final]
             h == StartFlusher(x)
  <2>1. Append(g.buf, c) \in Seq(1 .. Chunks) /\ Append(g.buf, c) # <<>>
    BY <1>1, AppendProperties DEF GateRecord
  <2>2. x \in GateRecord
    BY <1>1, <2>1 DEF Buffer, GateRecord
  <2>3. /\ x.state = "paused" /\ x.endErr = g.endErr /\ x.buf = Append(g.buf, c)
        /\ x.hold = g.hold
        /\ x.flusher = g.flusher /\ x.target = g.target /\ x.cleanup = g.cleanup
    BY <1>1 DEF Buffer, GateRecord
  <2>4. HoldBack(g, c, final) = [gate |-> h, fate |-> "keep"]
    BY <1>3 DEF HoldBack
  <2> HIDE DEF x
  <2>5. h \in GateRecord /\ Same(x, h) /\ h.flusher = IF x.flusher = "off" THEN "check" ELSE x.flusher
    BY <2>2, Started
  <2> HIDE DEF h
  <2>6. Sound(h) /\ Later(g, h)
    BY <1>1, <2>1, <2>3, <2>5 DEF Fit, Sound, Same, Later, Over, Ended, Running
  <2>7. HoldBack(g, c, final).gate = h /\ HoldBack(g, c, final).fate = "keep"
    BY <2>4
  <2> QED
    BY <1>1, <2>3, <2>5, <2>6, <2>7 DEF Fit, Same, Handled, Pending, Ended
<1> QED
  BY <1>2, <1>3

LEMMA PassedOn ==
    ASSUME NEW g, Fit(g), g.target, g.state = "active", NEW c \in 1 .. Chunks,
           NEW final \in BOOLEAN
    PROVE  LET done == PassOn(g, c, final) IN Handled(g, c, done.gate, done.fate)
<1> DEFINE x == IF final THEN [g EXCEPT !.state = "ended"] ELSE g
<1>1. g \in GateRecord /\ g.flusher \in {"off", "wait", "check", "send"}
  BY DEF Fit, Sound, GateRecord, Ended
<1>2. x \in GateRecord
  BY <1>1 DEF GateRecord
<1>3. /\ x.state = IF final THEN "ended" ELSE "active"
      /\ x.endErr = g.endErr /\ x.buf = g.buf /\ x.hold = g.hold
      /\ x.flusher = g.flusher /\ x.target = g.target /\ x.cleanup = g.cleanup
  BY <1>1 DEF GateRecord
<1>4. CASE g.buf # <<>> \/ (final /\ Running(g))
  <2> DEFINE y == Buffer(x, c)
             h == Broadcast(y)
  <2>0. PassOn(g, c, final) = [gate |-> h, fate |-> "keep"]
    BY <1>4 DEF PassOn
  <2> HIDE DEF x
  <2>1. Append(g.buf, c) \in Seq(1 .. Chunks) /\ Append(g.buf, c) # <<>>
    BY <1>1, AppendProperties DEF GateRecord
  <2>2. y \in GateRecord
    BY <1>2, <1>3, <2>1 DEF Buffer, GateRecord
  <2>3. /\ y.state = x.state /\ y.endErr = g.endErr /\ y.buf = Append(g.buf, c)
        /\ y.hold = g.hold
        /\ y.flusher = g.flusher /\ y.target = g.target /\ y.cleanup = g.cleanup
    BY <1>2, <1>3 DEF Buffer, GateRecord
  <2> HIDE DEF y
  <2>5. h \in GateRecord /\ Same(y, h) /\ h.flusher = IF y.flusher = "wait" THEN "check" ELSE y.flusher
    BY <2>2, Woken
  <2> HIDE DEF h
  <2>6. Sound(h) /\ Later(g, h)
    BY <1>1, <1>3, <1>4, <2>1, <2>3, <2>5 DEF Fit, Sound, Same, Later, Over, Ended, Running
  <2>7. PassOn(g, c, final).gate = h /\ PassOn(g, c, final).fate = "keep"
    BY <2>0
  <2> QED
    BY <1>1, <1>3, <2>3, <2>5, <2>6, <2>7 DEF Fit, Same, Handled, Pending, Ended
<1>5. CASE ~(g.buf # <<>> \/ (final /\ Running(g)))
  <2>1. PassOn(g, c, final) = [gate |-> x, fate |-> "send"]
    BY <1>5 DEF PassOn
  <2>2. PassOn(g, c, final).gate = x /\ PassOn(g, c, final).fate = "send"
    BY <2>1
  <2> HIDE DEF x
  <2>3. Sound(x) /\ Later(g, x)
    BY <1>1, <1>3, <1>5 DEF Fit, Sound, Later, Over, Ended, Running
  <2> QED
    BY <1>1, <1>2, <1>3, <2>2, <2>3 DEF Fit, Handled, Pending, Ended
<1> QED
  BY <1>4, <1>5

LEMMA Sends ==
    ASSUME NEW g, Fit(g), g.target, NEW c \in 1 .. Chunks, NEW final \in BOOLEAN
    PROVE  LET done == Gated(g, c, final) IN Handled(g, c, done.gate, done.fate)
<1>1. CASE Ended(g)
  <2>1. Gated(g, c, final) = [gate |-> g, fate |-> "drop"]
    BY <1>1 DEF Gated, Ended
  <2>2. Gated(g, c, final).gate = g /\ Gated(g, c, final).fate = "drop"
    BY <2>1
  <2> QED
    BY <2>2 DEF Handled, Later
<1>2. CASE g.state = "paused"
  BY <1>2, HeldBack DEF Gated
<1>3. CASE g.state = "active"
  BY <1>3, PassedOn DEF Gated
<1> QED
  BY <1>1, <1>2, <1>3 DEF Fit, GateRecord, Ended

-----------------------------------------------------------------------------
(* All gates: what a handler leaves of them.                               *)
GatesFit ==
    /\ gate \in Seq(GateRecord) /\ Len(gate) \in Gates
    /\ \A i \in DOMAIN gate : Fit(gate[i])
    /\ entry \in DOMAIN gate \union {NoGate}

LEMMA GateNumbers ==
    ASSUME GatesFit
    PROVE  /\ DOMAIN gate = 1 .. Len(gate) /\ DOMAIN gate \subseteq Gates
           /\ NoGate \notin DOMAIN gate
           /\ Len(gate) \in Nat
<1>1. DOMAIN gate = 1 .. Len(gate) /\ Len(gate) \in Nat
  BY LenProperties DEF GatesFit
<1>2. DOMAIN gate \subseteq Gates
  BY <1>1, NatAssumption DEF GatesFit, Gates
<1> QED
  BY <1>1, <1>2, NoGateAssumption

(* One gate is written back.                                               *)
LEMMA Put ==
    ASSUME NEW gs \in Seq(GateRecord), \A j \in DOMAIN gs : Fit(gs[j]),
           NEW i \in DOMAIN gs, NEW h, Fit(h)
    PROVE  LET hs == [gs EXCEPT ![i] = h] IN
           /\ hs \in Seq(GateRecord) /\ Len(hs) = Len(gs) /\ DOMAIN hs = DOMAIN gs
           /\ \A j \in DOMAIN gs : hs[j] = IF j = i THEN h ELSE gs[j]
           /\ \A j \in DOMAIN gs : Fit(hs[j])
<1>1. DOMAIN gs = 1 .. Len(gs) /\ h \in GateRecord
  BY LenProperties DEF Fit
<1> DEFINE hs == [gs EXCEPT ![i] = h]
<1>2. hs \in Seq(GateRecord) /\ Len(hs) = Len(gs)
  BY <1>1, ExceptSeq
<1>3. DOMAIN hs = DOMAIN gs /\ \A j \in DOMAIN gs : hs[j] = IF j = i THEN h ELSE gs[j]
  BY <1>1
<1> HIDE DEF hs
<1>4. \A j \in DOMAIN gs : Fit(hs[j])
  BY <1>3
<1> QED
  BY <1>2, <1>3, <1>4 DEF hs

(* getOrCreateStreamAccumulator finds the entry or appends a new one.      *)
LEMMA Found ==
    ASSUME GatesFit, CanLookup
    PROVE  /\ Known \in Seq(GateRecord) /\ Len(Known) \in Gates
           /\ DOMAIN Known = DOMAIN gate \union {Lookup}
           /\ \A j \in DOMAIN gate : Known[j] = gate[j]
           /\ Lookup # NoGate
           /\ entry # NoGate => Lookup = entry /\ Known = gate
           /\ entry = NoGate => Lookup \notin DOMAIN gate /\ Known[Lookup] = NewGate
           /\ \A j \in DOMAIN Known : Fit(Known[j])
<1>1. /\ DOMAIN gate = 1 .. Len(gate) /\ gate \in Seq(GateRecord) /\ Len(gate) \in Nat
      /\ Len(gate) \in Gates /\ entry \in DOMAIN gate \union {NoGate}
      /\ \A j \in DOMAIN gate : Fit(gate[j])
      /\ NoGate \notin DOMAIN gate
  BY GateNumbers DEF GatesFit
<1>2. CASE entry # NoGate
  BY <1>1, <1>2 DEF Known, Lookup
<1>3. CASE entry = NoGate
  <2>1. Known = Append(gate, NewGate) /\ Lookup = Len(gate) + 1 /\ Len(gate) < MaxGates
    BY <1>3 DEF Known, Lookup, CanLookup
  <2>2. /\ Known \in Seq(GateRecord) /\ Len(Known) = Len(gate) + 1
        /\ \A j \in 1 .. Len(gate) : Known[j] = gate[j]
        /\ Known[Len(gate) + 1] = NewGate
    BY <1>1, <2>1, NewFits, AppendProperties DEF Fit
  <2>3. DOMAIN Known = 1 .. (Len(gate) + 1)
    BY <2>2, LenProperties
  <2>4. Lookup \in Gates
    BY <1>1, <2>1, NatAssumption DEF Gates
  <2>5. DOMAIN Known = DOMAIN gate \union {Lookup} /\ Lookup \notin DOMAIN gate
    BY <1>1, <2>1, <2>3
  <2>6. \A j \in DOMAIN Known : Fit(Known[j])
    BY <1>1, <2>1, <2>2, <2>5, NewFits
  <2> QED
    BY <1>1, <1>3, <2>1, <2>2, <2>4, <2>5, <2>6, NoGateAssumption
<1> QED
  BY <1>2, <1>3

(* A gate as it was, but for references and the cleanup flag.              *)
Alike(g, h) ==
    /\ h.state = g.state /\ h.buf = g.buf /\ h.hold = g.hold /\ h.flusher = g.flusher
    /\ h.target = g.target /\ h.endErr = g.endErr

(* cleanupStreamAccumulator: the entry goes, or is flagged because its     *)
(* flusher runs or it is paused.                                           *)
LEMMA TornDown ==
    ASSUME NEW gs \in Seq(GateRecord), \A j \in DOMAIN gs : Fit(gs[j]),
           entry \in DOMAIN gs \union {NoGate}, NoGate \notin DOMAIN gs, Teardown(gs)
    PROVE  /\ gate' \in Seq(GateRecord) /\ Len(gate') = Len(gs) /\ DOMAIN gate' = DOMAIN gs
           /\ entry' \in {entry, NoGate}
           /\ \A j \in DOMAIN gs :
                 /\ Fit(gate'[j]) /\ Alike(gs[j], gate'[j])
                 /\ j # entry \/ entry' = NoGate => gate'[j] = gs[j]
           /\ entry' # entry => ~Running(gs[entry])
<1>1. CASE entry # NoGate /\ Deferred(gs)
  <2> DEFINE h == [gs[entry] EXCEPT !.cleanup = TRUE]
  <2>0. Fit(gs[entry])
    BY <1>1
  <2>1. Fit(h) /\ Alike(gs[entry], h)
    <3>1. Fit(h)
      BY <2>0, FlagsFit
    <3>2. Alike(gs[entry], h)
      BY <2>0 DEF Fit, GateRecord, Alike
    <3> QED
      BY <3>1, <3>2
  <2>2. DOMAIN gs = 1 .. Len(gs)
    BY LenProperties
  <2>3. gate' = [gs EXCEPT ![entry] = h] /\ entry' = entry
    BY <1>1 DEF Teardown
  <2> HIDE DEF h
  <2>4. gate' \in Seq(GateRecord) /\ Len(gate') = Len(gs)
    BY <1>1, <2>1, <2>2, <2>3, ExceptSeq DEF Fit
  <2>5. DOMAIN gate' = DOMAIN gs /\ \A j \in DOMAIN gs : gate'[j] = IF j = entry THEN h ELSE gs[j]
    BY <2>3
  <2>6. \A j \in DOMAIN gs : Fit(gate'[j]) /\ Alike(gs[j], gate'[j])
    BY <2>1, <2>5 DEF Alike
  <2> QED
    BY <1>1, <2>3, <2>4, <2>5, <2>6
<1>2. CASE ~(entry # NoGate /\ Deferred(gs))
  BY <1>2 DEF Teardown, Deferred, Alike
<1> QED
  BY <1>1, <1>2

(* Post hooks: the last ones give a reference up, which may be the end of  *)
(* the entry unless its flusher runs.                                      *)
LEMMA HooksDone ==
    ASSUME GatesFit, NEW final \in BOOLEAN, PostHooks(final)
    PROVE  /\ GatesFit' /\ DOMAIN gate' = DOMAIN gate
           /\ \A j \in DOMAIN gate : /\ Alike(gate[j], gate'[j])
                                     /\ j # entry => gate'[j] = gate[j]
           /\ entry' \in {entry, NoGate}
           /\ entry' # entry => ~Running(gate[entry])
           /\ entry' # entry => entry' = NoGate
           /\ ~final => gate' = gate /\ entry' = entry
           /\ entry' # entry /\ ~gate[entry].cleanup => ~gate'[entry].cleanup
<1>1. CASE ~(final /\ entry # NoGate)
  BY <1>1 DEF PostHooks, GatesFit, Alike
<1>2. CASE final /\ entry # NoGate
  <2> DEFINE h  == [gate[entry] EXCEPT !.refs = @ - 1]
             gs == [gate EXCEPT ![entry] = h]
  <2>1. /\ gate \in Seq(GateRecord) /\ entry \in DOMAIN gate /\ Len(gate) \in Gates
        /\ \A j \in DOMAIN gate : Fit(gate[j])
        /\ NoGate \notin DOMAIN gate
    BY <1>2, GateNumbers DEF GatesFit
  <2>2. gate[entry] \in GateRecord /\ gate[entry].refs - 1 \in Int
    BY <2>1 DEF Fit, GateRecord
  <2>3. Fit(h)
    BY <2>1, <2>2, RefsFit
  <2>4. Alike(gate[entry], h) /\ h.cleanup = gate[entry].cleanup
    BY <2>2 DEF Alike, GateRecord
  <2>5. \/ Teardown(gs)
        \/ gate' = gs /\ entry' = entry
    BY <1>2 DEF PostHooks
  <2> HIDE DEF h
  <2>6. /\ gs \in Seq(GateRecord) /\ Len(gs) = Len(gate) /\ DOMAIN gs = DOMAIN gate
        /\ \A j \in DOMAIN gate : gs[j] = IF j = entry THEN h ELSE gate[j]
        /\ \A j \in DOMAIN gate : Fit(gs[j])
    BY <2>1, <2>3, Put
  <2> HIDE DEF gs
  <2>7. CASE Teardown(gs)
    <3>1. /\ gate' \in Seq(GateRecord) /\ Len(gate') = Len(gs) /\ DOMAIN gate' = DOMAIN gs
          /\ entry' \in {entry, NoGate}
          /\ \A j \in DOMAIN gs :
                /\ Fit(gate'[j]) /\ Alike(gs[j], gate'[j])
                /\ j # entry \/ entry' = NoGate => gate'[j] = gs[j]
          /\ entry' # entry => ~Running(gs[entry])
      BY <2>1, <2>6, <2>7, TornDown
    <3>2. \A j \in DOMAIN gate : Alike(gate[j], gate'[j])
      BY <2>4, <2>6, <3>1 DEF Alike
    <3>3. GatesFit'
      BY <2>1, <2>6, <3>1 DEF GatesFit
    <3> QED
      BY <1>2, <2>1, <2>4, <2>6, <3>1, <3>2, <3>3 DEF Alike, Running
  <2>8. CASE gate' = gs /\ entry' = entry
    <3>1. GatesFit'
      BY <2>1, <2>6, <2>8 DEF GatesFit
    <3>2. \A j \in DOMAIN gate : Alike(gate[j], gate'[j]) /\ (j # entry => gate'[j] = gate[j])
      BY <2>4, <2>6, <2>8 DEF Alike
    <3> QED
      BY <1>2, <2>6, <2>8, <3>1, <3>2
  <2> QED
    BY <2>5, <2>7, <2>8
<1> QED
  BY <1>1, <1>2

(* CloseStream ends the gate of the entry it finds.                        *)
LEMMA ClosesGate ==
    ASSUME GatesFit, CloseStream, gated
    PROVE  LET g == IF entry = NoGate THEN NewGate ELSE gate[entry] IN
           /\ GatesFit' /\ DOMAIN gate' = DOMAIN gate \union {entry'}
           /\ entry' # NoGate
           /\ entry # NoGate => entry' = entry
           /\ entry = NoGate => entry' \notin DOMAIN gate
           /\ \A j \in DOMAIN gate : j # entry => gate'[j] = gate[j]
           /\ Later(g, gate'[entry']) /\ Unmoved(g, gate'[entry'])
           /\ Pending(g) => Pending(gate'[entry'])
           /\ Ended(gate'[entry'])
<1> DEFINE g == IF entry = NoGate THEN NewGate ELSE gate[entry]
           h == Applied(g, "end")
<1>1. /\ CanLookup /\ entry' = Lookup
      /\ gate' = [Known EXCEPT ![Lookup] = End(@, FALSE)]
  BY DEF CloseStream
<1>2. /\ Known \in Seq(GateRecord) /\ Len(Known) \in Gates
      /\ DOMAIN Known = DOMAIN gate \union {Lookup}
      /\ \A j \in DOMAIN gate : Known[j] = gate[j]
      /\ Lookup # NoGate
      /\ entry # NoGate => Lookup = entry /\ Known = gate
      /\ entry = NoGate => Lookup \notin DOMAIN gate /\ Known[Lookup] = NewGate
      /\ \A j \in DOMAIN Known : Fit(Known[j])
  BY <1>1, Found
<1>3. Known[Lookup] = g
  BY <1>2
<1>4. gate' = [Known EXCEPT ![Lookup] = h]
  BY <1>1, <1>3 DEF Applied
<1>5. Fit(g) /\ "end" \in Operations
  BY <1>2, <1>3 DEF Operations
<1>6. /\ Fit(h) /\ Later(g, h) /\ Unmoved(g, h) /\ Ended(h)
      /\ Pending(g) => Pending(h)
  BY <1>5, Controlled
<1> HIDE DEF g, h
<1>7. /\ gate' \in Seq(GateRecord) /\ Len(gate') = Len(Known) /\ DOMAIN gate' = DOMAIN Known
      /\ \A j \in DOMAIN Known : gate'[j] = IF j = Lookup THEN h ELSE Known[j]
      /\ \A j \in DOMAIN Known : Fit(gate'[j])
  BY <1>2, <1>4, <1>6, Put
<1>8. GatesFit'
  BY <1>1, <1>2, <1>7 DEF GatesFit
<1>9. \A j \in DOMAIN gate : j # entry => gate'[j] = gate[j]
  BY <1>2, <1>7
<1>10. gate'[entry'] = h
  BY <1>1, <1>2, <1>7
<1> QED
  BY <1>1, <1>2, <1>6, <1>7, <1>8, <1>9, <1>10 DEF g

(* The flusher lets go of the lock, maybe for good.                        *)
LEMMA Leaves ==
    ASSUME GatesFit, NEW i \in DOMAIN gate, NEW h, Fit(h), Leave(i, h)
    PROVE  /\ GatesFit' /\ DOMAIN gate' = DOMAIN gate
           /\ Alike(h, gate'[i])
           /\ \A j \in DOMAIN gate :
                 /\ j # i => Alike(gate[j], gate'[j])
                 /\ j # i /\ j # entry => gate'[j] = gate[j]
           /\ i # entry => gate'[i] = h
           /\ entry' \in {entry, NoGate}
           /\ entry' # entry => ~Running(gate'[entry]) /\ ~Running(h) /\ h.cleanup
           /\ ~h.cleanup => gate'[i] = h /\ \A j \in DOMAIN gate : j # i => gate'[j] = gate[j]
<1> DEFINE gs == [gate EXCEPT ![i] = h]
<1>1. /\ gate \in Seq(GateRecord) /\ entry \in DOMAIN gate \union {NoGate} /\ Len(gate) \in Gates
      /\ \A j \in DOMAIN gate : Fit(gate[j])
      /\ NoGate \notin DOMAIN gate
  BY GateNumbers DEF GatesFit
<1>2. /\ gs \in Seq(GateRecord) /\ Len(gs) = Len(gate) /\ DOMAIN gs = DOMAIN gate
      /\ \A j \in DOMAIN gate : gs[j] = IF j = i THEN h ELSE gate[j]
      /\ \A j \in DOMAIN gate : Fit(gs[j])
  BY <1>1, Put
<1>3. \/ ~Running(h) /\ h.cleanup /\ Teardown(gs)
      \/ gate' = gs /\ entry' = entry
  BY DEF Leave
<1> HIDE DEF gs
<1>4. CASE ~Running(h) /\ h.cleanup /\ Teardown(gs)
  <2>1. /\ gate' \in Seq(GateRecord) /\ Len(gate') = Len(gs) /\ DOMAIN gate' = DOMAIN gs
        /\ entry' \in {entry, NoGate}
        /\ \A j \in DOMAIN gs :
              /\ Fit(gate'[j]) /\ Alike(gs[j], gate'[j])
              /\ j # entry \/ entry' = NoGate => gate'[j] = gs[j]
        /\ entry' # entry => ~Running(gs[entry])
    BY <1>1, <1>2, <1>4, TornDown
  <2>2. GatesFit'
    BY <1>1, <1>2, <2>1 DEF GatesFit
  <2>3. entry' # entry => ~Running(gate'[entry])
    BY <1>1, <1>2, <2>1
  <2> QED
    BY <1>2, <1>4, <2>1, <2>2, <2>3
<1>5. CASE gate' = gs /\ entry' = entry
  <2>1. GatesFit'
    BY <1>1, <1>2, <1>5 DEF GatesFit
  <2> QED
    BY <1>2, <1>5, <2>1 DEF Alike
<1> QED
  BY <1>3, <1>4, <1>5

-----------------------------------------------------------------------------
(* The first layer of the invariant: types, sound gates, and what the      *)
(* producer's place says of its chunk and its gate.                        *)
Control ==
    /\ producer.pc = "hook" => ~producer.final
    /\ producer.pc \in {"route", "gate", "send"} /\ ~producer.final => producer.chunk < Chunks
    /\ producer.pc \in {"gate", "wait"} => producer.on \in DOMAIN gate
    /\ producer.pc = "gate" => gated

GatesSound == \A i \in DOMAIN gate : Sound(gate[i])

Local == TypeOK /\ GatesSound /\ Control

Producers ==
    [pc : {"hook", "route", "gate", "send", "close", "find", "wait", "closed"},
     chunk : 1 .. Chunks, final : BOOLEAN, on : Gates \union {NoGate}]

LEMMA LocalFits ==
    ASSUME Local
    PROVE  /\ GatesFit
           /\ producer \in Producers
           /\ call # NoCall => call.on \in DOMAIN gate /\ call.op \in Operations
           /\ out \in Seq(1 .. TerminalError)
           /\ TerminalError \in Nat /\ Chunks \in Nat /\ 1 .. Chunks \subseteq 1 .. TerminalError
           /\ \A b \in {gated, cancelled, owed, reaped} : b \in BOOLEAN
<1>1. GatesFit
  BY DEF Local, TypeOK, GatesSound, GatesFit, Fit
<1>2. TerminalError \in Nat /\ Chunks \in Nat /\ 1 .. Chunks \subseteq 1 .. TerminalError
  BY NatAssumption DEF TerminalError
<1>3. producer \in Producers /\ out \in Seq(1 .. TerminalError)
  BY DEF Local, TypeOK, Producers
<1>4. call # NoCall => call.on \in DOMAIN gate /\ call.op \in Operations
  BY DEF Local, TypeOK
<1>5. \A b \in {gated, cancelled, owed, reaped} : b \in BOOLEAN
  BY DEF Local, TypeOK
<1> QED
  BY <1>1, <1>2, <1>3, <1>4, <1>5

(* The other way round, for the state after a step.                        *)
LEMMA FitsLocal ==
    ASSUME GatesFit', producer' \in Producers, Control',
           {gated', cancelled', owed', reaped'} \subseteq BOOLEAN,
           call' \in [op : Operations, on : DOMAIN gate'] \union {NoCall},
           controls' \in 0 .. MaxControls,
           out' \in Seq(1 .. TerminalError), accepted' \subseteq 1 .. Chunks
    PROVE  Local'
BY DEF GatesFit, Fit, Local, TypeOK, GatesSound, Producers

(* The history, the calls and the channel, where a step leaves them alone. *)
LEMMA Framed ==
    ASSUME Local, GatesFit', DOMAIN gate \subseteq DOMAIN gate', producer' \in Producers, Control',
           gated' \in BOOLEAN, cancelled' \in BOOLEAN, owed' \in BOOLEAN, reaped' \in BOOLEAN,
           call' \in {call, NoCall}, controls' = controls,
           out' = out \/ \E c \in 1 .. TerminalError : out' = Append(out, c),
           accepted' = accepted \/ \E c \in 1 .. Chunks : accepted' = accepted \union {c}
    PROVE  Local'
<1>1. call' \in [op : Operations, on : DOMAIN gate'] \union {NoCall}
  BY DEF Local, TypeOK
<1>2. out' \in Seq(1 .. TerminalError)
  <2>1. out \in Seq(1 .. TerminalError)
    BY LocalFits
  <2>2. \A c \in 1 .. TerminalError : Append(out, c) \in Seq(1 .. TerminalError)
    BY <2>1, AppendProperties
  <2> QED
    BY <2>1, <2>2
<1>3. accepted' \subseteq 1 .. Chunks
  BY DEF Local, TypeOK
<1>4. controls' \in 0 .. MaxControls
  BY DEF Local, TypeOK
<1> QED
  BY <1>1, <1>2, <1>3, <1>4, FitsLocal

(* Where the producer goes after a chunk.                                  *)
LEMMA Advances ==
    ASSUME Local, Advance, producer.pc \in {"route", "gate", "send"}
    PROVE  /\ producer' \in Producers
           /\ producer'.pc = IF producer.final THEN "close" ELSE "hook"
           /\ producer'.final = producer.final
           /\ producer'.chunk = IF producer.final THEN producer.chunk ELSE producer.chunk + 1
           /\ Control'
<1>1. producer \in Producers /\ Chunks \in Nat
  BY LocalFits
<1>2. CASE producer.final
  <2>1. producer' = [producer EXCEPT !.pc = "close"]
    BY <1>2 DEF Advance
  <2>2. producer' \in Producers
    BY <1>1, <2>1 DEF Producers
  <2>3. producer'.pc = "close" /\ producer'.final = producer.final /\ producer'.chunk = producer.chunk
    BY <1>1, <2>1 DEF Producers
  <2> QED
    BY <1>2, <2>2, <2>3 DEF Control
<1>3. CASE ~producer.final
  <2>1. producer' = [producer EXCEPT !.pc = "hook", !.chunk = producer.chunk + 1]
    BY <1>3 DEF Advance
  <2>2. producer.chunk + 1 \in 1 .. Chunks
    BY <1>1, <1>3 DEF Local, Control, Producers
  <2>3. producer' \in Producers
    BY <1>1, <2>1, <2>2 DEF Producers
  <2>4. /\ producer'.pc = "hook" /\ producer'.final = producer.final
        /\ producer'.chunk = producer.chunk + 1
    BY <1>1, <2>1 DEF Producers
  <2> QED
    BY <1>3, <2>3, <2>4 DEF Control
<1> QED
  BY <1>2, <1>3

(* A step that leaves the producer alone.                                  *)
LEMMA Bystander ==
    ASSUME Local, producer' = producer, DOMAIN gate \subseteq DOMAIN gate', gated => gated'
    PROVE  producer' \in Producers /\ Control'
BY LocalFits DEF Local, Control

LEMMA InitLocal == Init => Local
<1> SUFFICES ASSUME Init PROVE Local
  OBVIOUS
<1> DEFINE g == [NewGate EXCEPT !.refs = 1]
<1>1. gate = <<g>> /\ Fit(g)
  BY NewFits DEF Init
<1> HIDE DEF g
<1>2. /\ gate \in Seq(GateRecord) /\ Len(gate) = 1 /\ DOMAIN gate = {1} /\ gate[1] = g
  BY <1>1 DEF Fit
<1>3. 1 \in Gates /\ 1 \in 1 .. Chunks
  BY NatAssumption DEF Gates
<1>4. producer \in Producers
  BY <1>3 DEF Init, Producers
<1>5. Control
  BY DEF Init, Control
<1>6. GatesSound
  BY <1>1, <1>2 DEF GatesSound, Fit
<1>7. out \in Seq(1 .. TerminalError) /\ accepted \subseteq 1 .. Chunks /\ controls \in 0 .. MaxControls
  BY NatAssumption DEF Init
<1>8. TypeOK
  BY <1>2, <1>3, <1>4, <1>7 DEF Init, TypeOK, Producers
<1> QED
  BY <1>5, <1>6, <1>8 DEF Local

(* The steps of the producer goroutine.                                    *)
LEMMA HooksLocal ==
    ASSUME Local, NEW final \in BOOLEAN, PostHooks(final)
    PROVE  /\ Local'
           /\ producer.pc = "hook" /\ producer'.pc = "route"
           /\ producer'.final = final /\ producer'.chunk = producer.chunk
<1>1. producer \in Producers /\ Chunks \in Nat
  BY LocalFits
<1>2. /\ producer.pc = "hook" /\ (producer.chunk = Chunks => final)
      /\ producer' = [producer EXCEPT !.pc = "route", !.final = final]
  BY DEF PostHooks
<1>3. /\ producer'.pc = "route" /\ producer'.final = final /\ producer'.chunk = producer.chunk
      /\ producer' \in Producers
  BY <1>1, <1>2 DEF Producers
<1>4. Control'
  BY <1>1, <1>2, <1>3 DEF Control, Producers
<1>5. GatesFit' /\ DOMAIN gate' = DOMAIN gate
  BY LocalFits, HooksDone
<1> QED
  BY <1>2, <1>3, <1>4, <1>5, LocalFits, Framed DEF PostHooks

LEMMA RouteLocal ==
    ASSUME Local, Route
    PROVE  /\ Local'
           /\ producer.pc = "route" /\ producer'.pc = IF gated THEN "gate" ELSE "send"
           /\ producer'.final = producer.final /\ producer'.chunk = producer.chunk
           /\ gated => producer'.on = entry'
<1>1. producer \in Producers /\ GatesFit
  BY LocalFits
<1>2. CASE gated
  <2>1. /\ CanLookup /\ gate' = Known /\ entry' = Lookup /\ gated' = gated
        /\ producer' = [producer EXCEPT !.pc = "gate", !.on = Lookup]
    BY <1>2 DEF Route
  <2>2. /\ Known \in Seq(GateRecord) /\ Len(Known) \in Gates
        /\ DOMAIN Known = DOMAIN gate \union {Lookup}
        /\ \A j \in DOMAIN Known : Fit(Known[j])
    BY <1>1, <2>1, Found
  <2>3. GatesFit' /\ DOMAIN gate \subseteq DOMAIN gate' /\ Lookup \in DOMAIN gate'
    BY <2>1, <2>2 DEF GatesFit
  <2>4. Lookup \in Gates
    <3>1. DOMAIN Known = 1 .. Len(Known)
      BY <2>2, LenProperties
    <3> QED
      BY <2>2, <3>1, NatAssumption DEF Gates
  <2>5. /\ producer'.pc = "gate" /\ producer'.final = producer.final
        /\ producer'.chunk = producer.chunk /\ producer'.on = Lookup
        /\ producer' \in Producers
    BY <1>1, <2>1, <2>4 DEF Producers
  <2>6. Control'
    BY <1>2, <2>1, <2>3, <2>5 DEF Route, Local, Control
  <2> QED
    BY <1>2, <2>1, <2>3, <2>5, <2>6, LocalFits, Framed DEF Route
<1>3. CASE ~gated
  <2>1. /\ producer' = [producer EXCEPT !.pc = "send"] /\ UNCHANGED <<gate, entry>>
        /\ gated' = gated
    BY <1>3 DEF Route
  <2>2. /\ producer'.pc = "send" /\ producer'.final = producer.final
        /\ producer'.chunk = producer.chunk
        /\ producer' \in Producers
    BY <1>1, <2>1 DEF Producers
  <2>3. Control'
    BY <2>2 DEF Route, Local, Control
  <2>4. GatesFit'
    BY <1>1, <2>1 DEF GatesFit
  <2> QED
    BY <1>3, <2>1, <2>2, <2>3, <2>4, LocalFits, Framed DEF Route
<1> QED
  BY <1>2, <1>3

LEMMA SkipLocal ==
    ASSUME Local, SkipChunk
    PROVE  Local'
<1>1. GatesFit' /\ DOMAIN gate' = DOMAIN gate
  BY LocalFits DEF SkipChunk, GatesFit
<1>2. Advance /\ producer.pc \in {"route", "gate", "send"}
  BY DEF SkipChunk
<1> QED
  BY <1>1, <1>2, Advances, LocalFits, Framed DEF SkipChunk

LEMMA DirectLocal ==
    ASSUME Local, SendDirect
    PROVE  Local'
<1>1. GatesFit' /\ DOMAIN gate' = DOMAIN gate
  BY LocalFits DEF SendDirect, GatesFit
<1>2. Advance /\ producer.pc \in {"route", "gate", "send"}
  BY DEF SendDirect
<1>3. producer.chunk \in 1 .. Chunks /\ producer.chunk \in 1 .. TerminalError
  BY LocalFits DEF Producers
<1>4. out' = out \/ out' = Append(out, producer.chunk)
  BY DEF SendDirect, Delivered, Undelivered
<1>5. accepted' = accepted \/ accepted' = accepted \union {producer.chunk}
  BY DEF SendDirect
<1>6. producer' \in Producers /\ Control'
  BY <1>2, Advances
<1> QED
  BY <1>1, <1>3, <1>4, <1>5, <1>6, LocalFits, Framed DEF SendDirect

(* GateSend: what it leaves of its gate.                                   *)
LEMMA GateSendLocal ==
    ASSUME Local, GateSend
    PROVE  LET i    == producer.on
               c    == producer.chunk
               done == Gated([gate[i] EXCEPT !.target = TRUE], c, producer.final)
           IN  /\ Local' /\ DOMAIN gate' = DOMAIN gate
               /\ i \in DOMAIN gate /\ c \in 1 .. Chunks /\ gated
               /\ Handled([gate[i] EXCEPT !.target = TRUE], c, gate'[i], done.fate)
               /\ \A j \in DOMAIN gate : j # i => gate'[j] = gate[j]
               /\ owed' = (owed \/ (gate'[i].endErr /\ ~gate[i].endErr))
               /\ accepted' = IF done.fate = "keep" THEN accepted \union {c} ELSE accepted
               /\ IF done.fate = "send"
                  THEN producer' = [producer EXCEPT !.pc = "send"]
                  ELSE Advance
<1> DEFINE i == producer.on
           c == producer.chunk
           g == [gate[i] EXCEPT !.target = TRUE]
           done == Gated(g, c, producer.final)
<1>1. /\ producer \in Producers /\ GatesFit /\ owed \in BOOLEAN
      /\ i \in DOMAIN gate /\ gated /\ producer.pc = "gate"
  BY LocalFits DEF GateSend, Local, Control
<1>2. c \in 1 .. Chunks /\ producer.final \in BOOLEAN
  BY <1>1 DEF Producers
<1>3. Fit(gate[i])
  BY <1>1 DEF GatesFit
<1>4. Fit(g) /\ g.target /\ g.endErr = gate[i].endErr
  <2>1. Fit(g)
    BY <1>3, FlagsFit
  <2> QED
    BY <1>3, <2>1 DEF Fit, GateRecord
<1>5. /\ gate' = [gate EXCEPT ![i] = done.gate]
      /\ owed' = (owed \/ (done.gate.endErr /\ ~g.endErr))
      /\ accepted' = IF done.fate = "keep" THEN accepted \union {c} ELSE accepted
      /\ IF done.fate = "send"
         THEN producer' = [producer EXCEPT !.pc = "send"]
         ELSE Advance
      /\ UNCHANGED <<entry, gated, cancelled, call, controls, out, reaped>>
  BY DEF GateSend
<1> HIDE DEF g
<1>6. Handled(g, c, done.gate, done.fate)
  BY <1>2, <1>4, Sends
<1> HIDE DEF done
<1>7. Fit(done.gate)
  BY <1>6 DEF Handled
<1>8. /\ gate' \in Seq(GateRecord) /\ Len(gate') = Len(gate) /\ DOMAIN gate' = DOMAIN gate
      /\ \A j \in DOMAIN gate : gate'[j] = IF j = i THEN done.gate ELSE gate[j]
      /\ \A j \in DOMAIN gate : Fit(gate'[j])
  BY <1>1, <1>5, <1>7, Put DEF GatesFit
<1>9. GatesFit'
  BY <1>1, <1>5, <1>8 DEF GatesFit
<1>10. producer' \in Producers /\ Control'
  <2>1. CASE done.fate = "send"
    <3>1. /\ producer' \in Producers /\ producer'.pc = "send"
          /\ producer'.chunk = c /\ producer'.final = producer.final
      BY <1>1, <1>5, <2>1 DEF Producers
    <3> QED
      BY <1>1, <3>1 DEF Local, Control
  <2>2. CASE done.fate # "send"
    BY <1>1, <1>5, <2>2, Advances
  <2> QED
    BY <2>1, <2>2
<1>11. Local'
  <2>1. owed' \in BOOLEAN
    BY <1>5
  <2> QED
    BY <1>2, <1>5, <1>8, <1>9, <1>10, <2>1, LocalFits, Framed
<1> QED
  BY <1>1, <1>2, <1>4, <1>5, <1>6, <1>8, <1>11 DEF done, g

LEMMA CloseLocal ==
    ASSUME Local, CloseStream \/ WaitForFlusher \/ FlusherDone
    PROVE  /\ Local'
           /\ producer'.pc \in {"find", "wait", "closed"}
           /\ CloseStream => producer'.pc = IF gated THEN "find" ELSE "closed"
           /\ WaitForFlusher => IF entry # NoGate /\ Running(gate[entry])
                                THEN producer'.pc = "wait" /\ producer'.on = entry
                                ELSE producer'.pc = "closed"
           /\ FlusherDone => producer'.pc = "closed"
<1>1. producer \in Producers /\ GatesFit
  BY LocalFits
<1>2. CASE CloseStream
  <2>1. GatesFit' /\ DOMAIN gate \subseteq DOMAIN gate'
    <3>1. CASE gated
      BY <1>1, <1>2, <3>1, ClosesGate
    <3>2. CASE ~gated
      BY <1>1, <1>2, <3>2 DEF CloseStream, GatesFit
    <3> QED
      BY <3>1, <3>2
  <2>2. /\ producer' \in Producers
        /\ producer'.pc = IF gated THEN "find" ELSE "closed"
    BY <1>1, <1>2 DEF CloseStream, Producers
  <2>3. Control'
    BY <2>2 DEF Control
  <2>4. ~WaitForFlusher /\ ~FlusherDone
    BY <1>2 DEF CloseStream, WaitForFlusher, FlusherDone
  <2>5. Local'
    BY <1>2, <2>1, <2>2, <2>3, LocalFits, Framed DEF CloseStream
  <2> QED
    BY <2>2, <2>4, <2>5
<1>3. CASE WaitForFlusher
  <2>1. GatesFit' /\ DOMAIN gate' = DOMAIN gate
    BY <1>1, <1>3 DEF WaitForFlusher, GatesFit
  <2>2. CASE entry # NoGate /\ Running(gate[entry])
    <3>1. producer' = [producer EXCEPT !.pc = "wait", !.on = entry]
      BY <1>3, <2>2 DEF WaitForFlusher
    <3>2. entry \in Gates /\ entry \in DOMAIN gate
      BY <1>1, <2>2, GateNumbers DEF GatesFit
    <3>3. producer' \in Producers /\ producer'.pc = "wait" /\ producer'.on = entry
      BY <1>1, <3>1, <3>2 DEF Producers
    <3>4. Control'
      BY <2>1, <3>2, <3>3 DEF Control
    <3>5. ~CloseStream /\ ~FlusherDone
      BY <1>3 DEF CloseStream, WaitForFlusher, FlusherDone
    <3>6. Local'
      BY <1>3, <2>1, <3>3, <3>4, LocalFits, Framed DEF WaitForFlusher
    <3> QED
      BY <2>2, <3>3, <3>5, <3>6
  <2>3. CASE ~(entry # NoGate /\ Running(gate[entry]))
    <3>1. producer' = [producer EXCEPT !.pc = "closed"]
      BY <1>3, <2>3 DEF WaitForFlusher
    <3>3. producer' \in Producers /\ producer'.pc = "closed"
      BY <1>1, <3>1 DEF Producers
    <3>4. Control'
      BY <3>3 DEF Control
    <3>5. ~CloseStream /\ ~FlusherDone
      BY <1>3 DEF CloseStream, WaitForFlusher, FlusherDone
    <3>6. Local'
      BY <1>3, <2>1, <3>3, <3>4, LocalFits, Framed DEF WaitForFlusher
    <3> QED
      BY <2>3, <3>3, <3>5, <3>6
  <2> QED
    BY <2>2, <2>3
<1>4. CASE FlusherDone
  <2>1. GatesFit' /\ DOMAIN gate' = DOMAIN gate
    BY <1>1, <1>4 DEF FlusherDone, GatesFit
  <2>2. producer' \in Producers /\ producer'.pc = "closed"
    BY <1>1, <1>4 DEF FlusherDone, Producers
  <2>3. Control'
    BY <2>2 DEF Control
  <2>4. ~WaitForFlusher /\ ~CloseStream
    BY <1>4 DEF CloseStream, WaitForFlusher, FlusherDone
  <2>5. Local'
    BY <1>4, <2>1, <2>2, <2>3, LocalFits, Framed DEF FlusherDone
  <2> QED
    BY <2>2, <2>4, <2>5
<1> QED
  BY <1>2, <1>3, <1>4

(* Plugins: the lookup, then the operation.                                *)
LEMMA EngageLocal ==
    ASSUME Local, NEW op \in Operations, Engage(op)
    PROVE  Local'
<1>1. /\ CanLookup /\ gate' = Known /\ entry' = Lookup /\ gated' = TRUE
      /\ controls < MaxControls /\ controls' = controls + 1
      /\ call' = [op |-> op, on |-> Lookup]
      /\ UNCHANGED <<cancelled, producer, out, accepted, owed, reaped>>
  BY DEF Engage
<1>2. /\ Known \in Seq(GateRecord) /\ Len(Known) \in Gates
      /\ DOMAIN Known = DOMAIN gate \union {Lookup}
      /\ \A j \in DOMAIN Known : Fit(Known[j])
  BY <1>1, LocalFits, Found
<1>3. GatesFit' /\ DOMAIN gate \subseteq DOMAIN gate' /\ Lookup \in DOMAIN gate'
  BY <1>1, <1>2 DEF GatesFit
<1>4. producer' \in Producers /\ Control'
  BY <1>1, <1>3, Bystander
<1>5. call' \in [op : Operations, on : DOMAIN gate']
  BY <1>1, <1>3
<1>6. controls' \in 0 .. MaxControls
  BY <1>1, NatAssumption DEF Local, TypeOK
<1>7. out' \in Seq(1 .. TerminalError) /\ accepted' \subseteq 1 .. Chunks
  BY <1>1 DEF Local, TypeOK
<1>8. {gated', cancelled', owed', reaped'} \subseteq BOOLEAN
  BY <1>1, LocalFits
<1> QED
  BY <1>3, <1>4, <1>5, <1>6, <1>7, <1>8, FitsLocal

LEMMA ApplyLocal ==
    ASSUME Local, Apply
    PROVE  LET i == call.on
               h == gate'[i]
           IN  /\ Local' /\ DOMAIN gate' = DOMAIN gate
               /\ i \in DOMAIN gate
               /\ Later(gate[i], h) /\ Unmoved(gate[i], h)
               /\ Pending(gate[i]) => Pending(h)
               /\ \A j \in DOMAIN gate : j # i => gate'[j] = gate[j]
               /\ owed' => owed \/ (~Ended(gate[i]) /\ i = entry /\ gate[i].target /\ Pending(h))
<1> DEFINE i == call.on
           h == Applied(gate[i], call.op)
<1>1. /\ call # NoCall /\ GatesFit
      /\ gate' = [gate EXCEPT ![i] = h]
      /\ owed' = (owed \/ (call.op = "endError" /\ ~Ended(gate[i]) /\ gate[i].target /\ i = entry))
      /\ call' = NoCall
      /\ UNCHANGED <<entry, gated, cancelled, producer, controls, out, accepted, reaped>>
  BY LocalFits DEF Apply
<1>2. i \in DOMAIN gate /\ call.op \in Operations
  BY <1>1, LocalFits
<1>3. Fit(gate[i])
  BY <1>1, <1>2 DEF GatesFit
<1>4. /\ Fit(h) /\ Later(gate[i], h) /\ Unmoved(gate[i], h)
      /\ Pending(gate[i]) => Pending(h)
      /\ call.op = "endError" /\ ~Ended(gate[i]) /\ gate[i].target => Pending(h)
  BY <1>2, <1>3, Controlled
<1> HIDE DEF h
<1>5. /\ gate' \in Seq(GateRecord) /\ Len(gate') = Len(gate) /\ DOMAIN gate' = DOMAIN gate
      /\ \A j \in DOMAIN gate : gate'[j] = IF j = i THEN h ELSE gate[j]
      /\ \A j \in DOMAIN gate : Fit(gate'[j])
  BY <1>1, <1>2, <1>4, Put DEF GatesFit
<1>6. GatesFit'
  BY <1>1, <1>5 DEF GatesFit
<1>7. producer' \in Producers /\ Control'
  BY <1>1, <1>5, Bystander
<1>8. owed' \in BOOLEAN
  BY <1>1
<1>9. Local'
  BY <1>1, <1>5, <1>6, <1>7, <1>8, LocalFits, Framed
<1> QED
  BY <1>1, <1>2, <1>4, <1>5, <1>9

(* A flusher's step, in terms of the gate h it leaves and of what becomes  *)
(* of the chunk it held.                                                   *)
LEMMA FlusherLocal ==
    ASSUME Local, NEW i \in DOMAIN gate, Flusher(i)
    PROVE  LET g == gate[i] IN
           /\ Local' /\ DOMAIN gate' = DOMAIN gate
           /\ Running(g)
           /\ UNCHANGED <<gated, cancelled, producer, call, controls, accepted, owed, reaped>>
           /\ \E h : /\ Fit(h) /\ Later(g, h) /\ Leave(i, h)
                     /\ ~Running(h) => Ended(h)
                     /\ \/ /\ g.flusher = "check" /\ Popped(g, h) /\ out' = out
                           /\ Pending(g) => Pending(h)
                        \/ /\ g.flusher = "send" /\ Popped(g, h) /\ Delivered(g.hold)
                           /\ Pending(g) => Pending(h)
                        \/ /\ g.flusher = "send" /\ Undelivered
                           /\ h.buf = <<>> /\ h.flusher # "send"
                        \/ /\ g.flusher = "error" /\ (Delivered(TerminalError) \/ Undelivered)
                           /\ h.buf = <<>> /\ h.flusher # "send"
<1> DEFINE g == gate[i]
<1>1. GatesFit /\ Fit(g)
  BY LocalFits DEF GatesFit
<1>2. UNCHANGED <<gated, cancelled, producer, call, controls, accepted, owed, reaped>>
  BY DEF Flusher, FlusherChecks, FlusherSends, FlusherEnds
<1>3. PICK h : /\ Fit(h) /\ Later(g, h) /\ Leave(i, h)
               /\ ~Running(h) => Ended(h)
               /\ \/ /\ g.flusher = "check" /\ Popped(g, h) /\ out' = out
                     /\ Pending(g) => Pending(h)
                  \/ /\ g.flusher = "send" /\ Popped(g, h) /\ Delivered(g.hold)
                     /\ Pending(g) => Pending(h)
                  \/ /\ g.flusher = "send" /\ Undelivered
                     /\ h.buf = <<>> /\ h.flusher # "send"
                  \/ /\ g.flusher = "error" /\ (Delivered(TerminalError) \/ Undelivered)
                     /\ h.buf = <<>> /\ h.flusher # "send"
  <2>1. CASE FlusherChecks(i)
    BY <1>1, <2>1, Checked DEF FlusherChecks
  <2>2. CASE FlusherSends(i)
    BY <1>1, <2>2, Drained, Abandoned DEF FlusherSends
  <2>3. CASE FlusherEnds(i)
    BY <1>1, <2>3, Gone DEF FlusherEnds, Over
  <2> QED
    BY <2>1, <2>2, <2>3 DEF Flusher
<1>4. GatesFit' /\ DOMAIN gate' = DOMAIN gate
  BY <1>1, <1>3, Leaves
<1>5. out' = out \/ \E c \in 1 .. TerminalError : out' = Append(out, c)
  <2>1. TerminalError \in 1 .. TerminalError
    BY NatAssumption DEF TerminalError
  <2>2. g.flusher = "send" => g.hold \in 1 .. TerminalError
    BY <1>1, NatAssumption DEF Fit, Sound, GateRecord, TerminalError
  <2>3. \/ out' = out
        \/ g.flusher = "send" /\ out' = Append(out, g.hold)
        \/ out' = Append(out, TerminalError)
    BY DEF Flusher, FlusherChecks, FlusherSends, FlusherEnds, Delivered, Undelivered
  <2> QED
    BY <2>1, <2>2, <2>3
<1>6. producer' \in Producers /\ Control'
  BY <1>2, <1>4, Bystander
<1>7. Local'
  BY <1>2, <1>4, <1>5, <1>6, LocalFits, Framed
<1>8. Running(g)
  BY DEF Running, Flusher, FlusherChecks, FlusherSends, FlusherEnds
<1> QED
  BY <1>2, <1>3, <1>4, <1>7, <1>8

(* The forced reap, the end of the client's context, the stop.             *)
LEMMA ReapLocal ==
    ASSUME Local, Reap
    PROVE  /\ Local' /\ DOMAIN gate' = DOMAIN gate
           /\ \A j \in DOMAIN gate :
                 /\ gate'[j].flusher = "send" =>
                       gate[j].flusher = "send" /\ gate'[j].hold = gate[j].hold
                 /\ gate'[j].buf \in {gate[j].buf, <<>>}
<1> DEFINE h == ForceEnd(gate[entry])
<1>1. /\ GatesFit /\ entry \in DOMAIN gate /\ Fit(gate[entry])
      /\ gate' = [gate EXCEPT ![entry] = h] /\ entry' = NoGate
      /\ UNCHANGED <<gated, cancelled, producer, call, controls, out, accepted, owed>>
      /\ reaped' = TRUE
  BY LocalFits DEF Reap, GatesFit
<1>2. Fit(h)
  BY <1>1, ForceFits
<1>3. /\ h.flusher = "send" => gate[entry].flusher = "send" /\ h.hold = gate[entry].hold
      /\ h.buf \in {gate[entry].buf, <<>>}
  <2>1. CASE Ended(gate[entry])
    BY <2>1 DEF ForceEnd
  <2>2. CASE ~Ended(gate[entry])
    <3> DEFINE x == [gate[entry] EXCEPT !.state = "ended", !.term = FALSE, !.endErr = FALSE,
                                        !.buf = <<>>]
    <3>1. x \in GateRecord
      BY <1>1, EmptySeq DEF Fit, GateRecord
    <3>2. x.buf = <<>> /\ x.hold = gate[entry].hold /\ x.flusher = gate[entry].flusher
      BY <1>1 DEF Fit, GateRecord
    <3>3. h = Broadcast(x)
      BY <2>2 DEF ForceEnd
    <3> HIDE DEF x, h
    <3> QED
      BY <3>1, <3>2, <3>3, Woken DEF Same
  <2> QED
    BY <2>1, <2>2
<1> HIDE DEF h
<1>4. /\ gate' \in Seq(GateRecord) /\ Len(gate') = Len(gate) /\ DOMAIN gate' = DOMAIN gate
      /\ \A j \in DOMAIN gate : gate'[j] = IF j = entry THEN h ELSE gate[j]
      /\ \A j \in DOMAIN gate : Fit(gate'[j])
  BY <1>1, <1>2, Put DEF GatesFit
<1>5. GatesFit'
  BY <1>1, <1>4 DEF GatesFit
<1>6. producer' \in Producers /\ Control'
  BY <1>1, <1>4, Bystander
<1>7. Local'
  BY <1>1, <1>4, <1>5, <1>6, LocalFits, Framed
<1> QED
  BY <1>1, <1>3, <1>4, <1>7

LEMMA StopLocal ==
    ASSUME Local, Cancel \/ UNCHANGED vars
    PROVE  Local'
<1>1. GatesFit' /\ DOMAIN gate' = DOMAIN gate /\ producer' = producer /\ gated' = gated
  BY LocalFits DEF Cancel, vars, GatesFit
<1>2. producer' \in Producers /\ Control'
  BY <1>1, Bystander
<1> QED
  BY <1>1, <1>2, LocalFits, Framed DEF Cancel, vars

LEMMA StepLocal ==
    ASSUME Local, [Next]_vars
    PROVE  Local'
<1>1. Producer => Local'
  BY HooksLocal, RouteLocal, SkipLocal, GateSendLocal, DirectLocal, CloseLocal DEF Producer
<1>2. Plugin => Local'
  BY EngageLocal, ApplyLocal DEF Plugin
<1>3. (\E i \in DOMAIN gate : Flusher(i)) => Local'
  BY FlusherLocal
<1> QED
  BY <1>1, <1>2, <1>3, ReapLocal, StopLocal DEF Next, Finished

LEMMA LocalAlways == Spec => []Local
BY InitLocal, StepLocal, PTL DEF Spec

(* Every variable keeps its type, and every gate its record.               *)
THEOREM GateTypes == Spec => []TypeOK
<1>1. Local => TypeOK
  BY DEF Local
<1> QED
  BY <1>1, LocalAlways, PTL

(* Resume, End, an append to a draining buffer and ForceEnd wake the       *)
(* flusher whenever it has something to do: no broadcast is lost.          *)
THEOREM WakeupsArrive == Spec => []NoLostWakeup
<1>1. Local => NoLostWakeup
  BY DEF Local, GatesSound, Sound, NoLostWakeup
<1> QED
  BY <1>1, LocalAlways, PTL

(* A chunk in a replay buffer has a flusher, whoever put it there.         *)
THEOREM ChunksHaveFlushers == Spec => []NoStrandedChunk
<1>1. Local => NoStrandedChunk
  BY DEF Local, GatesSound, Sound, NoStrandedChunk
<1> QED
  BY <1>1, LocalAlways, PTL

-----------------------------------------------------------------------------
(* Second layer, as long as nobody reaps the stream: which gates are over. *)

Empty(g) == g.buf = <<>> /\ g.flusher # "send"
Closing == producer.pc \in {"find", "wait", "closed"}

(* Nobody sends through a gate before a plugin engages it, and an entry    *)
(* is flagged for cleanup only with the last chunk.                        *)
Engaged ==
    /\ ~gated => \A i \in DOMAIN gate : ~gate[i].target
    /\ ~producer.final => \A i \in DOMAIN gate : ~gate[i].cleanup

(* A gate whose entry was deleted is empty; whoever was about to send      *)
(* through it finds it ended.                                              *)
Mapped ==
    /\ \A i \in DOMAIN gate : i # entry => Empty(gate[i])
    /\ \A i \in DOMAIN gate : i # entry /\ gate[i].cleanup => Over(gate[i])
    /\ producer.pc = "gate" /\ producer.on # entry => Ended(gate[producer.on])

(* From CloseStream on the entry's gate is ended, or has never been sent   *)
(* through, and CloseStream waits for the right flusher.                   *)
Closes ==
    /\ Closing /\ entry # NoGate => ~gate[entry].target \/ Ended(gate[entry])
    /\ producer.pc = "wait" /\ entry # NoGate => producer.on = entry \/ ~gate[entry].target
    /\ Closed => \A i \in DOMAIN gate : Empty(gate[i])

Tracked == Engaged /\ Mapped /\ Closes

(* Sound gates without a flusher, or without a target, are empty.          *)
LEMMA IdleEmpty ==
    ASSUME NEW g, Sound(g), ~Running(g) \/ ~g.target
    PROVE  Empty(g)
BY DEF Sound, Empty, Running

LEMMA HooksTracked ==
    ASSUME Local, Tracked, NEW final \in BOOLEAN, PostHooks(final)
    PROVE  Tracked'
<1>1. /\ GatesFit' /\ DOMAIN gate' = DOMAIN gate
      /\ \A j \in DOMAIN gate : /\ Alike(gate[j], gate'[j])
                                /\ j # entry => gate'[j] = gate[j]
      /\ entry' \in {entry, NoGate}
      /\ entry' # entry => ~Running(gate[entry])
      /\ ~final => gate' = gate /\ entry' = entry
      /\ entry' # entry /\ ~gate[entry].cleanup => ~gate'[entry].cleanup
  BY LocalFits, HooksDone
<1>2. /\ producer.pc = "hook" /\ producer'.pc = "route" /\ producer'.final = final
      /\ ~producer.final /\ gated' = gated
  BY HooksLocal DEF Local, Control, PostHooks
<1>3. Engaged'
  BY <1>1, <1>2 DEF Tracked, Engaged, Alike
<1>4. Mapped'
  <2>1. ASSUME NEW j \in DOMAIN gate, j # entry' PROVE Empty(gate'[j]) /\ ~gate'[j].cleanup
    <3>1. CASE j # entry
      BY <1>1, <1>2, <3>1 DEF Tracked, Mapped, Engaged
    <3>2. CASE j = entry
      <4>1. Empty(gate[j])
        BY <1>1, <2>1, <3>2, IdleEmpty DEF Local, GatesSound
      <4>2. Empty(gate'[j])
        BY <1>1, <4>1 DEF Empty, Alike
      <4> QED
        BY <1>1, <1>2, <2>1, <3>2, <4>2 DEF Tracked, Engaged
    <3> QED
      BY <3>1, <3>2
  <2> QED
    BY <1>1, <1>2, <2>1 DEF Mapped
<1>5. Closes'
  BY <1>2 DEF Closes, Closing, Closed
<1> QED
  BY <1>3, <1>4, <1>5 DEF Tracked

(* A lookup that may append a new entry.                                   *)
LEMMA LookupMapped ==
    ASSUME Local, Tracked, CanLookup, gate' = Known, entry' = Lookup
    PROVE  /\ entry' # NoGate
           /\ DOMAIN gate' = DOMAIN gate \union {entry'}
           /\ \A j \in DOMAIN gate : gate'[j] = gate[j]
           /\ entry # NoGate => entry' = entry
           /\ entry = NoGate => entry' \notin DOMAIN gate /\ ~gate'[entry'].target
           /\ \A j \in DOMAIN gate' \ DOMAIN gate :
                  /\ Empty(gate'[j]) /\ ~gate'[j].target /\ ~gate'[j].cleanup
                  /\ entry = NoGate
           /\ \A j \in DOMAIN gate' : j # entry' => Empty(gate'[j])
           /\ \A j \in DOMAIN gate' : j # entry' /\ gate'[j].cleanup => Over(gate'[j])
<1>1. GatesFit
  BY LocalFits
<1>2. /\ DOMAIN Known = DOMAIN gate \union {Lookup}
      /\ \A j \in DOMAIN gate : Known[j] = gate[j]
      /\ Lookup # NoGate
      /\ entry # NoGate => Lookup = entry /\ Known = gate
      /\ entry = NoGate => Lookup \notin DOMAIN gate /\ Known[Lookup] = NewGate
  BY <1>1, Found
<1>3. Empty(NewGate) /\ ~NewGate.target /\ ~NewGate.cleanup
  BY DEF NewGate, Empty
<1> HIDE DEF NewGate
<1>4. /\ \A i \in DOMAIN gate : i # entry => Empty(gate[i])
      /\ \A i \in DOMAIN gate : i # entry /\ gate[i].cleanup => Over(gate[i])
      /\ NoGate \notin DOMAIN gate /\ entry \in DOMAIN gate \union {NoGate}
  BY <1>1, GateNumbers DEF Tracked, Mapped, GatesFit
<1>5. CASE entry = NoGate
  BY <1>2, <1>3, <1>4, <1>5
<1>6. CASE entry # NoGate
  BY <1>2, <1>4, <1>6
<1> QED
  BY <1>5, <1>6

LEMMA RouteTracked ==
    ASSUME Local, Tracked, Route
    PROVE  Tracked'
<1>1. /\ producer'.pc = IF gated THEN "gate" ELSE "send"
      /\ producer'.final = producer.final
      /\ gated => producer'.on = entry'
      /\ gated' = gated
  BY RouteLocal DEF Route
<1>2. CASE gated
  <2>1. CanLookup /\ gate' = Known /\ entry' = Lookup
    BY <1>2 DEF Route
  <2>2. Engaged'
    BY <1>1, <1>2, <2>1, LookupMapped DEF Tracked, Engaged
  <2>3. Mapped'
    BY <1>1, <1>2, <2>1, LookupMapped DEF Mapped
  <2> QED
    BY <1>1, <1>2, <2>2, <2>3 DEF Tracked, Closes, Closing, Closed
<1>3. CASE ~gated
  <2>1. UNCHANGED <<gate, entry>>
    BY <1>3 DEF Route
  <2> QED
    BY <1>1, <1>3, <2>1 DEF Tracked, Engaged, Mapped, Closes, Closing, Closed
<1> QED
  BY <1>2, <1>3

LEMMA SkipTracked ==
    ASSUME Local, Tracked, SkipChunk \/ SendDirect
    PROVE  Tracked'
<1>1. Advance /\ producer.pc \in {"route", "gate", "send"} /\ UNCHANGED <<gate, entry, gated>>
  BY DEF SkipChunk, SendDirect
<1>2. producer'.pc \in {"hook", "close"} /\ producer'.final = producer.final
  BY <1>1, Advances
<1> QED
  BY <1>1, <1>2 DEF Tracked, Engaged, Mapped, Closes, Closing, Closed

(* GateSend through a gate that is not the entry's any more drops.         *)
LEMMA GateSendTracked ==
    ASSUME Local, Tracked, GateSend
    PROVE  Tracked'
<1> DEFINE i == producer.on
           g == [gate[i] EXCEPT !.target = TRUE]
           fate == Gated(g, producer.chunk, producer.final).fate
<1>1. /\ DOMAIN gate' = DOMAIN gate
      /\ i \in DOMAIN gate /\ gated
      /\ Handled(g, producer.chunk, gate'[i], fate)
      /\ \A j \in DOMAIN gate : j # i => gate'[j] = gate[j]
      /\ IF fate = "send" THEN producer' = [producer EXCEPT !.pc = "send"] ELSE Advance
  BY GateSendLocal
<1>2. producer.pc = "gate" /\ entry' = entry /\ gated' = gated
  BY DEF GateSend
<1>3. producer'.pc \in {"send", "hook", "close"} /\ producer'.final = producer.final
  BY <1>1, <1>2, Advances, LocalFits DEF Producers
<1>4. gate[i] \in GateRecord
  BY <1>1, LocalFits DEF GatesFit, Fit
<1>5. /\ g.cleanup = gate[i].cleanup /\ g.buf = gate[i].buf /\ g.flusher = gate[i].flusher
      /\ g.state = gate[i].state
  BY <1>4 DEF GateRecord
<1> HIDE DEF g, fate
<1>6. gate'[i].cleanup = gate[i].cleanup /\ (Over(gate[i]) => Over(gate'[i]))
  BY <1>1, <1>5 DEF Handled, Later, Over, Ended, Running
<1>7. i # entry => Empty(gate'[i])
  BY <1>1, <1>2, <1>5 DEF Tracked, Mapped, Handled, Empty, Ended
<1>8. Engaged'
  BY <1>1, <1>2, <1>3, <1>6 DEF Tracked, Engaged
<1>9. Mapped'
  BY <1>1, <1>2, <1>3, <1>6, <1>7 DEF Tracked, Mapped
<1> QED
  BY <1>3, <1>8, <1>9 DEF Tracked, Closes, Closing, Closed

(* CloseStream: after it, the entry's gate is ended or was never engaged;  *)
(* with its flusher gone nothing is left to send.                          *)
LEMMA CloseTracked ==
    ASSUME Local, Tracked, CloseStream
    PROVE  Tracked'
<1>1. producer'.pc = (IF gated THEN "find" ELSE "closed") /\ producer.pc = "close"
  BY CloseLocal DEF CloseStream
<1>2. /\ producer'.final = producer.final /\ gated' = gated
  BY LocalFits DEF CloseStream, Producers
<1>3. CASE gated
  <2> DEFINE g == IF entry = NoGate THEN NewGate ELSE gate[entry]
  <2>1. /\ GatesFit' /\ DOMAIN gate' = DOMAIN gate \union {entry'}
        /\ entry' # NoGate
        /\ entry # NoGate => entry' = entry
        /\ entry = NoGate => entry' \notin DOMAIN gate
        /\ \A j \in DOMAIN gate : j # entry => gate'[j] = gate[j]
        /\ Later(g, gate'[entry'])
        /\ Ended(gate'[entry'])
    BY <1>3, LocalFits, ClosesGate
  <2>2. ~producer.final => ~g.cleanup
    BY LocalFits DEF Tracked, Engaged, NewGate, GatesFit
  <2> HIDE DEF g
  <2>3. \A j \in DOMAIN gate' : j # entry' => j \in DOMAIN gate /\ j # entry /\ gate'[j] = gate[j]
    BY <2>1, GateNumbers, LocalFits
  <2>4. Engaged'
    BY <1>2, <1>3, <2>1, <2>2, <2>3 DEF Tracked, Engaged, Later
  <2>5. Mapped'
    BY <1>1, <1>3, <2>3 DEF Tracked, Mapped
  <2>6. Closes'
    BY <1>1, <1>3, <2>1 DEF Closes, Closed
  <2> QED
    BY <2>4, <2>5, <2>6 DEF Tracked
<1>4. CASE ~gated
  <2>1. UNCHANGED <<gate, entry>>
    BY <1>4 DEF CloseStream
  <2>2. \A j \in DOMAIN gate : Empty(gate[j])
    BY <1>4, IdleEmpty DEF Tracked, Engaged, Local, GatesSound
  <2>3. entry # NoGate => ~gate[entry].target
    BY <1>4, LocalFits DEF Tracked, Engaged, GatesFit
  <2> QED
    BY <1>1, <1>2, <1>4, <2>1, <2>2, <2>3 DEF Tracked, Engaged, Mapped, Closes, Closed
<1> QED
  BY <1>3, <1>4

LEMMA WaitTracked ==
    ASSUME Local, Tracked, WaitForFlusher \/ FlusherDone
    PROVE  Tracked'
<1>1. UNCHANGED <<gate, entry, gated>> /\ producer'.final = producer.final
  BY LocalFits DEF WaitForFlusher, FlusherDone, Producers
<1>2. producer.pc \in {"find", "wait"} /\ producer'.pc \in {"wait", "closed"}
  BY CloseLocal DEF WaitForFlusher, FlusherDone
<1>3. producer'.pc = "wait" => producer'.on = entry
  BY CloseLocal DEF WaitForFlusher
<1>4. ASSUME producer'.pc = "closed", NEW j \in DOMAIN gate
      PROVE  Empty(gate[j])
  <2>1. CASE j # entry
    BY <2>1 DEF Tracked, Mapped
  <2>2. CASE j = entry
    <3>1. entry # NoGate /\ Sound(gate[j])
      BY <2>2, LocalFits, GateNumbers DEF Local, GatesSound
    <3>2. CASE WaitForFlusher
      BY <1>4, <2>2, <3>1, <3>2, CloseLocal, IdleEmpty
    <3>3. CASE FlusherDone
      BY <2>2, <3>1, <3>3, IdleEmpty DEF FlusherDone, Tracked, Closes
    <3> QED
      BY <3>2, <3>3
  <2> QED
    BY <2>1, <2>2
<1> QED
  BY <1>1, <1>2, <1>3, <1>4 DEF Tracked, Engaged, Mapped, Closes, Closing, Closed

LEMMA EngageTracked ==
    ASSUME Local, Tracked, NEW op \in Operations, Engage(op)
    PROVE  Tracked'
<1>1. CanLookup /\ gate' = Known /\ entry' = Lookup /\ gated' /\ producer' = producer
  BY DEF Engage
<1>2. /\ entry' # NoGate
      /\ DOMAIN gate' = DOMAIN gate \union {entry'}
      /\ \A j \in DOMAIN gate : gate'[j] = gate[j]
      /\ entry # NoGate => entry' = entry
      /\ entry = NoGate => entry' \notin DOMAIN gate /\ ~gate'[entry'].target
      /\ \A j \in DOMAIN gate' \ DOMAIN gate :
             /\ Empty(gate'[j]) /\ ~gate'[j].target /\ ~gate'[j].cleanup
             /\ entry = NoGate
      /\ \A j \in DOMAIN gate' : j # entry' => Empty(gate'[j])
      /\ \A j \in DOMAIN gate' : j # entry' /\ gate'[j].cleanup => Over(gate'[j])
  BY <1>1, LookupMapped
<1>3. producer.pc = "gate" => producer.on \in DOMAIN gate
  BY DEF Local, Control
<1>4. Engaged'
  BY <1>1, <1>2 DEF Tracked, Engaged
<1>5. Mapped'
  BY <1>1, <1>2, <1>3, LocalFits, GateNumbers DEF Tracked, Mapped
<1>6. Closes'
  <2>1. CASE entry = NoGate
    BY <1>1, <1>2, <2>1 DEF Tracked, Closes, Closing, Closed
  <2>2. CASE entry # NoGate
    <3>1. entry \in DOMAIN gate /\ gate'[entry] = gate[entry]
      BY <1>2, <2>2, LocalFits DEF GatesFit
    <3> QED
      BY <1>1, <1>2, <2>2, <3>1 DEF Tracked, Closes, Closing, Closed
  <2> QED
    BY <2>1, <2>2
<1> QED
  BY <1>4, <1>5, <1>6 DEF Tracked

LEMMA ApplyTracked ==
    ASSUME Local, Tracked, Apply
    PROVE  Tracked'
<1>1. /\ DOMAIN gate' = DOMAIN gate
      /\ \A j \in DOMAIN gate : /\ Later(gate[j], gate'[j])
                                /\ Empty(gate[j]) => Empty(gate'[j])
  <2>1. /\ DOMAIN gate' = DOMAIN gate /\ call.on \in DOMAIN gate
        /\ Later(gate[call.on], gate'[call.on]) /\ Unmoved(gate[call.on], gate'[call.on])
        /\ \A j \in DOMAIN gate : j # call.on => gate'[j] = gate[j]
    BY ApplyLocal
  <2> QED
    BY <2>1 DEF Later, Unmoved, Empty
<1>2. UNCHANGED <<entry, gated, producer>>
  BY DEF Apply
<1>3. entry \in DOMAIN gate \union {NoGate}
  BY LocalFits DEF GatesFit
<1>4. producer.pc = "gate" => producer.on \in DOMAIN gate
  BY DEF Local, Control
<1>5. Engaged'
  BY <1>1, <1>2 DEF Tracked, Engaged, Later
<1>6. Mapped'
  BY <1>1, <1>2, <1>4 DEF Tracked, Mapped, Later
<1>7. Closes'
  BY <1>1, <1>2, <1>3 DEF Tracked, Closes, Closing, Closed, Later
<1> QED
  BY <1>5, <1>6, <1>7 DEF Tracked

(* A flusher keeps an ended gate ended and an empty one empty, and takes   *)
(* only an entry away whose gate is over.                                  *)
LEMMA FlusherTracked ==
    ASSUME Local, Tracked, NEW i \in DOMAIN gate, Flusher(i)
    PROVE  Tracked'
<1>1. /\ Running(gate[i])
      /\ UNCHANGED <<gated, producer>>
  BY FlusherLocal
<1>2. PICK h : /\ Fit(h) /\ Later(gate[i], h) /\ Leave(i, h)
               /\ ~Running(h) => Ended(h)
               /\ Empty(gate[i]) => Empty(h)
  <2> DEFINE g == gate[i]
  <2>1. PICK h : /\ Fit(h) /\ Later(g, h) /\ Leave(i, h)
                 /\ ~Running(h) => Ended(h)
                 /\ \/ /\ g.flusher = "check" /\ Popped(g, h) /\ out' = out
                       /\ Pending(g) => Pending(h)
                    \/ /\ g.flusher = "send" /\ Popped(g, h) /\ Delivered(g.hold)
                       /\ Pending(g) => Pending(h)
                    \/ /\ g.flusher = "send" /\ Undelivered
                       /\ h.buf = <<>> /\ h.flusher # "send"
                    \/ /\ g.flusher = "error" /\ (Delivered(TerminalError) \/ Undelivered)
                       /\ h.buf = <<>> /\ h.flusher # "send"
    BY FlusherLocal
  <2>2. Popped(g, h) \/ (h.buf = <<>> /\ h.flusher # "send")
    <3> HIDE DEF g
    <3> QED
      BY <2>1
  <2>3. Empty(g) => Empty(h)
    <3> HIDE DEF g
    <3> QED
      BY <2>2 DEF Popped, Empty
  <2> QED
    BY <2>1, <2>3
<1>3. /\ GatesFit' /\ DOMAIN gate' = DOMAIN gate
      /\ Alike(h, gate'[i])
      /\ \A j \in DOMAIN gate :
            /\ j # i => Alike(gate[j], gate'[j])
            /\ j # i /\ j # entry => gate'[j] = gate[j]
      /\ i # entry => gate'[i] = h
      /\ entry' \in {entry, NoGate}
      /\ entry' # entry => ~Running(gate'[entry]) /\ ~Running(h) /\ h.cleanup
      /\ ~h.cleanup => gate'[i] = h /\ \A j \in DOMAIN gate : j # i => gate'[j] = gate[j]
  BY <1>2, LocalFits, Leaves
<1>4. \A j \in DOMAIN gate : /\ gate'[j].target = gate[j].target
                             /\ Ended(gate[j]) => Ended(gate'[j])
                             /\ Empty(gate[j]) => Empty(gate'[j])
                             /\ Sound(gate'[j])
  BY <1>2, <1>3 DEF Later, Alike, Ended, Empty, GatesFit, Fit
<1>5. entry \in DOMAIN gate \union {NoGate} /\ NoGate \notin DOMAIN gate
  BY LocalFits, GateNumbers DEF GatesFit
<1>6. Engaged'
  BY <1>1, <1>2, <1>3, <1>4 DEF Tracked, Engaged, Later
<1>7. entry' # entry => i = entry /\ Over(gate'[entry]) /\ Empty(gate'[entry])
  <2>1. entry' # entry => i = entry
    BY <1>1, <1>2, <1>3, <1>5 DEF Tracked, Mapped, Later, Over
  <2>2. entry' # entry => Over(gate'[entry])
    BY <1>2, <1>3, <2>1 DEF Over, Alike, Ended, Running
  <2> QED
    BY <1>4, <2>1, <2>2, IdleEmpty DEF Over
<1>8. Mapped'
  <2>1. ASSUME NEW j \in DOMAIN gate, j # entry'
        PROVE  Empty(gate'[j]) /\ (gate'[j].cleanup => Over(gate'[j]))
    <3>1. CASE j = entry
      BY <1>7, <2>1, <3>1
    <3>2. CASE j # entry /\ j = i
      BY <1>1, <1>2, <1>3, <1>4, <3>2 DEF Tracked, Mapped, Later, Over
    <3>3. CASE j # entry /\ j # i
      BY <1>3, <3>3 DEF Tracked, Mapped
    <3> QED
      BY <3>1, <3>2, <3>3
  <2>2. producer.pc = "gate" => producer.on \in DOMAIN gate
    BY DEF Local, Control
  <2>3. producer'.pc = "gate" /\ producer'.on # entry' => Ended(gate'[producer'.on])
    BY <1>1, <1>3, <1>4, <1>7, <2>2 DEF Tracked, Mapped, Over
  <2> QED
    BY <1>3, <2>1, <2>3 DEF Mapped
<1>9. Closes'
  BY <1>1, <1>3, <1>4, <1>5 DEF Tracked, Closes, Closing, Closed
<1> QED
  BY <1>6, <1>8, <1>9 DEF Tracked

LEMMA InitTracked == Init => Tracked
<1> SUFFICES ASSUME Init PROVE Tracked
  OBVIOUS
<1> DEFINE g == [NewGate EXCEPT !.refs = 1]
<1>1. gate = <<g>> /\ ~g.target /\ ~g.cleanup
  BY DEF Init, NewGate
<1> HIDE DEF g
<1>2. DOMAIN gate = {1} /\ gate[1] = g /\ entry = 1 /\ producer.pc = "hook"
  BY <1>1 DEF Init
<1> QED
  BY <1>1, <1>2 DEF Tracked, Engaged, Mapped, Closes, Closing, Closed

(* Until somebody reaps the stream.                                        *)
LEMMA StepTracked ==
    ASSUME Local, reaped \/ Tracked, [Next]_vars
    PROVE  (reaped \/ Tracked)'
<1>1. ASSUME Tracked, UNCHANGED <<gate, entry, gated, producer>> PROVE Tracked'
  BY <1>1 DEF Tracked, Engaged, Mapped, Closes, Closing, Closed
<1>2. Tracked /\ Producer => Tracked'
  BY HooksTracked, RouteTracked, SkipTracked, GateSendTracked, CloseTracked, WaitTracked DEF Producer
<1>3. Tracked /\ Plugin => Tracked'
  BY EngageTracked, ApplyTracked DEF Plugin
<1>4. Tracked /\ (\E i \in DOMAIN gate : Flusher(i)) => Tracked'
  BY FlusherTracked
<1>5. Tracked /\ (Cancel \/ Finished \/ UNCHANGED vars) => Tracked'
  BY <1>1 DEF Cancel, Finished, vars
<1>6. Reap => reaped'
  BY DEF Reap
<1>7. [Next]_vars => Reap \/ reaped' = reaped
  BY DEF Next, vars, Finished, Cancel, Flusher, FlusherChecks, FlusherSends, FlusherEnds,
         Plugin, Apply, Engage, Producer, PostHooks, Route, SkipChunk, GateSend, SendDirect,
         CloseStream, WaitForFlusher, FlusherDone
<1> QED
  BY <1>2, <1>3, <1>4, <1>5, <1>6, <1>7 DEF Next

LEMMA TrackedAlways == Spec => [](Local /\ (reaped \/ Tracked))
<1>1. Init => Local /\ (reaped \/ Tracked)
  BY InitLocal, InitTracked
<1>2. Local /\ (reaped \/ Tracked) /\ [Next]_vars => (Local /\ (reaped \/ Tracked))'
  BY StepLocal, StepTracked
<1> QED
  BY <1>1, <1>2, PTL DEF Spec

(* CloseStream waits for every flusher that holds a chunk of the stream,   *)
(* whatever entries come and go, so no send meets a closed channel.        *)
THEOREM NobodySendsAfterClose == Spec => []QuietClose
<1>1. Local /\ (reaped \/ Tracked) => QuietClose
  BY DEF Tracked, Closes, Empty, QuietClose
<1> QED
  BY <1>1, TrackedAlways, PTL

-----------------------------------------------------------------------------
(* Third layer: where each chunk is.                                       *)
Held(g) == ToSet(g.buf) \union (IF g.flusher = "send" THEN {g.hold} ELSE {})

Distinct(s) == \A i, j \in DOMAIN s : s[i] = s[j] => i = j
Once(g) == /\ Distinct(g.buf)
           /\ g.flusher = "send" => g.hold \notin ToSet(g.buf)

AtChunk == producer.pc \in {"hook", "route", "gate", "send"}

(* No chunk is in two places, and the producer's is in none.               *)
Apart ==
    /\ \A i \in DOMAIN gate : Once(gate[i])
    /\ \A i \in DOMAIN gate : \A c \in Held(gate[i]) : c \notin ToSet(out)
    /\ \A i, j \in DOMAIN gate : i # j => \A c \in Held(gate[i]) : c \notin Held(gate[j])
    /\ AtChunk => \A i \in DOMAIN gate : \A c \in Held(gate[i]) : c < producer.chunk
    /\ AtChunk => \A c \in ToSet(out) : c < producer.chunk \/ c = TerminalError
    /\ \A i, j \in DOMAIN out : i # j /\ out[i] = out[j] => out[i] = TerminalError

(* An accepted chunk is sent or held; a terminal error that is owed is on  *)
(* its way.                                                                *)
Saved == \A c \in accepted : c \in ToSet(out) \/ \E i \in DOMAIN gate : c \in Held(gate[i])
Owing == owed /\ TerminalError \notin ToSet(out) =>
             ~Closed /\ entry # NoGate /\ Pending(gate[entry])
Kept == ~cancelled /\ ~reaped => Saved /\ Owing

(* Sequences as sets.                                                      *)
LEMMA AppendSet ==
    ASSUME NEW S, NEW s \in Seq(S), NEW c \in S
    PROVE  /\ ToSet(Append(s, c)) = ToSet(s) \union {c}
           /\ Distinct(s) /\ c \notin ToSet(s) => Distinct(Append(s, c))
<1> DEFINE t == Append(s, c)
<1>1. /\ Len(t) = Len(s) + 1 /\ t \in Seq(S) /\ Len(s) \in Nat
      /\ \A i \in 1 .. Len(s) : t[i] = s[i]
      /\ t[Len(s) + 1] = c
  BY AppendProperties, LenProperties
<1>2. DOMAIN s = 1 .. Len(s) /\ DOMAIN t = 1 .. (Len(s) + 1)
  BY <1>1, LenProperties
<1> HIDE DEF t
<1>3. ToSet(t) = ToSet(s) \union {c}
  BY <1>1, <1>2 DEF ToSet
<1>4. Distinct(s) /\ c \notin ToSet(s) => Distinct(t)
  BY <1>1, <1>2 DEF ToSet, Distinct
<1> QED
  BY <1>3, <1>4 DEF t

LEMMA PopSet ==
    ASSUME NEW S, NEW s \in Seq(S), s # <<>>
    PROVE  /\ ToSet(s) = ToSet(Tail(s)) \union {Head(s)}
           /\ Distinct(s) => Distinct(Tail(s)) /\ Head(s) \notin ToSet(Tail(s))
<1> DEFINE t == Tail(s)
<1>1. /\ Len(t) = Len(s) - 1 /\ t \in Seq(S) /\ Len(s) \in Nat \ {0}
      /\ \A i \in 1 .. Len(t) : t[i] = s[i + 1]
  BY HeadTailProperties, LenProperties, EmptySeq
<1>2. DOMAIN s = 1 .. Len(s) /\ DOMAIN t = 1 .. (Len(s) - 1)
  BY <1>1, LenProperties
<1>3. Head(s) = s[1]
  OBVIOUS
<1> HIDE DEF t
<1>4. ASSUME NEW i \in DOMAIN s PROVE s[i] \in ToSet(t) \union {s[1]}
  <2>1. CASE i = 1
    BY <2>1
  <2>2. CASE i # 1
    <3>1. i - 1 \in DOMAIN t /\ t[i - 1] = s[i]
      BY <1>1, <1>2, <2>2
    <3> QED
      BY <3>1 DEF ToSet
  <2> QED
    BY <2>1, <2>2
<1>5. ToSet(t) \subseteq ToSet(s)
  BY <1>1, <1>2 DEF ToSet
<1>6. s[1] \in ToSet(s)
  BY <1>1, <1>2 DEF ToSet
<1>7. ToSet(s) = ToSet(t) \union {s[1]}
  BY <1>4, <1>5, <1>6 DEF ToSet
<1>8. ASSUME Distinct(s) PROVE Distinct(t) /\ s[1] \notin ToSet(t)
  <2>1. \A i \in DOMAIN t : i + 1 \in DOMAIN s /\ t[i] = s[i + 1] /\ i + 1 # 1
    BY <1>1, <1>2
  <2>2. 1 \in DOMAIN s
    BY <1>1, <1>2
  <2>3. s[1] \notin ToSet(t)
    BY <1>8, <2>1, <2>2 DEF Distinct, ToSet
  <2>4. ASSUME NEW i \in DOMAIN t, NEW j \in DOMAIN t, t[i] = t[j] PROVE i = j
    BY <1>2, <1>8, <2>1, <2>4 DEF Distinct
  <2> QED
    BY <2>3, <2>4 DEF Distinct
<1> QED
  BY <1>3, <1>7, <1>8 DEF t

LEMMA EmptyHolds ==
    ASSUME NEW g, Empty(g)
    PROVE  Held(g) = {} /\ Once(g)
BY DEF Empty, Held, Once, Distinct, ToSet

LEMMA UnmovedHolds ==
    ASSUME NEW g, NEW h, Unmoved(g, h) \/ Alike(g, h)
    PROVE  Held(h) = Held(g) /\ (Once(g) => Once(h))
BY DEF Unmoved, Alike, Held, Once

(* The flusher's hand is part of the gate; what it has sent is not.        *)
LEMMA PoppedHolds ==
    ASSUME NEW g \in GateRecord, NEW h, Popped(g, h)
    PROVE  /\ Held(h) = ToSet(g.buf)
           /\ Once(g) => Once(h)
<1>1. CASE g.buf # <<>> /\ h.flusher = "send" /\ h.hold = Head(g.buf) /\ h.buf = Tail(g.buf)
  <2>1. g.buf \in Seq(1 .. Chunks)
    BY DEF GateRecord
  <2> QED
    BY <1>1, <2>1, PopSet DEF Held, Once
<1>2. CASE h.flusher # "send" /\ h.buf = g.buf
  BY <1>2 DEF Held, Once
<1> QED
  BY <1>1, <1>2 DEF Popped

(* Only chunks of the provider are held.                                   *)
LEMMA HeldChunks ==
    ASSUME NEW g, Fit(g), NEW c \in Held(g)
    PROVE  c \in 1 .. Chunks /\ c # TerminalError
<1>1. CASE c \in ToSet(g.buf)
  <2>1. g.buf \in Seq(1 .. Chunks)
    BY DEF Fit, GateRecord
  <2>2. c \in 1 .. Chunks
    BY <1>1, <2>1, LenProperties, ElementOfSeq DEF ToSet
  <2> QED
    BY <2>2, NatAssumption DEF TerminalError
<1>2. CASE g.flusher = "send" /\ c = g.hold
  BY <1>2, NatAssumption DEF Fit, Sound, GateRecord, TerminalError
<1> QED
  BY <1>1, <1>2 DEF Held

(* One more element at the end of out.                                     *)
LEMMA AppendOut ==
    ASSUME out \in Seq(1 .. TerminalError), NEW x \in 1 .. TerminalError,
           \A i, j \in DOMAIN out : i # j /\ out[i] = out[j] => out[i] = TerminalError,
           x \in ToSet(out) => x = TerminalError, out' = Append(out, x)
    PROVE  /\ ToSet(out') = ToSet(out) \union {x}
           /\ \A i, j \in DOMAIN out' : i # j /\ out'[i] = out'[j] => out'[i] = TerminalError
<1>1. ToSet(out') = ToSet(out) \union {x}
  <2> DEFINE S == 1 .. TerminalError
  <2>1. out \in Seq(S) /\ x \in S
    OBVIOUS
  <2> HIDE DEF S
  <2>2. ToSet(Append(out, x)) = ToSet(out) \union {x}
    BY <2>1, AppendSet
  <2> QED
    BY <2>2
<1>2. /\ Len(out) \in Nat /\ DOMAIN out = 1 .. Len(out)
      /\ DOMAIN out' = 1 .. (Len(out) + 1)
      /\ \A i \in 1 .. Len(out) : out'[i] = out[i]
      /\ out'[Len(out) + 1] = x
  BY AppendProperties, LenProperties
<1>3. \A i \in DOMAIN out' : i \in DOMAIN out \/ i = Len(out) + 1
  BY <1>2
<1>4. \A i \in DOMAIN out : out[i] = x => x = TerminalError
  BY DEF ToSet
<1> QED
  BY <1>1, <1>2, <1>3, <1>4

(* A step that gives no gate another chunk, and sends what nobody else     *)
(* has, keeps the chunks apart.                                            *)
LEMMA ApartShrinks ==
    ASSUME Local, Local', Apart,
           \A j \in DOMAIN gate' :
               /\ Once(gate'[j])
               /\ Held(gate'[j]) = {} \/ (j \in DOMAIN gate /\ Held(gate'[j]) \subseteq Held(gate[j])),
           \/ out' = out
           \/ \E x \in 1 .. TerminalError :
                 /\ out' = Append(out, x)
                 /\ \/ x = TerminalError
                    \/ /\ x \notin ToSet(out)
                       /\ \A j \in DOMAIN gate' : x \notin Held(gate'[j])
                       /\ AtChunk' => x < producer'.chunk,
           AtChunk' => AtChunk /\ producer.chunk <= producer'.chunk
    PROVE  Apart'
<1>1. /\ \A j \in DOMAIN gate' : \A c \in Held(gate'[j]) : c \in Nat /\ c # TerminalError
      /\ out \in Seq(1 .. TerminalError) /\ TerminalError \in Nat
      /\ producer.chunk \in Nat /\ producer'.chunk \in Nat
  <2>1. \A j \in DOMAIN gate' : Fit(gate'[j])
    BY DEF Local, TypeOK, GatesSound, Fit
  <2>2. \A j \in DOMAIN gate' : \A c \in Held(gate'[j]) : c \in Nat /\ c # TerminalError
    BY <2>1, HeldChunks, NatAssumption
  <2>3. producer.chunk \in Nat /\ producer'.chunk \in Nat
    BY NatAssumption DEF Local, TypeOK
  <2> QED
    BY <2>2, <2>3, LocalFits
<1>2. \A j \in DOMAIN gate' : \A c \in Held(gate'[j]) : j \in DOMAIN gate /\ c \in Held(gate[j])
  OBVIOUS
<1>3. /\ \A i \in DOMAIN gate : \A c \in Held(gate[i]) : c \notin ToSet(out)
      /\ \A i, j \in DOMAIN gate : i # j => \A c \in Held(gate[i]) : c \notin Held(gate[j])
      /\ AtChunk => \A i \in DOMAIN gate : \A c \in Held(gate[i]) : c < producer.chunk
      /\ AtChunk => \A c \in ToSet(out) : c < producer.chunk \/ c = TerminalError
      /\ \A i, j \in DOMAIN out : i # j /\ out[i] = out[j] => out[i] = TerminalError
  BY DEF Apart
<1>4. \A c \in ToSet(out) : c \in Nat
  BY <1>1, LenProperties, ElementOfSeq DEF ToSet
<1>5. /\ \A j \in DOMAIN gate' : \A c \in Held(gate'[j]) : c \notin ToSet(out')
      /\ AtChunk' => \A c \in ToSet(out') : c < producer'.chunk \/ c = TerminalError
      /\ \A i, j \in DOMAIN out' : i # j /\ out'[i] = out'[j] => out'[i] = TerminalError
  <2>1. CASE out' = out
    BY <1>1, <1>2, <1>3, <1>4, <2>1
  <2>2. ASSUME NEW x \in 1 .. TerminalError, out' = Append(out, x),
               \/ x = TerminalError
               \/ /\ x \notin ToSet(out)
                  /\ \A j \in DOMAIN gate' : x \notin Held(gate'[j])
                  /\ AtChunk' => x < producer'.chunk
        PROVE  /\ \A j \in DOMAIN gate' : \A c \in Held(gate'[j]) : c \notin ToSet(out')
               /\ AtChunk' => \A c \in ToSet(out') : c < producer'.chunk \/ c = TerminalError
               /\ \A i, j \in DOMAIN out' : i # j /\ out'[i] = out'[j] => out'[i] = TerminalError
    <3>1. /\ ToSet(out') = ToSet(out) \union {x}
          /\ \A i, j \in DOMAIN out' : i # j /\ out'[i] = out'[j] => out'[i] = TerminalError
      BY <1>1, <1>3, <2>2, AppendOut
    <3>2. \A j \in DOMAIN gate' : \A c \in Held(gate'[j]) : c \notin ToSet(out')
      BY <1>1, <1>2, <1>3, <2>2, <3>1
    <3>3. AtChunk' => \A c \in ToSet(out') : c < producer'.chunk \/ c = TerminalError
      BY <1>1, <1>3, <1>4, <2>2, <3>1
    <3> QED
      BY <3>1, <3>2, <3>3
  <2> QED
    BY <2>1, <2>2
<1>6. \A i, j \in DOMAIN gate' : i # j => \A c \in Held(gate'[i]) : c \notin Held(gate'[j])
  BY <1>2, <1>3
<1>7. AtChunk' => \A i \in DOMAIN gate' : \A c \in Held(gate'[i]) : c < producer'.chunk
  BY <1>1, <1>2, <1>3
<1> QED
  BY <1>5, <1>6, <1>7 DEF Apart

(* A step that moves no chunk.                                             *)
LEMMA Still ==
    ASSUME Local, Local', Apart, DOMAIN gate \subseteq DOMAIN gate',
           \A j \in DOMAIN gate : Unmoved(gate[j], gate'[j]),
           \A j \in DOMAIN gate' : j \in DOMAIN gate \/ Empty(gate'[j]),
           out' = out, accepted' = accepted,
           AtChunk' => AtChunk /\ producer.chunk <= producer'.chunk
    PROVE  Apart' /\ (Saved => Saved')
<1>1. \A j \in DOMAIN gate : Held(gate'[j]) = Held(gate[j]) /\ Once(gate'[j])
  BY UnmovedHolds DEF Apart
<1>2. \A j \in DOMAIN gate' : j \in DOMAIN gate \/ (Held(gate'[j]) = {} /\ Once(gate'[j]))
  BY EmptyHolds
<1>3. Apart'
  BY <1>1, <1>2, ApartShrinks
<1>4. Saved => Saved'
  BY <1>1 DEF Saved
<1> QED
  BY <1>3, <1>4

(* The terminal error stays on its way.                                    *)
LEMMA OwingStays ==
    ASSUME Owing, owed' => owed, out' = out,
           owed /\ ~Closed /\ entry # NoGate /\ Pending(gate[entry]) =>
               ~Closed' /\ entry' # NoGate /\ Pending(gate'[entry'])
    PROVE  Owing'
BY DEF Owing

LEMMA Likeness ==
    ASSUME NEW g, NEW h, Alike(g, h)
    PROVE  Unmoved(g, h) /\ (Pending(g) => Pending(h))
BY DEF Alike, Unmoved, Pending, Ended

LEMMA HooksKept ==
    ASSUME Local, Apart, NEW final \in BOOLEAN, PostHooks(final)
    PROVE  Apart' /\ (Saved => Saved') /\ (Owing => Owing')
<1>1. /\ Local' /\ producer.pc = "hook" /\ producer'.pc = "route"
      /\ producer'.chunk = producer.chunk /\ producer \in Producers
      /\ UNCHANGED <<out, accepted, owed>>
  BY HooksLocal, LocalFits DEF PostHooks
<1>2. /\ DOMAIN gate' = DOMAIN gate
      /\ \A j \in DOMAIN gate : Alike(gate[j], gate'[j])
      /\ entry' \in {entry, NoGate}
      /\ entry' # entry => ~Running(gate[entry])
  BY LocalFits, HooksDone
<1>3. \A j \in DOMAIN gate : Unmoved(gate[j], gate'[j]) /\ (Pending(gate[j]) => Pending(gate'[j]))
  BY <1>2, Likeness
<1>4. producer.chunk <= producer'.chunk
  BY <1>1, NatAssumption DEF Producers
<1>5. Apart' /\ (Saved => Saved')
  BY <1>1, <1>2, <1>3, <1>4, Still DEF AtChunk
<1>6. entry # NoGate /\ Pending(gate[entry]) => entry' = entry /\ Pending(gate'[entry])
  BY <1>2, <1>3, LocalFits DEF GatesFit, Pending, Running
<1>7. ~Closed'
  BY <1>1 DEF Closed
<1> QED
  BY <1>1, <1>5, <1>6, <1>7, OwingStays

(* A lookup moves nothing, and keeps an entry that is there.               *)
LEMMA LookupKept ==
    ASSUME Local, Local', Apart, CanLookup, gate' = Known, entry' = Lookup,
           UNCHANGED <<out, accepted>>, owed' = owed,
           AtChunk' => AtChunk /\ producer.chunk = producer'.chunk,
           ~Closed => ~Closed'
    PROVE  Apart' /\ (Saved => Saved') /\ (Owing => Owing')
<1>1. /\ entry' # NoGate
      /\ DOMAIN gate' = DOMAIN gate \union {entry'}
      /\ \A j \in DOMAIN gate : gate'[j] = gate[j]
      /\ entry # NoGate => entry' = entry
      /\ \A j \in DOMAIN gate' \ DOMAIN gate : Empty(gate'[j])
  <2>1. /\ DOMAIN Known = DOMAIN gate \union {Lookup}
        /\ \A j \in DOMAIN gate : Known[j] = gate[j]
        /\ Lookup # NoGate
        /\ entry # NoGate => Lookup = entry /\ Known = gate
        /\ entry = NoGate => Lookup \notin DOMAIN gate /\ Known[Lookup] = NewGate
    BY LocalFits, Found
  <2>2. Empty(NewGate)
    BY DEF NewGate, Empty
  <2> HIDE DEF NewGate
  <2> QED
    BY <2>1, <2>2
<1>2. \A j \in DOMAIN gate : Unmoved(gate[j], gate'[j])
  BY <1>1 DEF Unmoved
<1>3. producer.chunk \in Nat
  BY LocalFits, NatAssumption DEF Producers
<1>4. Apart' /\ (Saved => Saved')
  BY <1>1, <1>2, <1>3, Still
<1>5. entry # NoGate => entry \in DOMAIN gate
  BY LocalFits DEF GatesFit
<1>6. Owing => Owing'
  BY <1>1, <1>5, OwingStays
<1> QED
  BY <1>4, <1>6

LEMMA RouteKept ==
    ASSUME Local, Apart, Route
    PROVE  Apart' /\ (Saved => Saved') /\ (Owing => Owing')
<1>1. /\ Local' /\ producer.pc = "route" /\ producer'.pc \in {"gate", "send"}
      /\ producer'.chunk = producer.chunk /\ producer \in Producers
      /\ UNCHANGED <<out, accepted, owed>>
  BY RouteLocal, LocalFits DEF Route
<1>2. AtChunk /\ AtChunk' /\ ~Closed' /\ producer.chunk <= producer'.chunk
  BY <1>1, NatAssumption DEF AtChunk, Closed, Producers
<1>3. CASE gated
  BY <1>1, <1>2, <1>3, LookupKept DEF Route
<1>4. CASE ~gated
  <2>1. UNCHANGED <<gate, entry>>
    BY <1>4 DEF Route
  <2>2. \A j \in DOMAIN gate : Unmoved(gate[j], gate'[j])
    BY <2>1 DEF Unmoved
  <2> QED
    BY <1>1, <1>2, <2>1, <2>2, Still, OwingStays
<1> QED
  BY <1>3, <1>4

LEMMA SkipKept ==
    ASSUME Local, Apart, SkipChunk
    PROVE  Apart' /\ (Saved => Saved') /\ (Owing => Owing')
<1>1. /\ Local' /\ producer.pc = "route" /\ Advance
      /\ UNCHANGED <<gate, entry, out, accepted, owed>>
  BY SkipLocal DEF SkipChunk
<1>2. /\ producer'.pc \in {"hook", "close"} /\ producer \in Producers
      /\ producer.chunk <= producer'.chunk
  BY <1>1, Advances, LocalFits, NatAssumption DEF Producers
<1>3. \A j \in DOMAIN gate : Unmoved(gate[j], gate'[j])
  BY <1>1 DEF Unmoved
<1>4. AtChunk /\ ~Closed'
  BY <1>1, <1>2 DEF AtChunk, Closed
<1> QED
  BY <1>1, <1>2, <1>3, <1>4, Still, OwingStays

(* The producer's own chunk is ahead of all that is held or sent.          *)
LEMMA ChunkAhead ==
    ASSUME Local, Apart, AtChunk
    PROVE  /\ producer.chunk \in 1 .. Chunks /\ producer.chunk # TerminalError
           /\ producer.chunk \in 1 .. TerminalError
           /\ producer.chunk \notin ToSet(out)
           /\ \A j \in DOMAIN gate : producer.chunk \notin Held(gate[j])
<1>1. producer.chunk \in 1 .. Chunks /\ Chunks \in Nat /\ TerminalError = Chunks + 1
  BY LocalFits DEF Producers, TerminalError
<1>2. \A c : c = producer.chunk => ~(c < producer.chunk) /\ c # TerminalError
  BY <1>1
<1> QED
  BY <1>1, <1>2 DEF Apart

LEMMA DirectKept ==
    ASSUME Local, Apart, SendDirect
    PROVE  Apart' /\ (Saved => Saved') /\ (Owing => Owing')
<1> DEFINE c == producer.chunk
<1>1. /\ Local' /\ producer.pc = "send" /\ Advance
      /\ UNCHANGED <<gate, entry, owed>>
  BY DirectLocal DEF SendDirect
<1>2. /\ producer'.pc = (IF producer.final THEN "close" ELSE "hook")
      /\ producer'.chunk = (IF producer.final THEN c ELSE c + 1)
  BY <1>1, Advances
<1>3. AtChunk /\ ~Closed'
  BY <1>1, <1>2 DEF AtChunk, Closed
<1>4. /\ c \in 1 .. TerminalError /\ c # TerminalError /\ c \in Nat
      /\ c \notin ToSet(out) /\ \A j \in DOMAIN gate : c \notin Held(gate[j])
  BY <1>3, ChunkAhead, NatAssumption
<1>5. AtChunk' => c < producer'.chunk
  BY <1>2, <1>4 DEF AtChunk
<1>6. c <= producer'.chunk
  BY <1>2, <1>4
<1>7. \A j \in DOMAIN gate' : j \in DOMAIN gate /\ Once(gate'[j]) /\ Held(gate'[j]) \subseteq Held(gate[j])
  BY <1>1 DEF Apart
<1>8. \/ out' = Append(out, c) /\ accepted' = accepted \union {c}
      \/ out' = out /\ accepted' = accepted
  BY DEF SendDirect, Delivered, Undelivered
<1>9. Apart'
  BY <1>1, <1>3, <1>4, <1>5, <1>6, <1>7, <1>8, ApartShrinks
<1>10. ToSet(out) \subseteq ToSet(out') /\ (accepted' = accepted \union {c} => accepted' = accepted \/ c \in ToSet(out'))
  <2>1. out' = Append(out, c) => ToSet(out') = ToSet(out) \union {c}
    BY <1>4, LocalFits, AppendOut DEF Apart
  <2> QED
    BY <1>8, <2>1
<1>11. Saved => Saved'
  BY <1>1, <1>8, <1>10 DEF Saved
<1>12. Owing => Owing'
  BY <1>1, <1>3, <1>10 DEF Owing
<1> QED
  BY <1>9, <1>11, <1>12

LEMMA WaitKept ==
    ASSUME Local, Apart, WaitForFlusher \/ FlusherDone
    PROVE  Apart' /\ (Saved => Saved') /\ (Tracked /\ Owing => Owing')
<1>1. /\ Local' /\ producer.pc \in {"find", "wait"} /\ producer'.pc \in {"wait", "closed"}
      /\ UNCHANGED <<gate, entry, out, accepted, owed>>
  BY CloseLocal DEF WaitForFlusher, FlusherDone
<1>2. \A j \in DOMAIN gate : Unmoved(gate[j], gate'[j])
  BY <1>1 DEF Unmoved
<1>3. ~AtChunk'
  BY <1>1 DEF AtChunk
<1>4. Apart' /\ (Saved => Saved')
  BY <1>1, <1>2, <1>3, Still
<1>5. Tracked /\ entry # NoGate /\ Pending(gate[entry]) => ~Closed'
  <2>1. CASE WaitForFlusher
    BY <2>1, CloseLocal DEF Pending, Running, Closed
  <2>2. CASE FlusherDone
    BY <2>2 DEF FlusherDone, Pending, Running, Tracked, Closes
  <2> QED
    BY <2>1, <2>2
<1> QED
  BY <1>1, <1>4, <1>5, OwingStays

LEMMA EngageKept ==
    ASSUME Local, Apart, NEW op \in Operations, Engage(op)
    PROVE  Apart' /\ (Saved => Saved') /\ (Owing => Owing')
<1>1. /\ Local' /\ CanLookup /\ gate' = Known /\ entry' = Lookup /\ producer' = producer
      /\ UNCHANGED <<out, accepted>> /\ owed' = owed
  BY EngageLocal DEF Engage
<1> QED
  BY <1>1, LookupKept DEF AtChunk, Closed

LEMMA ApplyKept ==
    ASSUME Local, Apart, Apply
    PROVE  Apart' /\ (Saved => Saved') /\ (Tracked /\ Owing => Owing')
<1> DEFINE i == call.on
<1>1. /\ Local' /\ DOMAIN gate' = DOMAIN gate
      /\ i \in DOMAIN gate
      /\ Unmoved(gate[i], gate'[i])
      /\ Pending(gate[i]) => Pending(gate'[i])
      /\ \A j \in DOMAIN gate : j # i => gate'[j] = gate[j]
      /\ owed' => owed \/ (~Ended(gate[i]) /\ i = entry /\ gate[i].target /\ Pending(gate'[i]))
  BY ApplyLocal
<1>2. UNCHANGED <<entry, producer, out, accepted>>
  BY DEF Apply
<1> HIDE DEF i
<1>3. \A j \in DOMAIN gate : Unmoved(gate[j], gate'[j]) /\ (Pending(gate[j]) => Pending(gate'[j]))
  BY <1>1 DEF Unmoved
<1>4. producer.chunk \in Nat
  BY LocalFits, NatAssumption DEF Producers
<1>5. Apart' /\ (Saved => Saved')
  BY <1>1, <1>2, <1>3, <1>4, Still DEF AtChunk
<1>6. entry # NoGate => entry \in DOMAIN gate
  BY LocalFits DEF GatesFit
<1>7. i # NoGate
  BY <1>1, LocalFits, GateNumbers
<1>8. Tracked /\ ~Ended(gate[i]) /\ i = entry /\ gate[i].target => ~Closed
  BY <1>7 DEF Tracked, Closes, Closing, Closed
<1> QED
  BY <1>1, <1>2, <1>3, <1>5, <1>6, <1>7, <1>8 DEF Owing, Closed

LEMMA CloseKept ==
    ASSUME Local, Apart, CloseStream
    PROVE  Apart' /\ (Saved => Saved') /\ (Tracked /\ Owing => Owing')
<1>1. /\ Local' /\ producer'.pc = (IF gated THEN "find" ELSE "closed")
      /\ UNCHANGED <<out, accepted, owed>>
  BY CloseLocal DEF CloseStream
<1>2. ~AtChunk'
  BY <1>1 DEF AtChunk
<1>3. CASE gated
  <2> DEFINE g == IF entry = NoGate THEN NewGate ELSE gate[entry]
  <2>1. /\ DOMAIN gate' = DOMAIN gate \union {entry'}
        /\ entry' # NoGate
        /\ entry # NoGate => entry' = entry
        /\ entry = NoGate => entry' \notin DOMAIN gate
        /\ \A j \in DOMAIN gate : j # entry => gate'[j] = gate[j]
        /\ Unmoved(g, gate'[entry'])
        /\ Pending(g) => Pending(gate'[entry'])
    BY <1>3, LocalFits, ClosesGate
  <2>2. entry # NoGate => g = gate[entry]
    OBVIOUS
  <2>3. entry = NoGate => Empty(g)
    BY DEF NewGate, Empty
  <2> HIDE DEF g
  <2>4. \A j \in DOMAIN gate : Unmoved(gate[j], gate'[j])
    <3>1. ASSUME NEW j \in DOMAIN gate PROVE Unmoved(gate[j], gate'[j])
      <4>1. CASE j = entry
        BY <2>1, <2>2, <4>1, LocalFits, GateNumbers
      <4>2. CASE j # entry
        BY <2>1, <4>2 DEF Unmoved
      <4> QED
        BY <4>1, <4>2
    <3> QED
      BY <3>1
  <2>5. ASSUME NEW j \in DOMAIN gate', j \notin DOMAIN gate PROVE Empty(gate'[j])
    <3>1. j = entry'
      BY <2>1, <2>5
    <3>2. entry \in DOMAIN gate \union {NoGate}
      BY LocalFits DEF GatesFit
    <3>3. entry = NoGate
      BY <2>1, <2>5, <3>1, <3>2
    <3> QED
      BY <2>1, <2>3, <3>1, <3>3 DEF Unmoved, Empty
  <2>6. Apart' /\ (Saved => Saved')
    BY <1>1, <1>2, <2>1, <2>4, <2>5, Still
  <2>7. ~Closed'
    BY <1>1, <1>3 DEF Closed
  <2> QED
    BY <1>1, <2>1, <2>2, <2>6, <2>7, OwingStays
<1>4. CASE ~gated
  <2>1. UNCHANGED <<gate, entry>>
    BY <1>4 DEF CloseStream
  <2>2. \A j \in DOMAIN gate : Unmoved(gate[j], gate'[j])
    BY <2>1 DEF Unmoved
  <2>3. Tracked /\ entry # NoGate => ~Pending(gate[entry])
    BY <1>4, LocalFits DEF Tracked, Engaged, Pending, GatesFit
  <2> QED
    BY <1>1, <1>2, <2>1, <2>2, <2>3, Still, OwingStays
<1> QED
  BY <1>3, <1>4

(* What GateSend keeps is ahead of what is there; nothing else moves.      *)
LEMMA HandledHolds ==
    ASSUME NEW g \in GateRecord, NEW c \in 1 .. Chunks, NEW h, NEW fate, Handled(g, c, h, fate)
    PROVE  /\ Held(h) = IF fate = "keep" THEN Held(g) \union {c} ELSE Held(g)
           /\ Once(g) /\ c \notin Held(g) => Once(h)
<1>1. g.buf \in Seq(1 .. Chunks)
  BY DEF GateRecord
<1>2. CASE fate = "keep"
  <2>1. h.buf = Append(g.buf, c)
    BY <1>2 DEF Handled
  <2>2. /\ ToSet(h.buf) = ToSet(g.buf) \union {c}
        /\ Distinct(g.buf) /\ c \notin ToSet(g.buf) => Distinct(h.buf)
    <3> DEFINE S == 1 .. Chunks
               s == g.buf
    <3>1. s \in Seq(S) /\ c \in S
      BY <1>1
    <3> HIDE DEF S, s
    <3>2. /\ ToSet(Append(s, c)) = ToSet(s) \union {c}
          /\ Distinct(s) /\ c \notin ToSet(s) => Distinct(Append(s, c))
      BY <3>1, AppendSet
    <3> QED
      BY <2>1, <3>2 DEF s
  <2> QED
    BY <1>2, <2>2 DEF Handled, Held, Once
<1>3. CASE fate # "keep"
  BY <1>3 DEF Handled, Held, Once
<1> QED
  BY <1>2, <1>3

LEMMA GateSendKept ==
    ASSUME Local, Apart, GateSend
    PROVE  Apart' /\ (Saved => Saved') /\ (Tracked /\ Owing => Owing')
<1> DEFINE i == producer.on
           c == producer.chunk
           g == [gate[i] EXCEPT !.target = TRUE]
           fate == Gated(g, c, producer.final).fate
<1>1. /\ Local' /\ DOMAIN gate' = DOMAIN gate
      /\ i \in DOMAIN gate /\ c \in 1 .. Chunks
      /\ Handled(g, c, gate'[i], fate)
      /\ \A j \in DOMAIN gate : j # i => gate'[j] = gate[j]
      /\ owed' = (owed \/ (gate'[i].endErr /\ ~gate[i].endErr))
      /\ accepted' = IF fate = "keep" THEN accepted \union {c} ELSE accepted
      /\ IF fate = "send" THEN producer' = [producer EXCEPT !.pc = "send"] ELSE Advance
  BY GateSendLocal
<1>2. producer.pc = "gate" /\ UNCHANGED <<entry, out>> /\ AtChunk /\ producer \in Producers
  BY LocalFits DEF GateSend, AtChunk
<1>3. gate[i] \in GateRecord
  BY <1>1, LocalFits DEF GatesFit, Fit
<1>4. /\ g \in GateRecord
      /\ g.buf = gate[i].buf /\ g.flusher = gate[i].flusher /\ g.hold = gate[i].hold
      /\ g.state = gate[i].state /\ g.endErr = gate[i].endErr /\ g.target
  BY <1>3 DEF GateRecord
<1> HIDE DEF g, fate
<1>5. Held(g) = Held(gate[i]) /\ (Once(gate[i]) => Once(g))
  BY <1>4 DEF Held, Once
<1>6. /\ c \in Nat /\ c # TerminalError /\ c \notin ToSet(out)
      /\ \A j \in DOMAIN gate : c \notin Held(gate[j])
  BY <1>2, ChunkAhead, NatAssumption
<1>7. /\ Held(gate'[i]) = IF fate = "keep" THEN Held(gate[i]) \union {c} ELSE Held(gate[i])
      /\ Once(gate'[i])
  <2>1. /\ Held(gate'[i]) = IF fate = "keep" THEN Held(g) \union {c} ELSE Held(g)
        /\ Once(g) /\ c \notin Held(g) => Once(gate'[i])
    BY <1>1, <1>4, HandledHolds
  <2>2. Once(gate[i]) /\ c \notin Held(g)
    BY <1>1, <1>5, <1>6 DEF Apart
  <2> QED
    BY <1>5, <2>1, <2>2
<1>8. /\ producer'.pc \in {"send", "hook", "close"} /\ c <= producer'.chunk
      /\ fate = "keep" /\ AtChunk' => c < producer'.chunk
  <2>1. CASE fate = "send"
    BY <1>1, <1>2, <1>6, <2>1 DEF Producers
  <2>2. CASE fate # "send"
    BY <1>1, <1>2, <1>6, <2>2, Advances DEF AtChunk
  <2> QED
    BY <2>1, <2>2
<1>9. Apart'
  <2>1. CASE fate # "keep"
    <3>1. \A j \in DOMAIN gate' : Once(gate'[j]) /\ j \in DOMAIN gate /\ Held(gate'[j]) \subseteq Held(gate[j])
      BY <1>1, <1>7, <2>1 DEF Apart
    <3> QED
      BY <1>1, <1>2, <1>8, <3>1, ApartShrinks
  <2>2. CASE fate = "keep"
    <3>1. \A j \in DOMAIN gate' : /\ Once(gate'[j])
                                  /\ j \in DOMAIN gate
                                  /\ Held(gate'[j]) = IF j = i THEN Held(gate[i]) \union {c} ELSE Held(gate[j])
      BY <1>1, <1>7, <2>2 DEF Apart
    <3>2. \A j \in DOMAIN gate : \A x \in Held(gate[j]) : x \in Nat /\ x < c /\ x \notin ToSet(out)
      <4>1. \A j \in DOMAIN gate : Fit(gate[j])
        BY LocalFits DEF GatesFit
      <4>2. \A j \in DOMAIN gate : \A x \in Held(gate[j]) : x \in Nat
        BY <4>1, HeldChunks, NatAssumption
      <4> QED
        BY <1>2, <4>2 DEF Apart
    <3>3. \A x \in ToSet(out) : x \in Nat /\ (x < c \/ x = TerminalError)
      BY <1>2, LocalFits, LenProperties, ElementOfSeq DEF ToSet, Apart
    <3>4. producer'.chunk \in Nat
      BY <1>1, LocalFits, NatAssumption DEF Local, TypeOK
    <3>5. \A j \in DOMAIN gate' : \A x \in Held(gate'[j]) : x \notin ToSet(out')
      BY <1>2, <1>6, <3>1, <3>2
    <3>6. \A j, k \in DOMAIN gate' : j # k => \A x \in Held(gate'[j]) : x \notin Held(gate'[k])
      BY <1>6, <3>1 DEF Apart
    <3>7. AtChunk' => \A j \in DOMAIN gate' : \A x \in Held(gate'[j]) : x < producer'.chunk
      BY <1>6, <1>8, <2>2, <3>1, <3>2, <3>4
    <3>8. AtChunk' => \A x \in ToSet(out') : x < producer'.chunk \/ x = TerminalError
      BY <1>2, <1>6, <1>8, <2>2, <3>3, <3>4
    <3> QED
      BY <1>2, <3>1, <3>5, <3>6, <3>7, <3>8 DEF Apart
  <2> QED
    BY <2>1, <2>2
<1>10. Saved => Saved'
  <2>1. \A j \in DOMAIN gate : Held(gate[j]) \subseteq Held(gate'[j])
    BY <1>1, <1>7
  <2>2. \A x \in accepted' : x \in accepted \/ x \in Held(gate'[i])
    BY <1>1, <1>7
  <2> QED
    BY <1>1, <1>2, <2>1, <2>2 DEF Saved
<1>11. ~Closed'
  BY <1>8 DEF Closed
<1>12. Tracked /\ Owing => Owing'
  <2>1. entry # NoGate /\ Pending(gate[entry]) => Pending(gate'[entry])
    <3>1. Pending(gate[i]) => Pending(gate'[i])
      BY <1>1, <1>4 DEF Pending, Ended, Handled
    <3>2. entry # NoGate => entry \in DOMAIN gate
      BY LocalFits DEF GatesFit
    <3> QED
      BY <1>1, <3>1, <3>2
  <2>2. Tracked /\ gate'[i].endErr /\ ~gate[i].endErr => i = entry /\ i # NoGate /\ Pending(gate'[i])
    <3>1. Tracked /\ i # entry => gate'[i] = g
      BY <1>1, <1>2, <1>4 DEF Tracked, Mapped, Handled, Ended
    <3>2. i # NoGate
      BY <1>1, LocalFits, GateNumbers
    <3> QED
      BY <1>1, <1>4, <3>1, <3>2 DEF Handled
  <2> QED
    BY <1>1, <1>2, <1>11, <2>1, <2>2 DEF Owing
<1> QED
  BY <1>9, <1>10, <1>12

(* The flusher: a chunk goes from the buffer to its hand and from there to *)
(* the channel; it throws chunks away only when the client is gone.        *)
LEMMA FlusherKept ==
    ASSUME Local, Apart, NEW i \in DOMAIN gate, Flusher(i)
    PROVE  /\ Apart'
           /\ Tracked /\ ~cancelled /\ Saved => Saved'
           /\ Tracked /\ ~cancelled /\ Owing => Owing'
<1> DEFINE g == gate[i]
<1>1. /\ Local' /\ DOMAIN gate' = DOMAIN gate /\ Running(g)
      /\ UNCHANGED <<cancelled, producer, accepted, owed>>
  BY FlusherLocal
<1>2. PICK h : /\ Fit(h) /\ Leave(i, h)
               /\ \/ /\ g.flusher = "check" /\ Popped(g, h) /\ out' = out
                     /\ Pending(g) => Pending(h)
                  \/ /\ g.flusher = "send" /\ Popped(g, h) /\ Delivered(g.hold)
                     /\ Pending(g) => Pending(h)
                  \/ /\ g.flusher = "send" /\ Undelivered
                     /\ h.buf = <<>> /\ h.flusher # "send"
                  \/ /\ g.flusher = "error" /\ (Delivered(TerminalError) \/ Undelivered)
                     /\ h.buf = <<>> /\ h.flusher # "send"
  BY FlusherLocal
<1>3. /\ Alike(h, gate'[i])
      /\ \A j \in DOMAIN gate : j # i => Alike(gate[j], gate'[j])
      /\ entry' \in {entry, NoGate}
      /\ entry' # entry => ~Running(gate'[entry])
  BY <1>2, LocalFits, Leaves
<1>4. Fit(g) /\ g \in GateRecord /\ Once(g)
  BY LocalFits DEF GatesFit, Fit, Apart
<1> HIDE DEF g
<1>5. /\ Held(gate'[i]) = Held(h) /\ (Once(h) => Once(gate'[i]))
      /\ \A j \in DOMAIN gate : j # i => Held(gate'[j]) = Held(gate[j]) /\ Once(gate'[j])
  BY <1>3, UnmovedHolds DEF Apart
<1>6. entry # NoGate => entry \in DOMAIN gate
  BY LocalFits DEF GatesFit
<1>7. producer.chunk \in Nat /\ Closed' = Closed /\ (AtChunk' <=> AtChunk)
  BY <1>1, LocalFits, NatAssumption DEF Producers, Closed, AtChunk
<1>8. ASSUME Once(h), Held(h) \subseteq Held(g), out' = out \/ out' = Append(out, TerminalError)
      PROVE  Apart'
  <2>1. \A j \in DOMAIN gate' : Once(gate'[j]) /\ j \in DOMAIN gate /\ Held(gate'[j]) \subseteq Held(gate[j])
    BY <1>1, <1>5, <1>8 DEF g
  <2>2. TerminalError \in 1 .. TerminalError
    BY NatAssumption DEF TerminalError
  <2>3. AtChunk' => AtChunk /\ producer.chunk <= producer'.chunk
    BY <1>1, <1>7
  <2> QED
    BY <1>1, <1>8, <2>1, <2>2, <2>3, ApartShrinks
<1>9. ASSUME Pending(g) => Pending(h), ToSet(out) \subseteq ToSet(out'), Owing
      PROVE  Owing'
  <2>1. \A j \in DOMAIN gate : Pending(gate[j]) => Pending(gate'[j])
    BY <1>3, <1>9, Likeness DEF Pending, Ended, Alike, g
  <2>2. entry # NoGate /\ Pending(gate[entry]) => entry' = entry /\ Pending(gate'[entry])
    BY <1>3, <1>6, <2>1 DEF Pending, Running
  <2> QED
    BY <1>1, <1>7, <1>9, <2>2 DEF Owing
<1>10. ASSUME ToSet(out) \subseteq ToSet(out'), Saved,
              \A c \in Held(g) : c \in Held(h) \/ c \in ToSet(out')
       PROVE  Saved'
  BY <1>1, <1>5, <1>10 DEF Saved, g
<1>11. CASE g.flusher = "check" /\ Popped(g, h) /\ out' = out /\ (Pending(g) => Pending(h))
  <2>1. Held(h) = ToSet(g.buf) /\ Once(h)
    BY <1>4, <1>11, PoppedHolds
  <2>2. Held(g) = Held(h)
    BY <1>11, <2>1 DEF Held
  <2> QED
    BY <1>8, <1>9, <1>10, <1>11, <2>1, <2>2
<1>12. CASE g.flusher = "send" /\ Popped(g, h) /\ Delivered(g.hold) /\ (Pending(g) => Pending(h))
  <2> DEFINE c == g.hold
  <2>1. Held(h) = ToSet(g.buf) /\ Once(h)
    BY <1>4, <1>12, PoppedHolds
  <2>2. Held(g) = Held(h) \union {c} /\ c \notin Held(h)
    BY <1>4, <1>12, <2>1 DEF Held, Once
  <2>3. c \in 1 .. Chunks /\ c # TerminalError /\ c \in 1 .. TerminalError
    BY <1>4, <2>2, HeldChunks, LocalFits
  <2>4. out' = Append(out, c)
    BY <1>12 DEF Delivered
  <2>5. /\ c \notin ToSet(out) /\ (AtChunk => c < producer.chunk)
        /\ \A j \in DOMAIN gate : j # i => c \notin Held(gate[j])
    BY <2>2 DEF Apart, g
  <2> HIDE DEF c
  <2>6. \A j \in DOMAIN gate' : /\ Once(gate'[j])
                                /\ j \in DOMAIN gate /\ Held(gate'[j]) \subseteq Held(gate[j])
                                /\ c \notin Held(gate'[j])
    BY <1>1, <1>5, <2>1, <2>2, <2>5 DEF g
  <2>7. AtChunk' => AtChunk /\ producer.chunk <= producer'.chunk /\ c < producer'.chunk
    BY <1>1, <1>7, <2>5
  <2>8. Apart'
    BY <1>1, <2>3, <2>4, <2>5, <2>6, <2>7, ApartShrinks
  <2>9. ToSet(out') = ToSet(out) \union {c}
    BY <2>3, <2>4, <2>5, LocalFits, AppendOut DEF Apart
  <2> QED
    BY <1>9, <1>10, <1>12, <2>2, <2>8, <2>9
<1>13. CASE g.flusher = "send" /\ Undelivered /\ h.buf = <<>> /\ h.flusher # "send"
  <2>1. Held(h) = {} /\ Once(h)
    BY <1>13, EmptyHolds DEF Empty
  <2>2. out' = out /\ (~cancelled => Closed)
    BY <1>13 DEF Undelivered
  <2>3. Tracked => ~Closed
    BY <1>13 DEF Tracked, Closes, Empty, g
  <2> QED
    BY <1>8, <2>1, <2>2, <2>3
<1>14. CASE /\ g.flusher = "error" /\ (Delivered(TerminalError) \/ Undelivered)
            /\ h.buf = <<>> /\ h.flusher # "send"
  <2>1. Held(h) = {} /\ Once(h) /\ Held(g) = {}
    BY <1>4, <1>14, EmptyHolds DEF Empty, Fit, Sound
  <2>2. out' = out \/ out' = Append(out, TerminalError)
    BY <1>14 DEF Delivered, Undelivered
  <2>3. Apart'
    BY <1>8, <2>1, <2>2
  <2>4. out' = Append(out, TerminalError) => ToSet(out') = ToSet(out) \union {TerminalError}
    <3>1. TerminalError \in 1 .. TerminalError
      BY NatAssumption DEF TerminalError
    <3> QED
      BY <3>1, LocalFits, AppendOut DEF Apart
  <2>5. Saved => Saved'
    BY <1>10, <2>1, <2>2, <2>4
  <2>6. ASSUME Tracked, ~cancelled, Owing PROVE Owing'
    <3>1. CASE out' = Append(out, TerminalError)
      BY <2>4, <3>1 DEF Owing
    <3>2. CASE out' = out /\ Closed
      BY <1>1, <2>6, <3>2 DEF Owing
    <3> QED
      BY <1>14, <2>6, <3>1, <3>2 DEF Delivered, Undelivered
  <2> QED
    BY <2>3, <2>5, <2>6
<1> QED
  BY <1>2, <1>11, <1>12, <1>13, <1>14

(* The reaper throws a buffer away.                                        *)
LEMMA ReapApart ==
    ASSUME Local, Apart, Reap
    PROVE  Apart'
<1>1. /\ Local' /\ DOMAIN gate' = DOMAIN gate
      /\ \A j \in DOMAIN gate :
            /\ gate'[j].flusher = "send" => gate[j].flusher = "send" /\ gate'[j].hold = gate[j].hold
            /\ gate'[j].buf \in {gate[j].buf, <<>>}
  BY ReapLocal
<1>2. \A j \in DOMAIN gate : Held(gate'[j]) \subseteq Held(gate[j]) /\ Once(gate'[j])
  BY <1>1 DEF Held, Apart, Once, Distinct, ToSet
<1>3. out' = out /\ producer' = producer /\ producer.chunk \in Nat
  BY LocalFits, NatAssumption DEF Reap, Producers
<1> QED
  BY <1>1, <1>2, <1>3, ApartShrinks DEF AtChunk

LEMMA InitKept == Init => Apart /\ Kept
<1> SUFFICES ASSUME Init PROVE Apart /\ Kept
  OBVIOUS
<1> DEFINE g == [NewGate EXCEPT !.refs = 1]
<1>1. gate = <<g>> /\ Empty(g)
  BY DEF Init, NewGate, Empty
<1> HIDE DEF g
<1>2. DOMAIN gate = {1} /\ Held(gate[1]) = {} /\ Once(gate[1])
  BY <1>1, EmptyHolds
<1>3. out = <<>> /\ ToSet(out) = {} /\ DOMAIN out = {} /\ accepted = {} /\ ~owed
  BY DEF Init, ToSet
<1> QED
  BY <1>2, <1>3 DEF Apart, Kept, Saved, Owing

-----------------------------------------------------------------------------
(* The whole invariant.                                                    *)
IInv == Local /\ (reaped \/ Tracked) /\ Apart /\ Kept

LEMMA StepKept ==
    ASSUME IInv, [Next]_vars
    PROVE  Apart' /\ Kept'
<1> USE DEF IInv
<1>1. /\ reaped' \/ reaped' = reaped
      /\ cancelled' \/ cancelled' = cancelled
  BY DEF Next, vars, Finished, Cancel, Reap, Flusher, FlusherChecks, FlusherSends, FlusherEnds,
         Plugin, Apply, Engage, Producer, PostHooks, Route, SkipChunk, GateSend, SendDirect,
         CloseStream, WaitForFlusher, FlusherDone
<1>2. ASSUME Apart', Tracked /\ ~cancelled /\ Saved => Saved', Tracked /\ ~cancelled /\ Owing => Owing'
      PROVE  Apart' /\ Kept'
  BY <1>1, <1>2 DEF Kept
<1>3. CASE Producer
  BY <1>2, <1>3, HooksKept, RouteKept, SkipKept, GateSendKept, DirectKept, CloseKept, WaitKept DEF Producer
<1>4. CASE Plugin
  BY <1>2, <1>4, EngageKept, ApplyKept DEF Plugin
<1>5. CASE \E i \in DOMAIN gate : Flusher(i)
  BY <1>2, <1>5, FlusherKept
<1>6. CASE Reap
  BY <1>6, ReapApart DEF Kept, Reap
<1>7. CASE Cancel \/ Finished \/ UNCHANGED vars
  <2>1. UNCHANGED <<gate, entry, producer, out, accepted, owed>>
    BY <1>7 DEF Cancel, Finished, vars
  <2>2. Apart' /\ (Saved => Saved') /\ (Owing => Owing')
    BY <2>1 DEF Apart, AtChunk, Saved, Owing, Closed
  <2> QED
    BY <1>2, <2>2
<1> QED
  BY <1>3, <1>4, <1>5, <1>6, <1>7 DEF Next

(* All three layers together, for every number of chunks, calls, entries   *)
(* and every limit of the replay buffer.                                   *)
THEOREM Invariance == Spec => []IInv
<1>1. Init => IInv
  BY InitLocal, InitTracked, InitKept DEF IInv
<1>2. IInv /\ [Next]_vars => IInv'
  BY StepLocal, StepTracked, StepKept DEF IInv
<1> QED
  BY <1>1, <1>2, PTL DEF Spec

(* GateSend, CloseStream and the deferred cleanup lose no chunk they took  *)
(* and no terminal error they staged, and no chunk is sent twice.          *)
THEOREM NothingIsLost == Spec => []NothingLost
<1>1. ASSUME IInv PROVE NothingLost
  <2>1. \A i, j \in DOMAIN out : i # j /\ out[i] = out[j] => out[i] = TerminalError
    BY <1>1 DEF IInv, Apart
  <2>2. ASSUME Closed, ~cancelled, ~reaped
        PROVE  accepted \subseteq ToSet(out) /\ (owed => TerminalError \in ToSet(out))
    <3>1. \A i \in DOMAIN gate : Held(gate[i]) = {}
      BY <1>1, <2>2, EmptyHolds DEF IInv, Tracked, Closes
    <3> QED
      BY <1>1, <2>2, <3>1 DEF IInv, Kept, Saved, Owing
  <2> QED
    BY <2>1, <2>2 DEF NothingLost
<1> QED
  BY <1>1, Invariance, PTL

=============================================================================
