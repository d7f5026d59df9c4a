------------------------ MODULE DistributedLockProofs ------------------------
(***************************************************************************)
(* Proofs about DistributedLock, for any locks, lease, retries and clock.  *)
(***************************************************************************)
EXTENDS DistributedLock, TLAPS

(* A clock reading is never ahead of the clock, and only a lock with tries *)
(* left sleeps.                                                            *)
RetryInv ==
    \A h \in Holders :
        /\ lock[h].at <= now
        /\ lock[h].pc = "sleep" => lock[h].tries < MaxRetries

(* Until the lease it knows of has ended, the row is its own, with a lease *)
(* that ends no sooner.                                                    *)
LeaseInv ==
    \A h \in Holders :
        lock[h].pc \in {"job", "extend"} =>
            \/ lock[h].lease < now
            \/ row # None /\ row.holder = h /\ row.expires >= lock[h].lease

IInv == TypeOK /\ RetryInv /\ LeaseInv

-----------------------------------------------------------------------------
(* The backoff of LockWithRetry, or the interval of Lock, is a number.     *)
LEMMA PauseType ==
    ASSUME TypeOK, NEW h \in Holders
    PROVE  Pause(h) \in Nat
<1> DEFINE i == IF lock[h].tries > 5 THEN 6 ELSE lock[h].tries + 1
<1>1. lock[h].tries \in Nat /\ Interval \in Nat
  BY LockAssumption DEF TypeOK, Locals
<1>2. i \in 1..6
  BY <1>1
<1>3. ASSUME NEW j \in 1..6 PROVE <<1, 2, 4, 8, 16, 32>>[j] \in Nat
  <2>1. j = 1 \/ j = 2 \/ j = 3 \/ j = 4 \/ j = 5 \/ j = 6
    BY <1>3
  <2> QED
    BY <2>1
<1> QED
  BY <1>1, <1>2, <1>3 DEF Pause

(* A lease's end, counted from a clock reading.                            *)
LEMMA LeaseType ==
    ASSUME TypeOK, NEW h \in Holders, lock[h].at # -1
    PROVE  /\ lock[h].at \in Times
           /\ Lease(h) \in Rows
           /\ Lease(h).holder = h
           /\ Lease(h).expires \in 0..(MaxTime + TTL)
BY LockAssumption DEF TypeOK, Locals, Rows, Lease, Times

(* The places where a lock has no locals to speak of.                      *)
LEMMA BlankType ==
    ASSUME NEW place \in {"idle", "over", "crashed"}
    PROVE  /\ Blank(place) \in Locals
           /\ Blank(place).pc = place
           /\ Blank(place).at = -1
BY LockAssumption DEF Blank, Locals, Times

LEMMA InitInv == Init => IInv
<1> SUFFICES ASSUME Init PROVE IInv
  OBVIOUS
<1>1. Blank("idle") \in Locals /\ Blank("idle").pc = "idle" /\ Blank("idle").at = -1
  BY BlankType
<1>2. TypeOK
  BY <1>1, LockAssumption DEF Init, TypeOK, Times
<1>3. RetryInv /\ LeaseInv
  BY <1>1 DEF Init, RetryInv, LeaseInv
<1> QED
  BY <1>2, <1>3 DEF IInv

-----------------------------------------------------------------------------
(* What a step of one lock must establish.                                 *)
LEMMA StepOf ==
    ASSUME IInv, NEW h \in Holders, now' = now, faults' \in 0..MaxFaults,
           row' \in Rows \cup {None},
           lock' = [lock EXCEPT ![h] = lock'[h]],
           lock'[h] \in Locals, lock'[h].at <= now,
           lock'[h].pc = "sleep" => lock'[h].tries < MaxRetries,
           lock'[h].pc \in {"job", "extend"} =>
               \/ lock'[h].lease < now
               \/ row' # None /\ row'.holder = h /\ row'.expires >= lock'[h].lease,
           \/ row' = row
           \/ row = None
           \/ row # None /\ row.holder = h
           \/ row # None /\ row.expires < now
    PROVE  IInv'
<1>1. \A g \in Holders : g # h => lock'[g] = lock[g]
  BY DEF IInv, TypeOK
<1>2. lock' \in [Holders -> Locals]
  BY DEF IInv, TypeOK
<1>3. TypeOK'
  BY <1>2 DEF IInv, TypeOK, Times
<1>4. RetryInv'
  BY <1>1 DEF IInv, RetryInv
<1>5. ASSUME NEW g \in Holders, g # h, lock[g].pc \in {"job", "extend"}
      PROVE  \/ lock[g].lease < now
             \/ row' # None /\ row'.holder = g /\ row'.expires >= lock[g].lease
  <2>1. \/ lock[g].lease < now
        \/ row # None /\ row.holder = g /\ row.expires >= lock[g].lease
    BY <1>5 DEF IInv, LeaseInv
  <2>2. lock[g].lease \in Nat /\ now \in Nat /\ (row # None => row.expires \in Nat)
    BY LockAssumption DEF IInv, TypeOK, Rows, Locals, Times
  <2> QED
    BY <1>5, <2>1, <2>2
<1>6. LeaseInv'
  BY <1>1, <1>5 DEF LeaseInv
<1> QED
  BY <1>3, <1>4, <1>6 DEF IInv

-----------------------------------------------------------------------------
(* The steps of a lock, one lemma each.                                    *)

LEMMA BeginKeeps ==
    ASSUME IInv, NEW h \in Holders, Begin(h)
    PROVE  IInv'
<1>1. PICK patient \in BOOLEAN :
         lock' = [lock EXCEPT ![h].pc = "clean", ![h].begun = now, ![h].patient = patient]
  BY DEF Begin
<1>2. lock'[h] = [lock[h] EXCEPT !.pc = "clean", !.begun = now, !.patient = patient]
  BY <1>1 DEF IInv, TypeOK
<1>3. lock[h] \in Locals /\ now \in Times /\ lock[h].at <= now
  BY DEF IInv, TypeOK, RetryInv
<1>4. /\ lock'[h] \in Locals /\ lock'[h].at <= now
      /\ lock'[h].pc = "clean"
  BY <1>2, <1>3 DEF Locals
<1>5. UNCHANGED <<now, row, faults>>
  BY DEF Begin
<1>6. row' \in Rows \cup {None} /\ faults' \in 0..MaxFaults
  BY <1>5 DEF IInv, TypeOK
<1>7. lock' = [lock EXCEPT ![h] = lock'[h]]
  BY <1>1 DEF IInv, TypeOK
<1> QED
  BY <1>4, <1>5, <1>6, <1>7, StepOf

LEMMA ReadClockKeeps ==
    ASSUME IInv, NEW h \in Holders, ReadClock(h)
    PROVE  IInv'
<1>1. /\ lock' = [lock EXCEPT ![h].at = now]
      /\ lock[h].pc \in {"clean", "insert", "extend"}
      /\ UNCHANGED <<now, row, faults>>
  BY DEF ReadClock
<1>2. lock'[h] = [lock[h] EXCEPT !.at = now]
  BY <1>1 DEF IInv, TypeOK
<1>3. lock[h] \in Locals /\ now \in Times /\ now \in Int
  BY DEF IInv, TypeOK, Times
<1>4. /\ lock'[h] \in Locals /\ lock'[h].at <= now
      /\ lock'[h].pc = lock[h].pc /\ lock'[h].lease = lock[h].lease
  BY <1>2, <1>3 DEF Locals
<1>5. row' \in Rows \cup {None} /\ faults' \in 0..MaxFaults
  BY <1>1 DEF IInv, TypeOK
<1>6. lock'[h].pc \in {"job", "extend"} =>
         \/ lock'[h].lease < now
         \/ row' # None /\ row'.holder = h /\ row'.expires >= lock'[h].lease
  BY <1>1, <1>4 DEF IInv, LeaseInv
<1>7. lock' = [lock EXCEPT ![h] = lock'[h]]
  BY <1>1 DEF IInv, TypeOK
<1> QED
  BY <1>1, <1>4, <1>5, <1>6, <1>7, StepOf

(* A lock that goes on to another place without a lease.                   *)
LEMMA GotoKeeps ==
    ASSUME IInv, NEW h \in Holders, NEW place \in {"insert", "job", "extend"},
           Goto(h, place),
           place # "insert" => lock[h].pc \in {"job", "extend"}
    PROVE  /\ lock' = [lock EXCEPT ![h] = lock'[h]]
           /\ lock'[h] \in Locals
           /\ lock'[h].at <= now
           /\ lock'[h].pc = place
           /\ lock'[h].pc \in {"job", "extend"} =>
                 \/ lock'[h].lease < now
                 \/ row # None /\ row.holder = h /\ row.expires >= lock'[h].lease
<1>1. lock'[h] = [lock[h] EXCEPT !.pc = place, !.at = -1]
  BY DEF Goto, IInv, TypeOK
<1>2. lock[h] \in Locals /\ now \in Nat
  BY DEF IInv, TypeOK, Times
<1>3. /\ lock'[h] \in Locals /\ lock'[h].at = -1
      /\ lock'[h].pc = place /\ lock'[h].lease = lock[h].lease
  BY <1>1, <1>2 DEF Locals
<1>4. lock' = [lock EXCEPT ![h] = lock'[h]]
  BY DEF Goto, IInv, TypeOK
<1> QED
  BY <1>2, <1>3, <1>4 DEF IInv, LeaseInv

LEMMA CleanupByKeyKeeps ==
    ASSUME IInv, NEW h \in Holders, CleanupExpiredLockByKey(h)
    PROVE  IInv'
<1>1. /\ Goto(h, "insert") /\ now' = now
      /\ lock[h].at # -1
      /\ \/ row' = (IF Expired(lock[h].at) THEN None ELSE row) /\ UNCHANGED faults
         \/ Fault /\ UNCHANGED row
  BY DEF CleanupExpiredLockByKey
<1>2. /\ lock' = [lock EXCEPT ![h] = lock'[h]] /\ lock'[h] \in Locals
      /\ lock'[h].at <= now /\ lock'[h].pc = "insert"
  BY <1>1, GotoKeeps
<1>3. /\ row \in Rows \cup {None} /\ faults \in 0..MaxFaults
      /\ now \in Nat /\ lock[h].at <= now /\ lock[h].at \in Int
  BY DEF IInv, TypeOK, Times, RetryInv, Locals
<1>4. faults' \in 0..MaxFaults
  BY <1>1, <1>3, LockAssumption DEF Fault
<1>5. row' \in Rows \cup {None}
  BY <1>1, <1>3
<1>6. row' = row \/ (row # None /\ row.expires < now)
  <2>1. row # None => row.expires \in Int
    BY <1>3, LockAssumption DEF Rows
  <2> QED
    BY <1>1, <1>3, <2>1 DEF Expired
<1> QED
  BY <1>1, <1>2, <1>4, <1>5, <1>6, StepOf

(* A lock whose use is over, or that gives up.                             *)
LEMMA EndKeeps ==
    ASSUME IInv, NEW h \in Holders, NEW place \in {"over", "crashed"},
           lock' = [lock EXCEPT ![h] = Blank(place)]
    PROVE  /\ lock' = [lock EXCEPT ![h] = lock'[h]]
           /\ lock'[h] \in Locals
           /\ lock'[h].at <= now
           /\ lock'[h].pc = place
<1>1. lock'[h] = Blank(place)
  BY DEF IInv, TypeOK
<1>2. Blank(place) \in Locals /\ Blank(place).pc = place /\ Blank(place).at = -1
  BY BlankType
<1>3. -1 <= now
  BY DEF IInv, TypeOK, Times
<1>4. lock' = [lock EXCEPT ![h] = lock'[h]]
  BY <1>1
<1> QED
  BY <1>1, <1>2, <1>3, <1>4

LEMMA FaultType ==
    ASSUME TypeOK, Fault \/ UNCHANGED faults
    PROVE  faults' \in 0..MaxFaults
BY LockAssumption DEF TypeOK, Fault

LEMMA AcquireKeeps ==
    ASSUME IInv, NEW h \in Holders, TryAcquireLock(h)
    PROVE  IInv'
<1>1. /\ row \in Rows \cup {None} /\ faults \in 0..MaxFaults /\ None \notin Rows
      /\ now \in Nat /\ now \in Times /\ lock[h] \in Locals /\ lock[h].at <= now
      /\ lock[h].pc = "insert" /\ lock[h].at # -1 /\ UNCHANGED now
  BY NoneAssumption DEF IInv, TypeOK, RetryInv, Times, TryAcquireLock
<1>2. /\ lock[h].at \in Times /\ Lease(h) \in Rows
      /\ Lease(h).holder = h
      /\ Lease(h).expires \in 0..(MaxTime + TTL)
  BY <1>1, LeaseType DEF IInv
<1>3. CASE /\ row = None
           /\ row' = Lease(h)
           /\ lock' = [lock EXCEPT ![h].pc = "job", ![h].at = -1, ![h].acquired = TRUE,
                                   ![h].lease = Lease(h).expires,
                                   ![h].tries = 0, ![h].wake = 0, ![h].begun = 0]
           /\ UNCHANGED faults
  <2>1. lock'[h] = [lock[h] EXCEPT !.pc = "job", !.at = -1, !.acquired = TRUE,
                                   !.lease = Lease(h).expires,
                                   !.tries = 0, !.wake = 0, !.begun = 0]
    BY <1>3 DEF IInv, TypeOK
  <2> /\ -1 \in Times \cup {-1} /\ 0 \in Times /\ 0 \in 0..MaxRetries /\ 0 \in Nat
    BY LockAssumption DEF Times
  <2>2. /\ lock'[h] \in Locals /\ lock'[h].at = -1
        /\ lock'[h].pc = "job" /\ lock'[h].lease = Lease(h).expires
    BY <1>1, <1>2, <2>1 DEF Locals
  <2>3. lock' = [lock EXCEPT ![h] = lock'[h]]
    BY <1>3 DEF IInv, TypeOK
  <2>4. Lease(h).expires >= Lease(h).expires /\ Lease(h) # None
    BY <1>1, <1>2
  <2>5. -1 <= now
    BY <1>1
  <2> QED
    BY <1>1, <1>2, <1>3, <2>2, <2>3, <2>4, <2>5, StepOf
<1>4. CASE /\ row # None /\ lock[h].tries < MaxRetries
           /\ lock' = [lock EXCEPT ![h].pc = "sleep", ![h].at = -1,
                                   ![h].wake = now + Pause(h)]
           /\ UNCHANGED <<row, faults>>
  <2>1. lock'[h] = [lock[h] EXCEPT !.pc = "sleep", !.at = -1, !.wake = now + Pause(h)]
    BY <1>4 DEF IInv, TypeOK
  <2>2. now + Pause(h) \in Nat
    BY <1>1, PauseType DEF IInv
  <2>3. /\ lock'[h] \in Locals /\ lock'[h].at = -1
        /\ lock'[h].pc = "sleep" /\ lock'[h].tries = lock[h].tries
    BY <1>1, <2>1, <2>2 DEF Locals
  <2>4. lock' = [lock EXCEPT ![h] = lock'[h]]
    BY <1>4 DEF IInv, TypeOK
  <2>5. -1 <= now
    BY <1>1
  <2> QED
    BY <1>1, <1>4, <2>3, <2>4, <2>5, StepOf
<1>5. CASE /\ row # None
           /\ End(h) /\ UNCHANGED <<row, faults>>
  <2>1. /\ lock' = [lock EXCEPT ![h] = lock'[h]] /\ lock'[h] \in Locals
        /\ lock'[h].at <= now /\ lock'[h].pc = "over"
    BY <1>5, EndKeeps DEF End
  <2> QED
    BY <1>1, <1>5, <2>1, StepOf
<1>6. CASE /\ Fault
           /\ row' \in {row, IF row = None THEN Lease(h) ELSE row}
           /\ End(h)
  <2>1. /\ lock' = [lock EXCEPT ![h] = lock'[h]] /\ lock'[h] \in Locals
        /\ lock'[h].at <= now /\ lock'[h].pc = "over"
    BY <1>6, EndKeeps DEF End
  <2>2. faults' \in 0..MaxFaults
    BY <1>6, FaultType DEF IInv
  <2>3. row' \in Rows \cup {None} /\ (row' = row \/ row = None)
    BY <1>1, <1>2, <1>6
  <2> QED
    BY <1>1, <2>1, <2>2, <2>3, StepOf
<1> QED
  BY <1>3, <1>4, <1>5, <1>6 DEF TryAcquireLock

LEMMA WakeKeeps ==
    ASSUME IInv, NEW h \in Holders, Wake(h)
    PROVE  IInv'
<1>1. /\ lock' = [lock EXCEPT ![h].pc = "clean", ![h].tries = @ + 1, ![h].wake = 0]
      /\ lock[h].pc = "sleep" /\ UNCHANGED <<now, row, faults>>
  BY DEF Wake
<1>2. /\ row \in Rows \cup {None} /\ faults \in 0..MaxFaults
      /\ lock[h] \in Locals /\ lock[h].at <= now /\ lock[h].tries < MaxRetries
  BY <1>1 DEF IInv, TypeOK, RetryInv
<1>3. lock'[h] = [lock[h] EXCEPT !.pc = "clean", !.tries = @ + 1, !.wake = 0]
  BY <1>1 DEF IInv, TypeOK
<1> lock[h].tries + 1 \in 0..MaxRetries /\ 0 \in Nat
  BY <1>2, LockAssumption DEF Locals
<1>4. lock'[h] \in Locals /\ lock'[h].at <= now /\ lock'[h].pc = "clean"
  BY <1>2, <1>3 DEF Locals
<1>5. lock' = [lock EXCEPT ![h] = lock'[h]]
  BY <1>1 DEF IInv, TypeOK
<1> QED
  BY <1>1, <1>2, <1>4, <1>5, StepOf

LEMMA ContextDoneKeeps ==
    ASSUME IInv, NEW h \in Holders, ContextDone(h)
    PROVE  IInv'
<1>1. /\ lock' = [lock EXCEPT ![h] = lock'[h]] /\ lock'[h] \in Locals
      /\ lock'[h].at <= now /\ lock'[h].pc = "over"
  BY EndKeeps DEF ContextDone, End
<1>2. row \in Rows \cup {None} /\ faults \in 0..MaxFaults /\ UNCHANGED <<now, row, faults>>
  BY DEF IInv, TypeOK, ContextDone
<1> QED
  BY <1>1, <1>2, StepOf

LEMMA CrashKeeps ==
    ASSUME IInv, NEW h \in Holders, Crash(h)
    PROVE  IInv'
<1>1. /\ lock' = [lock EXCEPT ![h] = lock'[h]] /\ lock'[h] \in Locals
      /\ lock'[h].at <= now /\ lock'[h].pc = "crashed"
  BY EndKeeps DEF Crash
<1>2. row \in Rows \cup {None} /\ faults \in 0..MaxFaults /\ UNCHANGED <<now, row, faults>>
  BY DEF IInv, TypeOK, Crash
<1> QED
  BY <1>1, <1>2, StepOf

LEMMA ExtendCalledKeeps ==
    ASSUME IInv, NEW h \in Holders, ExtendCalled(h)
    PROVE  IInv'
<1>1. /\ lock[h].pc = "job" /\ Goto(h, "extend") /\ UNCHANGED <<now, row, faults>>
      /\ row \in Rows \cup {None} /\ faults \in 0..MaxFaults
  BY DEF IInv, TypeOK, ExtendCalled
<1>2. /\ lock' = [lock EXCEPT ![h] = lock'[h]] /\ lock'[h] \in Locals
      /\ lock'[h].at <= now /\ lock'[h].pc = "extend"
      /\ \/ lock'[h].lease < now
         \/ row # None /\ row.holder = h /\ row.expires >= lock'[h].lease
  BY <1>1, GotoKeeps
<1> QED
  BY <1>1, <1>2, StepOf

LEMMA UpdateKeeps ==
    ASSUME IInv, NEW h \in Holders, UpdateLockExpiry(h)
    PROVE  IInv'
<1>1. /\ row \in Rows \cup {None} /\ faults \in 0..MaxFaults /\ None \notin Rows
      /\ now \in Nat /\ lock[h] \in Locals /\ lock[h].at <= now
      /\ lock[h].pc = "extend" /\ lock[h].at # -1 /\ UNCHANGED now
  BY NoneAssumption DEF IInv, TypeOK, RetryInv, Times, UpdateLockExpiry
<1>2. /\ lock[h].at \in Times /\ Lease(h) \in Rows
      /\ Lease(h).holder = h
      /\ Lease(h).expires \in 0..(MaxTime + TTL)
  BY <1>1, LeaseType DEF IInv
<1>3. CASE /\ Held(h)
           /\ row' = Lease(h)
           /\ lock' = [lock EXCEPT ![h].pc = "job", ![h].at = -1,
                                   ![h].lease = Lease(h).expires]
           /\ UNCHANGED faults
  <2>1. lock'[h] = [lock[h] EXCEPT !.pc = "job", !.at = -1, !.lease = Lease(h).expires]
    BY <1>3 DEF IInv, TypeOK
  <2>2. /\ lock'[h] \in Locals /\ lock'[h].at = -1
        /\ lock'[h].pc = "job" /\ lock'[h].lease = Lease(h).expires
    BY <1>1, <1>2, <2>1 DEF Locals
  <2>3. lock' = [lock EXCEPT ![h] = lock'[h]]
    BY <1>3 DEF IInv, TypeOK
  <2>4. Lease(h).expires >= Lease(h).expires /\ Lease(h) # None
    BY <1>1, <1>2
  <2>5. row # None /\ row.holder = h
    BY <1>3 DEF Held
  <2>6. -1 <= now
    BY <1>1
  <2> QED
    BY <1>1, <1>2, <1>3, <2>2, <2>3, <2>4, <2>5, <2>6, StepOf
<1>4. CASE /\ lock' = [lock EXCEPT ![h].pc = "job", ![h].at = -1,
                                   ![h].acquired = FALSE]
           /\ UNCHANGED <<row, faults>>
  <2>1. lock'[h] = [lock[h] EXCEPT !.pc = "job", !.at = -1, !.acquired = FALSE]
    BY <1>4 DEF IInv, TypeOK
  <2>2. /\ lock'[h] \in Locals /\ lock'[h].at = -1
        /\ lock'[h].pc = "job" /\ lock'[h].lease = lock[h].lease
    BY <1>1, <2>1 DEF Locals
  <2>3. lock' = [lock EXCEPT ![h] = lock'[h]]
    BY <1>4 DEF IInv, TypeOK
  <2>4. \/ lock'[h].lease < now
        \/ row # None /\ row.holder = h /\ row.expires >= lock'[h].lease
    BY <1>1, <2>2 DEF IInv, LeaseInv
  <2>5. -1 <= now
    BY <1>1
  <2> QED
    BY <1>1, <1>4, <2>2, <2>3, <2>4, <2>5, StepOf
<1>5. CASE Fault /\ Goto(h, "job") /\ UNCHANGED row
  <2>1. /\ lock' = [lock EXCEPT ![h] = lock'[h]] /\ lock'[h] \in Locals
        /\ lock'[h].at <= now /\ lock'[h].pc = "job"
        /\ \/ lock'[h].lease < now
           \/ row # None /\ row.holder = h /\ row.expires >= lock'[h].lease
    BY <1>1, <1>5, GotoKeeps
  <2>2. faults' \in 0..MaxFaults
    BY <1>5, FaultType DEF IInv
  <2> QED
    BY <1>1, <1>5, <2>1, <2>2, StepOf
<1> QED
  BY <1>3, <1>4, <1>5 DEF UpdateLockExpiry

LEMMA IsHeldKeeps ==
    ASSUME IInv, NEW h \in Holders, IsHeld(h)
    PROVE  IInv'
<1>1. /\ row \in Rows \cup {None} /\ faults \in 0..MaxFaults
      /\ lock[h] \in Locals /\ lock[h].at <= now
      /\ lock[h].pc = "job" /\ UNCHANGED <<now, row, faults>>
      /\ lock' = [lock EXCEPT ![h].acquired = FALSE]
  BY DEF IInv, TypeOK, RetryInv, IsHeld
<1>2. lock'[h] = [lock[h] EXCEPT !.acquired = FALSE]
  BY <1>1 DEF IInv, TypeOK
<1>3. /\ lock'[h] \in Locals /\ lock'[h].at = lock[h].at
      /\ lock'[h].pc = "job" /\ lock'[h].lease = lock[h].lease
  <2>1. lock[h] \in Locals /\ lock[h].pc = "job"
    BY <1>1
  <2> QED
    BY <1>2, <2>1 DEF Locals
<1>4. lock' = [lock EXCEPT ![h] = lock'[h]]
  BY <1>1 DEF IInv, TypeOK
<1>5. \/ lock'[h].lease < now
      \/ row # None /\ row.holder = h /\ row.expires >= lock'[h].lease
  BY <1>1, <1>3 DEF IInv, LeaseInv
<1> QED
  BY <1>1, <1>3, <1>4, <1>5, StepOf

LEMMA UnlockKeeps ==
    ASSUME IInv, NEW h \in Holders, Unlock(h)
    PROVE  IInv'
<1>1. /\ lock' = [lock EXCEPT ![h] = lock'[h]] /\ lock'[h] \in Locals
      /\ lock'[h].at <= now /\ lock'[h].pc = "over"
  BY EndKeeps DEF Unlock, End
<1>2. UNCHANGED now /\ faults' \in 0..MaxFaults
  BY FaultType DEF Unlock, IInv
<1>3. /\ row' \in Rows \cup {None}
      /\ row' = row \/ (row # None /\ row.holder = h)
  BY DEF IInv, TypeOK, Unlock, Held
<1> QED
  BY <1>1, <1>2, <1>3, StepOf

LEMMA HolderKeeps ==
    ASSUME IInv, NEW h \in Holders, HolderStep(h)
    PROVE  IInv'
BY BeginKeeps, ReadClockKeeps, CleanupByKeyKeeps, AcquireKeeps, WakeKeeps,
   ContextDoneKeeps, ExtendCalledKeeps, UpdateKeeps, IsHeldKeeps, UnlockKeeps,
   CrashKeeps DEF HolderStep

(* The manager deletes expired rows only, and time only ends leases.       *)
LEMMA OthersKeep ==
    ASSUME IInv, CleanupExpiredLocks \/ Clock
    PROVE  IInv'
<1>1. /\ lock' = lock /\ faults' = faults
      /\ now' \in Times /\ now \in Nat /\ now' \in Nat /\ now' >= now
      /\ row' \in Rows \cup {None}
      /\ row' = row \/ (row # None /\ row.expires < now)
      /\ row \in Rows \cup {None}
  BY LockAssumption DEF IInv, TypeOK, Times, CleanupExpiredLocks, Clock, Expired
<1>2. TypeOK'
  BY <1>1 DEF IInv, TypeOK
<1>3. \A h \in Holders : lock[h].at \in Int /\ lock[h].lease \in Nat
  BY LockAssumption DEF IInv, TypeOK, Locals, Times
<1>4. RetryInv'
  BY <1>1, <1>3 DEF IInv, RetryInv
<1>5. row # None => row.expires \in Nat
  BY <1>1, LockAssumption DEF Rows
<1>6. LeaseInv'
  BY <1>1, <1>3, <1>5 DEF IInv, LeaseInv
<1> QED
  BY <1>2, <1>4, <1>6 DEF IInv

-----------------------------------------------------------------------------
(* The inductive invariant: the row protects whoever works within a lease. *)
THEOREM Invariance == Spec => []IInv
<1>1. IInv /\ [Next]_vars => IInv'
  <2>1. ASSUME IInv, Next PROVE IInv'
    BY <2>1, HolderKeeps, OthersKeep DEF Next
  <2>2. ASSUME IInv, UNCHANGED vars PROVE IInv'
    BY <2>2 DEF vars, IInv, TypeOK, RetryInv, LeaseInv
  <2> QED
    BY <2>1, <2>2
<1> QED
  BY InitInv, <1>1, PTL DEF Spec

(* Every variable keeps its type, the number of tries its bound.           *)
THEOREM LockTypes == Spec => []TypeOK
<1>1. IInv => TypeOK
  BY DEF IInv
<1> QED
  BY <1>1, Invariance, PTL

(* Two jobs under one lock key run at once only if one of them outlived    *)
(* its lease: TryAcquireLock, the clean-ups, Extend and Unlock never give  *)
(* away a row whose lease a holder still relies on.                        *)
THEOREM LeasesExclude == Spec => []JobsDisjoint
<1>1. IInv => JobsDisjoint
  BY DEF IInv, LeaseInv, JobsDisjoint
<1> QED
  BY <1>1, Invariance, PTL

-----------------------------------------------------------------------------
(* The patience of LockWithRetry.                                          *)

(* The pauses before the try that follows n others, added up.              *)
Waited(n) == IF n < 6 THEN <<0, 1, 3, 7, 15, 31>>[n + 1] ELSE 63 + 32 * (n - 6)

(* A row's lease is counted from a clock reading no later than the write.  *)
Ages == row # None => row.written <= now /\ row.expires <= row.written + TTL

(* A patient lock has been at it for as long as its pauses took.  If no    *)
(* statement has failed, a row that was there when it began, and is still  *)
(* there at its insert, had a lease left when it cleaned up.               *)
Waits(h) ==
    /\ lock[h].begun <= now
    /\ lock[h].pc = "idle" => lock[h] = Blank("idle")
    /\ lock[h].pc = "sleep" => lock[h].at = -1
    /\ lock[h].patient =>
        /\ lock[h].pc = "sleep" => lock[h].wake >= lock[h].begun + Waited(lock[h].tries + 1)
        /\ lock[h].pc \in {"clean", "insert"} => now >= lock[h].begun + Waited(lock[h].tries)
        /\ lock[h].pc = "clean" /\ lock[h].at # -1 =>
              lock[h].at >= lock[h].begun + Waited(lock[h].tries)
        /\ lock[h].pc = "insert" /\ faults = 0 /\ row # None /\ row.written < lock[h].begun =>
              row.expires >= lock[h].begun + Waited(lock[h].tries)

Patience == Ages /\ \A h \in Holders : Waits(h)

(* Each pause of the backoff is the one that is due.                       *)
LEMMA PauseAdds ==
    ASSUME TypeOK, NEW h \in Holders, lock[h].patient
    PROVE  /\ Waited(lock[h].tries) \in Nat
           /\ Waited(lock[h].tries + 1) = Waited(lock[h].tries) + Pause(h)
<1>1. PICK n \in Nat : n = lock[h].tries
  BY LockAssumption DEF TypeOK, Locals
<1>2. Pause(h) = <<1, 2, 4, 8, 16, 32>>[IF n > 5 THEN 6 ELSE n + 1]
  BY <1>1 DEF Pause
<1>3. CASE n = 0 BY <1>1, <1>2, <1>3 DEF Waited
<1>4. CASE n = 1 BY <1>1, <1>2, <1>4 DEF Waited
<1>5. CASE n = 2 BY <1>1, <1>2, <1>5 DEF Waited
<1>6. CASE n = 3 BY <1>1, <1>2, <1>6 DEF Waited
<1>7. CASE n = 4 BY <1>1, <1>2, <1>7 DEF Waited
<1>8. CASE n = 5 BY <1>1, <1>2, <1>8 DEF Waited
<1>9. CASE n > 5
  <2>1. Pause(h) = 32
    BY <1>2, <1>9
  <2>2. Waited(n) = 63 + 32 * (n - 6) /\ Waited(n + 1) = 63 + 32 * (n + 1 - 6)
    BY <1>9 DEF Waited
  <2> QED
    BY <1>1, <1>9, <2>1, <2>2
<1> QED
  BY <1>1, <1>3, <1>4, <1>5, <1>6, <1>7, <1>8, <1>9

(* The first try follows no pause.                                         *)
LEMMA WaitedNothing == Waited(0) = 0
BY DEF Waited

(* The numbers in a lock and in the row.                                   *)
LEMMA LockNumbers ==
    ASSUME TypeOK, NEW h \in Holders
    PROVE  /\ now \in Nat /\ TTL \in Nat /\ faults \in Nat
           /\ lock[h].begun \in Nat /\ lock[h].wake \in Nat /\ lock[h].tries \in Nat
           /\ lock[h].at \in Int
           /\ Waited(lock[h].tries + 1) \in Nat
           /\ row # None => row.written \in Nat /\ row.expires \in Nat
<1>1. /\ lock[h] \in Locals /\ now \in Times /\ faults \in 0..MaxFaults
      /\ row \in Rows \cup {None}
  BY DEF TypeOK
<1>2. /\ now \in Nat /\ TTL \in Nat /\ faults \in Nat
      /\ lock[h].begun \in Nat /\ lock[h].wake \in Nat /\ lock[h].tries \in Nat
      /\ lock[h].at \in Int
      /\ row # None => row.written \in Nat /\ row.expires \in Nat
  BY <1>1, LockAssumption DEF Locals, Rows, Times
<1>3. PICK n \in Nat : n = lock[h].tries + 1
  BY <1>2
<1>4. Waited(n) \in Nat
  <2>1. CASE n < 6
    <3>1. n = 0 \/ n = 1 \/ n = 2 \/ n = 3 \/ n = 4 \/ n = 5
      BY <2>1
    <3> QED
      BY <2>1, <3>1 DEF Waited
  <2>2. CASE ~(n < 6)
    BY <2>2 DEF Waited
  <2> QED
    BY <2>1, <2>2
<1> QED
  BY <1>2, <1>3, <1>4

(* What a step of one lock must establish.                                 *)
LEMMA StepWaits ==
    ASSUME IInv, Patience, NEW h \in Holders, now' = now,
           lock' = [lock EXCEPT ![h] = lock'[h]],
           faults' = 0 => faults = 0,
           row' # None => row' = row \/ (row'.written = now /\ row'.expires <= now + TTL),
           Waits(h)'
    PROVE  Patience'
<1>1. ASSUME NEW g \in Holders, g # h PROVE Waits(g)'
  <2>1. lock'[g] = lock[g]
    BY <1>1 DEF IInv, TypeOK
  <2>2. Waits(g) /\ lock[g].begun \in Nat /\ now \in Nat
    BY LockNumbers DEF Patience, IInv
  <2>3. row' # None /\ row'.written < lock[g].begun => row' = row
    BY <2>2 DEF Waits
  <2> QED
    BY <2>1, <2>2, <2>3 DEF Waits
<1>2. Ages'
  <2>1. now \in Nat
    BY LockNumbers DEF IInv
  <2> QED
    BY <2>1 DEF Ages, Patience
<1> QED
  BY <1>1, <1>2 DEF Patience

(* Where there is nothing to wait for.                                     *)
LEMMA NothingWaits ==
    ASSUME IInv, now' = now, NEW h \in Holders, lock'[h].begun <= now,
           lock'[h].pc \in {"job", "extend", "over", "crashed"}
    PROVE  Waits(h)'
BY DEF Waits

(* A lock whose use is over.                                               *)
LEMMA EndWaits ==
    ASSUME IInv, NEW h \in Holders, now' = now, NEW place \in {"over", "crashed"},
           lock' = [lock EXCEPT ![h] = Blank(place)]
    PROVE  Waits(h)' /\ lock' = [lock EXCEPT ![h] = lock'[h]]
<1>1. lock'[h] = Blank(place)
  BY DEF IInv, TypeOK
<1>2. Blank(place).begun = 0 /\ Blank(place).pc = place /\ 0 <= now
  BY LockNumbers DEF Blank, IInv
<1>3. Waits(h)'
  BY <1>1, <1>2, NothingWaits
<1> QED
  BY <1>1, <1>3

LEMMA BeginWaits ==
    ASSUME IInv, Patience, NEW h \in Holders, Begin(h)
    PROVE  Patience'
<1>1. PICK patient \in BOOLEAN :
         lock' = [lock EXCEPT ![h].pc = "clean", ![h].begun = now, ![h].patient = patient]
  BY DEF Begin
<1>2. UNCHANGED <<now, row, faults>> /\ lock[h] = Blank("idle") /\ now \in Nat
  BY LockNumbers DEF Begin, Patience, Waits, IInv
<1>3. lock'[h] = [lock[h] EXCEPT !.pc = "clean", !.begun = now, !.patient = patient]
  BY <1>1 DEF IInv, TypeOK
<1>4. /\ lock'[h].pc = "clean" /\ lock'[h].begun = now /\ lock'[h].at = -1
      /\ lock'[h].tries = 0
  BY <1>2, <1>3 DEF Blank
<1>5. Waits(h)'
  BY <1>2, <1>4, WaitedNothing DEF Waits
<1>6. lock' = [lock EXCEPT ![h] = lock'[h]]
  BY <1>1 DEF IInv, TypeOK
<1> QED
  BY <1>2, <1>5, <1>6, StepWaits

(* The clock has not gone back since the pause.                            *)
LEMMA ReadClockWaits ==
    ASSUME IInv, Patience, NEW h \in Holders, ReadClock(h)
    PROVE  Patience'
<1>1. /\ lock' = [lock EXCEPT ![h].at = now]
      /\ lock[h].pc \in {"clean", "insert", "extend"}
      /\ UNCHANGED <<now, row, faults>> /\ Waits(h) /\ lock[h] \in Locals
  BY DEF ReadClock, Patience, IInv, TypeOK
<1>2. lock'[h] = [lock[h] EXCEPT !.at = now]
  BY <1>1 DEF IInv, TypeOK
<1>3. /\ lock'[h].at = now /\ lock'[h].pc = lock[h].pc /\ lock'[h].begun = lock[h].begun
      /\ lock'[h].patient = lock[h].patient /\ lock'[h].tries = lock[h].tries
  BY <1>1, <1>2 DEF Locals
<1>4. Waits(h)'
  BY <1>1, <1>3 DEF Waits
<1>5. lock' = [lock EXCEPT ![h] = lock'[h]]
  BY <1>1 DEF IInv, TypeOK
<1> QED
  BY <1>1, <1>4, <1>5, StepWaits

(* A lock that goes on to another place waits on for what it waited for.   *)
LEMMA GotoWaits ==
    ASSUME IInv, NEW h \in Holders, NEW place \in {"insert", "job", "extend"},
           Goto(h, place)
    PROVE  /\ lock' = [lock EXCEPT ![h] = lock'[h]]
           /\ lock'[h].pc = place /\ lock'[h].begun = lock[h].begun
           /\ lock'[h].patient = lock[h].patient /\ lock'[h].tries = lock[h].tries
<1>1. lock'[h] = [lock[h] EXCEPT !.pc = place, !.at = -1] /\ lock[h] \in Locals
  BY DEF Goto, IInv, TypeOK
<1>2. lock' = [lock EXCEPT ![h] = lock'[h]]
  BY DEF Goto, IInv, TypeOK
<1> QED
  BY <1>1, <1>2 DEF Locals

(* A statement that fails leaves a trace.                                  *)
LEMMA FaultCounts ==
    ASSUME IInv, Fault \/ UNCHANGED faults
    PROVE  faults' = 0 => faults = 0
BY LockAssumption DEF IInv, TypeOK, Fault

(* The clean-up leaves a row only if its lease has not ended at the        *)
(* clean-up's clock reading.                                               *)
LEMMA CleanupByKeyWaits ==
    ASSUME IInv, Patience, NEW h \in Holders, CleanupExpiredLockByKey(h)
    PROVE  Patience'
<1>1. /\ Goto(h, "insert") /\ now' = now /\ Waits(h)
      /\ lock[h].pc = "clean" /\ lock[h].at # -1
      /\ \/ row' = (IF Expired(lock[h].at) THEN None ELSE row) /\ UNCHANGED faults
         \/ Fault /\ UNCHANGED row
  BY DEF CleanupExpiredLockByKey, Patience
<1>2. /\ lock' = [lock EXCEPT ![h] = lock'[h]]
      /\ lock'[h].pc = "insert" /\ lock'[h].begun = lock[h].begun
      /\ lock'[h].patient = lock[h].patient /\ lock'[h].tries = lock[h].tries
  BY <1>1, GotoWaits
<1>3. /\ lock[h].begun \in Nat /\ lock[h].at \in Int /\ faults \in Nat
      /\ row # None => row.expires \in Nat
  BY LockNumbers DEF IInv
<1>4. faults' = 0 => row' = (IF Expired(lock[h].at) THEN None ELSE row)
  BY <1>1, <1>3 DEF Fault
<1>5. faults' = 0 /\ row' # None => row' = row /\ row.expires >= lock[h].at
  BY <1>3, <1>4 DEF Expired
<1>6. lock[h].patient => Waited(lock[h].tries) \in Nat
  BY PauseAdds DEF IInv
<1>7. Waits(h)'
  BY <1>1, <1>2, <1>3, <1>5, <1>6 DEF Waits
<1>8. row' # None => row' = row
  BY <1>1
<1>9. faults' = 0 => faults = 0
  BY <1>1, FaultCounts
<1> QED
  BY <1>1, <1>2, <1>7, <1>8, <1>9, StepWaits

(* A row that is written now is younger than any call.                     *)
LEMMA AcquireWaits ==
    ASSUME IInv, Patience, NEW h \in Holders, TryAcquireLock(h)
    PROVE  Patience'
<1>1. /\ lock[h] \in Locals /\ now' = now /\ now \in Nat /\ Waits(h)
      /\ lock[h].pc = "insert" /\ lock[h].at # -1 /\ lock[h].at <= now
      /\ lock[h].at \in Int /\ TTL \in Nat /\ lock[h].begun \in Nat
      /\ lock[h].wake \in Nat /\ Waited(lock[h].tries + 1) \in Nat
  BY LockNumbers DEF IInv, TypeOK, RetryInv, TryAcquireLock, Patience
<1>2. Lease(h).written = now /\ Lease(h).expires <= now + TTL
  BY <1>1 DEF Lease
<1>3. CASE /\ row = None
           /\ row' = Lease(h)
           /\ lock' = [lock EXCEPT ![h].pc = "job", ![h].at = -1, ![h].acquired = TRUE,
                                   ![h].lease = Lease(h).expires,
                                   ![h].tries = 0, ![h].wake = 0, ![h].begun = 0]
           /\ UNCHANGED faults
  <2>1. lock'[h] = [lock[h] EXCEPT !.pc = "job", !.at = -1, !.acquired = TRUE,
                                   !.lease = Lease(h).expires,
                                   !.tries = 0, !.wake = 0, !.begun = 0]
    BY <1>3 DEF IInv, TypeOK
  <2>2. lock'[h].pc = "job" /\ lock'[h].begun = 0
    BY <1>1, <2>1 DEF Locals
  <2>3. Waits(h)'
    BY <1>1, <2>2, NothingWaits
  <2>4. lock' = [lock EXCEPT ![h] = lock'[h]]
    BY <1>3 DEF IInv, TypeOK
  <2> QED
    BY <1>1, <1>2, <1>3, <2>3, <2>4, StepWaits
<1>4. CASE /\ row # None /\ lock[h].tries < MaxRetries
           /\ lock' = [lock EXCEPT ![h].pc = "sleep", ![h].at = -1,
                                   ![h].wake = now + Pause(h)]
           /\ UNCHANGED <<row, faults>>
  <2>1. lock'[h] = [lock[h] EXCEPT !.pc = "sleep", !.at = -1, !.wake = now + Pause(h)]
    BY <1>4 DEF IInv, TypeOK
  <2>2. /\ lock'[h].pc = "sleep" /\ lock'[h].at = -1 /\ lock'[h].begun = lock[h].begun
        /\ lock'[h].wake = now + Pause(h) /\ lock'[h].tries = lock[h].tries
        /\ lock'[h].patient = lock[h].patient
    BY <1>1, <2>1 DEF Locals
  <2>3. lock[h].patient => /\ Waited(lock[h].tries) \in Nat /\ Pause(h) \in Nat
                           /\ Waited(lock[h].tries + 1) = Waited(lock[h].tries) + Pause(h)
    BY PauseAdds, PauseType DEF IInv
  <2>4. Waits(h)'
    BY <1>1, <2>2, <2>3 DEF Waits
  <2>5. lock' = [lock EXCEPT ![h] = lock'[h]]
    BY <1>4 DEF IInv, TypeOK
  <2> QED
    BY <1>1, <1>4, <2>4, <2>5, StepWaits
<1>5. CASE End(h) /\ UNCHANGED <<row, faults>>
  <2>1. Waits(h)' /\ lock' = [lock EXCEPT ![h] = lock'[h]]
    BY <1>1, <1>5, EndWaits DEF End
  <2> QED
    BY <1>1, <1>5, <2>1, StepWaits
<1>6. CASE /\ Fault
           /\ row' \in {row, IF row = None THEN Lease(h) ELSE row}
           /\ End(h)
  <2>1. Waits(h)' /\ lock' = [lock EXCEPT ![h] = lock'[h]]
    BY <1>1, <1>6, EndWaits DEF End
  <2>2. row' # None => row' = row \/ (row'.written = now /\ row'.expires <= now + TTL)
    BY <1>2, <1>6
  <2>3. faults' = 0 => faults = 0
    BY <1>6, FaultCounts
  <2> QED
    BY <1>1, <2>1, <2>2, <2>3, StepWaits
<1> QED
  BY <1>3, <1>4, <1>5, <1>6 DEF TryAcquireLock

(* The next try begins when the pause is over.                             *)
LEMMA WakeWaits ==
    ASSUME IInv, Patience, NEW h \in Holders, Wake(h)
    PROVE  Patience'
<1>1. /\ lock' = [lock EXCEPT ![h].pc = "clean", ![h].tries = @ + 1, ![h].wake = 0]
      /\ lock[h].pc = "sleep" /\ UNCHANGED <<now, row, faults>> /\ Waits(h)
      /\ now >= lock[h].wake /\ lock[h] \in Locals /\ lock[h].at = -1
  BY DEF Wake, Patience, Waits, IInv, TypeOK
<1>2. lock'[h] = [lock[h] EXCEPT !.pc = "clean", !.tries = @ + 1, !.wake = 0]
  BY <1>1 DEF IInv, TypeOK
<1>3. /\ lock'[h].pc = "clean" /\ lock'[h].at = -1 /\ lock'[h].begun = lock[h].begun
      /\ lock'[h].tries = lock[h].tries + 1 /\ lock'[h].patient = lock[h].patient
  <2>1. PICK l \in Locals : l = lock[h]
    BY <1>1
  <2>2. lock'[h] = [l EXCEPT !.pc = "clean", !.tries = l.tries + 1, !.wake = 0]
    BY <1>2, <2>1
  <2>3. /\ lock'[h].pc = "clean" /\ lock'[h].at = l.at /\ lock'[h].begun = l.begun
        /\ lock'[h].patient = l.patient
    BY <2>1, <2>2 DEF Locals
  <2>4. lock'[h].tries = l.tries + 1
    BY <2>1, <2>2 DEF Locals
  <2> QED
    BY <1>1, <2>1, <2>3, <2>4
<1>4. /\ now \in Nat /\ lock[h].wake \in Nat /\ lock[h].begun \in Nat
      /\ Waited(lock[h].tries + 1) \in Nat
  BY LockNumbers DEF IInv
<1>5. Waits(h)'
  BY <1>1, <1>3, <1>4 DEF Waits
<1>6. lock' = [lock EXCEPT ![h] = lock'[h]]
  BY <1>1 DEF IInv, TypeOK
<1> QED
  BY <1>1, <1>5, <1>6, StepWaits

(* The steps of a lock that works under its lease, or is done with it.     *)
LEMMA JobWaits ==
    ASSUME IInv, Patience, NEW h \in Holders,
           \/ ContextDone(h) \/ Crash(h) \/ Unlock(h)
           \/ ExtendCalled(h) \/ IsHeld(h)
    PROVE  Patience'
<1>1. Waits(h) /\ lock[h] \in Locals /\ now' = now
  BY DEF Patience, IInv, TypeOK, ContextDone, Crash, Unlock, ExtendCalled, IsHeld
<1>2. faults' = 0 => faults = 0
  BY FaultCounts DEF ContextDone, Crash, Unlock, ExtendCalled, IsHeld
<1>3. row' # None => row' = row
  BY DEF ContextDone, Crash, Unlock, ExtendCalled, IsHeld
<1>4. CASE ContextDone(h) \/ Crash(h) \/ Unlock(h)
  <2>1. Waits(h)' /\ lock' = [lock EXCEPT ![h] = lock'[h]]
    BY <1>1, <1>4, EndWaits DEF ContextDone, Crash, Unlock, End
  <2> QED
    BY <1>1, <1>2, <1>3, <2>1, StepWaits
<1>5. CASE ExtendCalled(h)
  <2>1. /\ lock' = [lock EXCEPT ![h] = lock'[h]]
        /\ lock'[h].pc = "extend" /\ lock'[h].begun = lock[h].begun
    BY <1>5, GotoWaits DEF ExtendCalled
  <2>2. Waits(h)'
    BY <1>1, <2>1, NothingWaits DEF Waits
  <2> QED
    BY <1>1, <1>2, <1>3, <2>1, <2>2, StepWaits
<1>6. CASE IsHeld(h)
  <2>1. lock'[h] = [lock[h] EXCEPT !.acquired = FALSE] /\ lock[h].pc = "job"
    BY <1>6 DEF IsHeld, IInv, TypeOK
  <2>2. lock'[h].pc = "job" /\ lock'[h].begun = lock[h].begun
    BY <1>1, <2>1 DEF Locals
  <2>3. Waits(h)'
    BY <1>1, <2>2, NothingWaits DEF Waits
  <2>4. lock' = [lock EXCEPT ![h] = lock'[h]]
    BY <1>6 DEF IsHeld, IInv, TypeOK
  <2> QED
    BY <1>1, <1>2, <1>3, <2>3, <2>4, StepWaits
<1> QED
  BY <1>4, <1>5, <1>6

(* An extension writes the row now.                                        *)
LEMMA UpdateWaits ==
    ASSUME IInv, Patience, NEW h \in Holders, UpdateLockExpiry(h)
    PROVE  Patience'
<1>1. /\ lock[h] \in Locals /\ now' = now /\ now \in Nat /\ Waits(h)
      /\ lock[h].pc = "extend" /\ lock[h].at <= now
      /\ lock[h].at \in Int /\ TTL \in Nat
  BY LockNumbers DEF IInv, TypeOK, RetryInv, UpdateLockExpiry, Patience
<1>2. Lease(h).written = now /\ Lease(h).expires <= now + TTL
  BY <1>1 DEF Lease
<1>3. /\ lock' = [lock EXCEPT ![h] = lock'[h]]
      /\ lock'[h].pc = "job" /\ lock'[h].begun = lock[h].begun
  <2>1. CASE lock' = [lock EXCEPT ![h].pc = "job", ![h].at = -1,
                                  ![h].lease = Lease(h).expires]
    <3>1. lock'[h] = [lock[h] EXCEPT !.pc = "job", !.at = -1, !.lease = Lease(h).expires]
      BY <2>1 DEF IInv, TypeOK
    <3>2. lock' = [lock EXCEPT ![h] = lock'[h]]
      BY <2>1 DEF IInv, TypeOK
    <3> QED
      BY <1>1, <3>1, <3>2 DEF Locals
  <2>2. CASE lock' = [lock EXCEPT ![h].pc = "job", ![h].at = -1, ![h].acquired = FALSE]
    <3>1. lock'[h] = [lock[h] EXCEPT !.pc = "job", !.at = -1, !.acquired = FALSE]
      BY <2>2 DEF IInv, TypeOK
    <3>2. lock' = [lock EXCEPT ![h] = lock'[h]]
      BY <2>2 DEF IInv, TypeOK
    <3> QED
      BY <1>1, <3>1, <3>2 DEF Locals
  <2>3. CASE Goto(h, "job")
    BY <2>3, GotoWaits
  <2> QED
    BY <2>1, <2>2, <2>3 DEF UpdateLockExpiry
<1>4. Waits(h)'
  BY <1>1, <1>3, NothingWaits DEF Waits
<1>5. row' # None => row' = row \/ (row'.written = now /\ row'.expires <= now + TTL)
  BY <1>2 DEF UpdateLockExpiry
<1>6. faults' = 0 => faults = 0
  BY FaultCounts DEF UpdateLockExpiry
<1> QED
  BY <1>1, <1>3, <1>4, <1>5, <1>6, StepWaits

(* Time passes, and the manager deletes rows.                              *)
LEMMA OthersWait ==
    ASSUME IInv, Patience, CleanupExpiredLocks \/ Clock \/ UNCHANGED vars
    PROVE  Patience'
<1>1. /\ lock' = lock /\ faults' = faults /\ now \in Nat /\ now' \in Nat /\ now' >= now
      /\ row' = row \/ row' = None
  BY DEF IInv, TypeOK, Times, CleanupExpiredLocks, Clock, vars
<1>2. ASSUME NEW h \in Holders PROVE Waits(h)'
  <2>1. /\ Waits(h) /\ lock[h].begun \in Nat
        /\ lock[h].patient => Waited(lock[h].tries) \in Nat
    BY LockNumbers, PauseAdds DEF Patience, IInv
  <2> QED
    BY <1>1, <2>1 DEF Waits
<1>3. Ages'
  <2>1. Ages /\ (row # None => row.written \in Nat)
    BY DEF Patience, IInv, TypeOK, Rows, Times
  <2> QED
    BY <1>1, <2>1 DEF Ages
<1> QED
  BY <1>2, <1>3 DEF Patience

(* What a lock has waited is part of the inductive invariant.              *)
THEOREM PatienceKept == Spec => [](IInv /\ Patience)
<1>1. Init => Patience
  <2>1. SUFFICES ASSUME Init PROVE Patience
    OBVIOUS
  <2>2. now = 0 /\ row = None /\ \A h \in Holders : lock[h] = Blank("idle")
    BY <2>1 DEF Init
  <2>3. /\ Blank("idle").pc = "idle" /\ Blank("idle").begun = 0
    BY DEF Blank
  <2> QED
    BY <2>2, <2>3 DEF Patience, Ages, Waits
<1>2. IInv /\ Patience /\ [Next]_vars => Patience'
  BY BeginWaits, ReadClockWaits, CleanupByKeyWaits, AcquireWaits, WakeWaits, JobWaits,
     UpdateWaits, OthersWait DEF Next, HolderStep
<1> QED
  BY <1>1, <1>2, Invariance, PTL DEF Spec

(* A row older than the call has a lease that ends no later than the       *)
(* pauses, and the last clean-up saw it end: what LockWithRetry gives up   *)
(* to was written since it began.  Its pauses have to outlast the TTL.     *)
THEOREM PatienceOutlastsTheDead ==
    ASSUME TTL <= Waited(MaxRetries)
    PROVE  Spec => GivesUpToTheLiving
<1>1. ASSUME IInv, Patience, [Next]_vars, NEW h \in Holders,
             lock[h].pc = "insert", lock[h].patient, lock[h].tries = MaxRetries,
             lock'[h].pc = "over", faults' = 0
      PROVE  row.written >= lock[h].begun
  <2>1. /\ TypeOK /\ Waits(h) /\ Ages
        /\ lock[h].begun \in Nat /\ TTL \in Nat /\ faults \in Nat
        /\ row # None => row.written \in Nat /\ row.expires \in Nat
        /\ Waited(MaxRetries) \in Nat
    BY <1>1, LockNumbers, PauseAdds DEF IInv, Patience
  <2>2. row # None /\ faults = 0
    <3>1. TryAcquireLock(h)
      <4>1. ASSUME NEW g \in Holders, HolderStep(g), g # h PROVE lock'[h] = lock[h]
        BY <2>1, <4>1 DEF TypeOK, HolderStep, Begin, ReadClock, CleanupExpiredLockByKey,
           TryAcquireLock, Wake, ContextDone, ExtendCalled, UpdateLockExpiry, IsHeld,
           Unlock, Crash, Goto, End
      <4>2. CASE HolderStep(h)
        <5>1. ~Crash(h)
          <6>1. Crash(h) => lock'[h] = Blank("crashed")
            BY <2>1 DEF TypeOK, Crash
          <6> QED
            BY <1>1, <6>1 DEF Blank
        <5>2. ~ReadClock(h)
          BY <1>1, <2>1 DEF TypeOK, Locals, ReadClock
        <5> QED
          BY <1>1, <4>2, <5>1, <5>2 DEF HolderStep, Begin, CleanupExpiredLockByKey, Wake,
             ContextDone, ExtendCalled, UpdateLockExpiry, IsHeld, Unlock
      <4>3. CASE CleanupExpiredLocks \/ Clock \/ UNCHANGED vars
        BY <1>1, <4>3 DEF CleanupExpiredLocks, Clock, vars
      <4> QED
        BY <1>1, <4>1, <4>2, <4>3 DEF Next
    <3>2. ~Fault
      BY <1>1, <2>1 DEF Fault
    <3>3. row # None
      <4>1. CASE lock' = [lock EXCEPT ![h].pc = "job", ![h].at = -1, ![h].acquired = TRUE,
                                   ![h].lease = Lease(h).expires,
                                   ![h].tries = 0, ![h].wake = 0, ![h].begun = 0]
        <5>1. lock[h] \in Locals
          BY <2>1 DEF TypeOK
        <5> QED
          BY <1>1, <2>1, <4>1, <5>1 DEF TypeOK, Locals
      <4> QED
        BY <3>1, <3>2, <4>1 DEF TryAcquireLock
    <3> QED
      BY <1>1, <2>1, <3>1, <3>2, <3>3 DEF TryAcquireLock
  <2>3. row.written < lock[h].begun => row.expires >= lock[h].begun + Waited(MaxRetries)
    BY <1>1, <2>1, <2>2 DEF Waits
  <2> QED
    BY <2>1, <2>2, <2>3 DEF Ages
<1>2. IInv /\ Patience /\ [Next]_vars =>
         [ \A h \in Holders :
             (/\ lock[h].pc = "insert" /\ lock[h].patient /\ lock[h].tries = MaxRetries
              /\ lock'[h].pc = "over" /\ faults' = 0)
                 => row.written >= lock[h].begun ]_vars
  BY <1>1
<1> QED
  BY <1>2, PatienceKept, PTL DEF Spec, GivesUpToTheLiving

=============================================================================
