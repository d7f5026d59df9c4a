--------------------------- MODULE DistributedLock ---------------------------
(***************************************************************************)
(* The database lock (framework/configstore: dlock.go and the LockStore    *)
(* methods of rdb.go) under which one of several instances resets budgets  *)
(* at startup or synchronises the model catalog: one row per lock key,     *)
(* with its holder and the time its lease ends.                            *)
(*                                                                         *)
(* One lock key.  A DistributedLock is made for one use, with a holder ID  *)
(* of its own.  Every statement uses a clock reading its instance took     *)
(* before it; the instances' clocks agree, and count seconds.              *)
(***************************************************************************)
EXTENDS Integers

CONSTANTS
    Holders,      \* the DistributedLocks made for the key
    None,
    TTL,          \* the lock manager's TTL
    Interval,     \* retryInterval, rounded down
    MaxRetries,   \* of Lock and LockWithRetry
    MaxFaults,    \* bound on the statements that fail
    MaxTime       \* bound on the clock

ASSUME LockAssumption ==
    /\ TTL \in Nat \ {0}
    /\ {Interval, MaxRetries, MaxFaults, MaxTime} \subseteq Nat

VARIABLES
    now,      \* the clock
    row,      \* the lock's row, or None
    faults,   \* how many statements have failed
    lock      \* the locks: their place and their local variables

vars == <<now, row, faults, lock>>

Times == 0..MaxTime

(* written: when the row was inserted or last extended (a history value).  *)
Rows == [holder : Holders, expires : 0..(MaxTime + TTL), written : Times]

ASSUME NoneAssumption == None \notin Rows

(* pc: clean and insert are TryLock's statements, job is the caller's work *)
(* under the lock; at: the clock reading of the statement, or -1; begun,   *)
(* tries, wake: of the retry loop; lease: the end of the lease it knows.   *)
Locals ==
    [pc : {"idle", "clean", "insert", "sleep", "job", "extend", "over", "crashed"},
     patient : BOOLEAN, at : Times \cup {-1}, begun : Times, tries : 0..MaxRetries,
     wake : Nat, lease : 0..(MaxTime + TTL), acquired : BOOLEAN]

TypeOK ==
    /\ now \in Times
    /\ row \in Rows \cup {None}
    /\ faults \in 0..MaxFaults
    /\ lock \in [Holders -> Locals]

Blank(place) ==
    [pc |-> place, patient |-> FALSE, at |-> -1, begun |-> 0, tries |-> 0,
     wake |-> 0, lease |-> 0, acquired |-> FALSE]

Init ==
    /\ now = 0
    /\ row = None
    /\ faults = 0
    /\ lock = [h \in Holders |-> Blank("idle")]

-----------------------------------------------------------------------------
Goto(h, place) == lock' = [lock EXCEPT ![h].pc = place, ![h].at = -1]

End(h) == lock' = [lock EXCEPT ![h] = Blank("over")]

(* A statement fails; a few do. *)
Fault == faults < MaxFaults /\ faults' = faults + 1

(* LockWithRetry's backoff before the next try, or Lock's interval. *)
Pause(h) ==
    IF lock[h].patient
    THEN <<1, 2, 4, 8, 16, 32>>[IF lock[h].tries > 5 THEN 6 ELSE lock[h].tries + 1]
    ELSE Interval

(* NewLock, and LockWithRetry or Lock is called. *)
Begin(h) ==
    /\ lock[h].pc = "idle"
    /\ \E patient \in BOOLEAN :
          lock' = [lock EXCEPT ![h].pc = "clean", ![h].begun = now, ![h].patient = patient]
    /\ UNCHANGED <<now, row, faults>>

(* The clock is read for the statement. *)
ReadClock(h) ==
    /\ lock[h].pc \in {"clean", "insert", "extend"}
    /\ lock[h].at = -1
    /\ lock' = [lock EXCEPT ![h].at = now]
    /\ UNCHANGED <<now, row, faults>>

Expired(t) == row # None /\ row.expires < t

Held(h) == row # None /\ row.holder = h

(* The row is deleted whatever its lease (mutant). *)
CleanupAny(h) ==
    /\ lock[h].pc = "clean" /\ lock[h].at # -1
    /\ row' = None /\ UNCHANGED faults
    /\ Goto(h, "insert")
    /\ UNCHANGED now

(* Only the instance's own row is deleted (mutant). *)
CleanupOwn(h) ==
    /\ lock[h].pc = "clean" /\ lock[h].at # -1
    /\ row' = (IF Expired(lock[h].at) /\ Held(h) THEN None ELSE row)
    /\ Goto(h, "insert")
    /\ UNCHANGED <<now, faults>>

(* cleanupExpiredLock: an expired row is deleted.  Its error is only       *)
(* logged.                                                                 *)
CleanupExpiredLockByKey(h) ==
    /\ lock[h].pc = "clean" /\ lock[h].at # -1
    /\ \/ row' = (IF Expired(lock[h].at) THEN None ELSE row) /\ UNCHANGED faults
       \/ Fault /\ UNCHANGED row
    /\ Goto(h, "insert")
    /\ UNCHANGED now

Lease(h) == [holder |-> h, expires |-> lock[h].at + TTL, written |-> now]

(* TryAcquireLock: the row is inserted unless there is one.  A loser       *)
(* sleeps and tries again, or gives up.  An error ends the attempts,       *)
(* whether or not the row had been inserted.                               *)
TryAcquireLock(h) ==
    /\ lock[h].pc = "insert" /\ lock[h].at # -1
    /\ \/ /\ row = None
          /\ row' = Lease(h)
          /\ lock' = [lock EXCEPT ![h].pc = "job", ![h].at = -1, ![h].acquired = TRUE,
                                  ![h].lease = Lease(h).expires,
                                  ![h].tries = 0, ![h].wake = 0, ![h].begun = 0]
          /\ UNCHANGED faults
       \/ /\ row # None
          /\ lock[h].tries < MaxRetries
          /\ lock' = [lock EXCEPT ![h].pc = "sleep", ![h].at = -1,
                                  ![h].wake = now + Pause(h)]
          /\ UNCHANGED <<row, faults>>
       \/ /\ row # None
          /\ lock[h].tries = MaxRetries
          /\ End(h)
          /\ UNCHANGED <<row, faults>>
       \/ /\ Fault
          /\ row' \in {row, IF row = None THEN Lease(h) ELSE row}
          /\ End(h)
    /\ UNCHANGED now

Wake(h) ==
    /\ lock[h].pc = "sleep" /\ now >= lock[h].wake
    /\ lock' = [lock EXCEPT ![h].pc = "clean", ![h].tries = @ + 1, ![h].wake = 0]
    /\ UNCHANGED <<now, row, faults>>

(* The caller's context ends: seen before a try and while asleep. *)
ContextDone(h) ==
    /\ \/ lock[h].pc = "clean" /\ lock[h].at = -1
       \/ lock[h].pc = "sleep"
    /\ End(h)
    /\ UNCHANGED <<now, row, faults>>

(* Extend is called. *)
ExtendCalled(h) ==
    /\ lock[h].pc = "job" /\ lock[h].acquired
    /\ Goto(h, "extend")
    /\ UNCHANGED <<now, row, faults>>

(* UpdateLockExpiry, which reads the clock again for its condition; the    *)
(* job goes on in any case.                                                *)
UpdateLockExpiry(h) ==
    /\ lock[h].pc = "extend" /\ lock[h].at # -1
    /\ \/ \E t \in lock[h].at..now :
             IF Held(h) /\ row.expires > t
             THEN /\ row' = Lease(h)
                  /\ lock' = [lock EXCEPT ![h].pc = "job", ![h].at = -1,
                                          ![h].lease = Lease(h).expires]
                  /\ UNCHANGED faults
             ELSE /\ lock' = [lock EXCEPT ![h].pc = "job", ![h].at = -1,
                                          ![h].acquired = FALSE]
                  /\ UNCHANGED <<row, faults>>
       \/ Fault /\ Goto(h, "job") /\ UNCHANGED row
    /\ UNCHANGED now

(* IsHeld. *)
IsHeld(h) ==
    /\ lock[h].pc = "job" /\ lock[h].acquired
    /\ ~(Held(h) /\ ~Expired(now))
    /\ lock' = [lock EXCEPT ![h].acquired = FALSE]
    /\ UNCHANGED <<now, row, faults>>

(* Unlock: ReleaseLock deletes the holder's row, and only that.  A lock    *)
(* that is known to be lost is not released; an error leaves the row to    *)
(* its lease.                                                              *)
Unlock(h) ==
    /\ lock[h].pc = "job"
    /\ \/ ~lock[h].acquired /\ UNCHANGED <<row, faults>>
       \/ /\ lock[h].acquired
          /\ row' = IF Held(h) THEN None ELSE row
          /\ UNCHANGED faults
       \/ lock[h].acquired /\ Fault /\ UNCHANGED row
    /\ End(h)
    /\ UNCHANGED now

Crash(h) ==
    /\ lock[h].pc \notin {"idle", "over", "crashed"}
    /\ lock' = [lock EXCEPT ![h] = Blank("crashed")]
    /\ UNCHANGED <<now, row, faults>>

(* The manager's CleanupExpiredLocks. *)
CleanupExpiredLocks ==
    /\ Expired(now)
    /\ row' = None
    /\ UNCHANGED <<now, faults, lock>>

Clock ==
    /\ now < MaxTime
    /\ now' = now + 1
    /\ UNCHANGED <<row, faults, lock>>

HolderStep(h) ==
    \/ Begin(h) \/ ReadClock(h) \/ CleanupExpiredLockByKey(h) \/ TryAcquireLock(h)
    \/ Wake(h) \/ ContextDone(h) \/ ExtendCalled(h) \/ UpdateLockExpiry(h)
    \/ IsHeld(h) \/ Unlock(h) \/ Crash(h)

Next == CleanupExpiredLocks \/ Clock \/ \E h \in Holders : HolderStep(h)

Spec == Init /\ [][Next]_vars

-----------------------------------------------------------------------------
(* Two jobs run at once only if one of them outlived its lease, whatever   *)
(* stale clock readings, failed statements and crashes there are ("to      *)
(* prevent race condition when multiple instances boot simultaneously").   *)
JobsDisjoint ==
    \A h, g \in Holders :
        (/\ h # g
         /\ lock[h].pc \in {"job", "extend"} /\ lock[g].pc \in {"job", "extend"})
            => lock[h].lease < now \/ lock[g].lease < now

(* While no statement fails, LockWithRetry, whose pauses together outlast  *)
(* the TTL, gives up only if another instance has taken or extended the    *)
(* lock since it began: the lock of a crashed holder is never in its way.  *)
GivesUpToTheLiving ==
    [][ \A h \in Holders :
          (/\ lock[h].pc = "insert" /\ lock[h].patient /\ lock[h].tries = MaxRetries
           /\ lock'[h].pc = "over" /\ faults' = 0)
              => row.written >= lock[h].begun ]_vars

==============================================================================
