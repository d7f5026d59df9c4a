---------------------------- MODULE UsageTracker ----------------------------
(***************************************************************************)
(* The usage of one budget in the governance plugin (plugins/governance):  *)
(* settlements of provider calls raise it in memory through a compare and  *)
(* swap loop (BumpBudgetUsage), a worker resets it when its window has     *)
(* ended and dumps it to the database (tracker.go, store.go), Cleanup      *)
(* flushes it, and a restart loads what the database holds and resets what *)
(* expired meanwhile.                                                      *)
(*                                                                         *)
(* The amount is the set of calls it counts.  Other budgets and the rate   *)
(* limits go through the same functions and do not interact with it.       *)
(***************************************************************************)
EXTENDS Integers

CONSTANTS
    Calls,        \* terminal settlements: runs of postHookWorker
    Attempts,     \* provider calls: a request ID with its attempt number
    Duration,     \* the budget's reset duration, as ParseDuration reads it
    Period,       \* distance of the calendar periods of an aligned budget
    BilledTTL,    \* billedEntryTTL
    Life,         \* within what time an attempt's settlements arrive
    MaxTime,      \* bound on the clock
    MaxRestarts   \* bound on the restarts

ASSUME UsageAssumption ==
    /\ {Duration, Period, BilledTTL} \subseteq Nat \ {0}
    /\ Life \in 0..BilledTTL
    /\ {MaxTime, MaxRestarts} \subseteq Nat

VARIABLES
    now,        \* the clock
    aligned,    \* the budget's IsCalendarAligned
    mem,        \* the budget in memory: the calls it counts, LastReset
    db,         \* its row: current_usage, last_reset
    billed,     \* the idempotency set: when an attempt was claimed, or -1
    call,       \* the settlements: when claimed, the clock and budget read
    resetter,   \* the worker, and Init's PerformStartupResets
    flush,      \* the snapshot Cleanup's own dump holds
    phase,      \* of the plugin
    restarts

vars == <<now, aligned, mem, db, billed, call, resetter, flush, phase, restarts>>

Times == 0..MaxTime
Budgets == [calls : SUBSET Calls, since : Times]
Resetters == {"worker", "starter"}

Settlements ==
    [pc : {"idle", "bump", "swap", "done", "free", "skipped", "old"},
     attempt : Attempts \cup {"none"}, at : Times, clock : Times, raw : Budgets]

Resettings ==
    [pc : {"look", "reset", "persist", "dump", "write", "sweep", "wait", "gone"},
     target : Times, snap : SUBSET Calls]

TypeOK ==
    /\ now \in Times
    /\ aligned \in BOOLEAN
    /\ mem \in Budgets /\ db \in Budgets
    /\ billed \in [Attempts -> Times \cup {-1}]
    /\ call \in [Calls -> Settlements]
    /\ resetter \in [Resetters -> Resettings]
    /\ flush \in SUBSET Calls
    /\ phase \in {"boot", "up", "drain", "flush", "cancelled", "stopped", "down"}
    /\ restarts \in 0..MaxRestarts

Unused == [calls |-> {}, since |-> 0]
At(place) == [pc |-> place, target |-> 0, snap |-> {}]
Fresh == [worker |-> At("wait"), starter |-> At("look")]

Init ==
    /\ now = 0
    /\ aligned \in BOOLEAN
    /\ mem = Unused /\ db = Unused
    /\ billed = [a \in Attempts |-> -1]
    /\ call = [c \in Calls |-> [pc |-> "idle", attempt |-> "none", at |-> 0,
                             clock |-> 0, raw |-> Unused]]
    /\ resetter = [r \in Resetters |-> Fresh[r]]
    /\ flush = {}
    /\ phase = "boot"
    /\ restarts = 0

Alive == phase # "down"

-----------------------------------------------------------------------------
(* Windows.                                                                *)

(* GetCalendarPeriodStart. *)
PeriodStart(t) == t - (t % Period)

(* What ResetExpiredBudgetsInMemory sets LastReset to at time t. *)
Target(t) == IF aligned THEN PeriodStart(t) ELSE t

(* Its test, of the window that began at since. *)
Ended(since, t) ==
    IF aligned THEN PeriodStart(t) > since ELSE t - since >= Duration

-----------------------------------------------------------------------------
(* Settlements.                                                            *)

InFlight == {c \in Calls : call[c].pc \in {"bump", "swap"}}

(* What tryClaimBilling looks up and records under billedMu. *)
Claimed(a) == billed[a] # -1

(* The terminal settlement c of attempt a.  Streamed and cancelled         *)
(* requests may settle twice, within Life of each other.  A failed attempt *)
(* that consumed nothing does not get here, one without a request ID is    *)
(* never refused; one that costs nothing is claimed and raises no budget.  *)
Settle(c, a) ==
    /\ Alive /\ phase # "boot"
    /\ call[c].pc = "idle"
    /\ \A d \in Calls : (call[d].attempt = a) => /\ call[d].pc # "old"
                                                 /\ now - call[d].at <= Life
    /\ \E place \in IF Claimed(a) THEN {"skipped"} ELSE {"bump", "free"} :
          call' = [call EXCEPT ![c].pc = place, ![c].attempt = a, ![c].at = now]
    /\ billed' = [billed EXCEPT ![a] = IF Claimed(a) THEN @ ELSE now]
    /\ UNCHANGED <<now, aligned, mem, db, resetter, flush, phase, restarts>>

(* BumpBudgetUsage, the first half of its loop: the budget is loaded and   *)
(* the clock is read (a swap that fails loads again).  A window that ended *)
(* is reset on the spot, by the duration alone, aligned or not.            *)
Load(c) ==
    /\ Alive /\ call[c].pc = "bump"
    /\ call' = [call EXCEPT ![c].pc = "swap", ![c].clock = now, ![c].raw = mem]
    /\ UNCHANGED <<now, aligned, mem, db, billed, resetter, flush, phase, restarts>>

Bumped(c) ==
    LET raw == call[c].raw IN
    IF call[c].clock - raw.since >= Duration
    THEN [calls |-> {c}, since |-> call[c].clock]
    ELSE [raw EXCEPT !.calls = @ \cup {c}]

(* It is over; raw keeps the window that counts the call. *)
Done(c) ==
    [call[c] EXCEPT !.pc = "done", !.clock = 0,
                    !.raw = [calls |-> {}, since |-> Bumped(c).since]]

(* The second half: the swap. *)
Swap(c) ==
    /\ Alive /\ call[c].pc = "swap"
    /\ \/ /\ call[c].raw = mem
          /\ mem' = Bumped(c)
          /\ call' = [call EXCEPT ![c] = Done(c)]
       \/ /\ call[c].raw # mem
          /\ call' = [call EXCEPT ![c].pc = "bump", ![c].clock = 0, ![c].raw = Unused]
          /\ UNCHANGED mem
    /\ UNCHANGED <<now, aligned, db, billed, resetter, flush, phase, restarts>>

-----------------------------------------------------------------------------
(* The worker, every workerInterval, and the startup reset, once.          *)

Step(r, place) == resetter' = [resetter EXCEPT ![r] = At(place)]

(* After its reset: the worker dumps, the startup reset is over. *)
AfterReset(r) == IF r = "worker" THEN "dump" ELSE "gone"

(* The reset is decided on: its target, and the budget Range has shown. *)
Decide(r) ==
    resetter' = [resetter EXCEPT ![r].pc = "reset", ![r].target = Target(now),
                                 ![r].snap = mem.calls]

(* The tick returns at once when no window has ended (mutant). *)
LookNoDump(r) ==
    /\ Alive /\ resetter[r].pc = "look"
    /\ \/ /\ Ended(mem.since, now)
          /\ Decide(r)
       \/ ~Ended(mem.since, now) /\ Step(r, IF r = "worker" THEN "sweep" ELSE "gone")
    /\ UNCHANGED <<now, aligned, mem, db, billed, call, flush, phase, restarts>>

(* ResetExpiredBudgetsInMemory: the clock and the snapshot it decides on. *)
Look(r) ==
    /\ Alive /\ resetter[r].pc = "look"
    /\ \/ /\ Ended(mem.since, now)
          /\ Decide(r)
       \/ ~Ended(mem.since, now) /\ Step(r, AfterReset(r))
    /\ UNCHANGED <<now, aligned, mem, db, billed, call, flush, phase, restarts>>

(* The reset does not look at LastReset again (mutant). *)
ResetBudgetAtAlways(r) ==
    /\ Alive /\ resetter[r].pc = "reset"
    /\ mem' = [calls |-> {}, since |-> resetter[r].target]
    /\ resetter' = [resetter EXCEPT ![r].pc = "persist", ![r].snap = {}]
    /\ UNCHANGED <<now, aligned, db, billed, call, flush, phase, restarts>>

(* ResetBudgetAt, whose own loop ends in one swap: nothing to do when      *)
(* LastReset has reached the target meanwhile.                             *)
ResetBudgetAt(r) ==
    /\ Alive /\ resetter[r].pc = "reset"
    /\ \/ /\ mem.since < resetter[r].target
          /\ mem' = [calls |-> {}, since |-> resetter[r].target]
          /\ resetter' = [resetter EXCEPT ![r].pc = "persist", ![r].snap = {}]
       \/ /\ mem.since >= resetter[r].target
          /\ Step(r, AfterReset(r))
          /\ UNCHANGED mem
    /\ UNCHANGED <<now, aligned, db, billed, call, flush, phase, restarts>>

(* The worker's statements run under trackerCtx. *)
MayWrite(r) == ~(r = "worker" /\ phase \in {"cancelled", "stopped"})

(* ResetExpiredBudgets: the one statement that writes last_reset.  It may  *)
(* fail, and then only memory knows of the reset.                          *)
Persist(r) ==
    /\ Alive /\ resetter[r].pc = "persist"
    /\ \/ MayWrite(r) /\ db' = [calls |-> {}, since |-> resetter[r].target]
       \/ UNCHANGED db
    /\ Step(r, AfterReset(r))
    /\ UNCHANGED <<now, aligned, mem, billed, call, flush, phase, restarts>>

(* DumpBudgets: the snapshot, and then its usage, without last_reset. *)
DumpRead ==
    /\ Alive /\ resetter["worker"].pc = "dump"
    /\ resetter' = [resetter EXCEPT !["worker"].pc = "write", !["worker"].snap = mem.calls]
    /\ UNCHANGED <<now, aligned, mem, db, billed, call, flush, phase, restarts>>

DumpFails ==
    /\ Alive /\ resetter["worker"].pc = "write"
    /\ Step("worker", "sweep")
    /\ UNCHANGED <<now, aligned, mem, db, billed, call, flush, phase, restarts>>

DumpWrite ==
    /\ Alive /\ resetter["worker"].pc = "write"
    /\ MayWrite("worker")
    /\ db' = [db EXCEPT !.calls = resetter["worker"].snap]
    /\ Step("worker", "sweep")
    /\ UNCHANGED <<now, aligned, mem, billed, call, flush, phase, restarts>>

(* Entries of age BilledTTL are dropped already (mutant). *)
SweepBilledEarly ==
    /\ Alive /\ resetter["worker"].pc = "sweep"
    /\ billed' = [a \in Attempts |-> IF billed[a] <= now - BilledTTL THEN -1 ELSE billed[a]]
    /\ Step("worker", "wait")
    /\ UNCHANGED <<now, aligned, mem, db, call, flush, phase, restarts>>

SweepBilled ==
    /\ Alive /\ resetter["worker"].pc = "sweep"
    /\ billed' = [a \in Attempts |-> IF billed[a] < now - BilledTTL THEN -1 ELSE billed[a]]
    /\ Step("worker", "wait")
    /\ UNCHANGED <<now, aligned, mem, db, call, flush, phase, restarts>>

(* The ticker fires.  With done closed as well the select takes either. *)
Tick ==
    /\ Alive /\ resetter["worker"].pc = "wait"
    /\ Step("worker", "look")
    /\ UNCHANGED <<now, aligned, mem, db, billed, call, flush, phase, restarts>>

WorkerEnd ==
    /\ phase = "cancelled" /\ resetter["worker"].pc = "wait"
    /\ Step("worker", "gone")
    /\ UNCHANGED <<now, aligned, mem, db, billed, call, flush, phase, restarts>>

-----------------------------------------------------------------------------
(* Start, Cleanup, crash and restart.                                      *)

Enter(place) ==
    /\ phase' = place
    /\ UNCHANGED <<now, aligned, mem, db, billed, call, restarts>>

(* Init returns.  Without the startup lock the startup reset is skipped,   *)
(* which a starter still at its first step stands for.                     *)
Started ==
    /\ phase = "boot" /\ resetter["starter"].pc \in {"look", "gone"}
    /\ Step("starter", "gone")
    /\ UNCHANGED flush /\ Enter("up")

Cleanup == phase = "up" /\ UNCHANGED <<resetter, flush>> /\ Enter("drain")

(* The settlements in flight are waited for, and the final dump is read.   *)
FlushRead ==
    /\ phase = "drain" /\ InFlight = {}
    /\ flush' = mem.calls
    /\ UNCHANGED resetter /\ Enter("flush")

(* It is written, or fails; the worker's context is cancelled, done closed.*)
FlushWrite ==
    /\ phase = "flush"
    /\ \/ db' = [db EXCEPT !.calls = flush]
       \/ UNCHANGED db
    /\ phase' = "cancelled" /\ flush' = {}
    /\ UNCHANGED <<now, aligned, mem, billed, call, resetter, restarts>>

Joined ==
    /\ phase = "cancelled" /\ resetter["worker"].pc = "gone"
    /\ UNCHANGED <<resetter, flush>> /\ Enter("stopped")

(* The process ends, at any moment. *)
Down ==
    /\ Alive
    /\ call' = [c \in Calls |-> IF call[c].pc = "idle" THEN call[c]
                                ELSE [call[c] EXCEPT !.pc = "old", !.at = 0, !.clock = 0,
                                                     !.raw.calls = {}]]
    /\ phase' = "down" /\ flush' = {}
    /\ resetter' = [r \in Resetters |-> At("gone")]
    /\ UNCHANGED <<now, aligned, mem, db, billed, restarts>>

(* A new process: loadFromDatabase. *)
Restart ==
    /\ phase = "down" /\ restarts < MaxRestarts
    /\ restarts' = restarts + 1
    /\ mem' = db
    /\ billed' = [a \in Attempts |-> -1]
    /\ resetter' = [r \in Resetters |-> Fresh[r]]
    /\ phase' = "boot"
    /\ UNCHANGED <<now, aligned, db, call, flush>>

Clock ==
    /\ now < MaxTime
    /\ now' = now + 1
    /\ UNCHANGED <<aligned, mem, db, billed, call, resetter, flush, phase, restarts>>

Worker ==
    \/ Look("worker") \/ ResetBudgetAt("worker") \/ Persist("worker")
    \/ DumpRead \/ DumpFails \/ DumpWrite \/ SweepBilled \/ Tick \/ WorkerEnd

Starter ==
    \/ Look("starter") \/ ResetBudgetAt("starter") \/ Persist("starter") \/ Started

Next ==
    \/ \E c \in Calls : Load(c) \/ Swap(c) \/ \E a \in Attempts : Settle(c, a)
    \/ Worker \/ Starter
    \/ Cleanup \/ FlushRead \/ FlushWrite \/ Joined
    \/ Down \/ Restart \/ Clock

(* The worker runs on, and a database that is written again and again does *)
(* not fail every time.                                                    *)
Fairness == WF_vars(Worker) /\ SF_vars(DumpWrite)

Spec == Init /\ [][Next]_vars /\ Fairness

-----------------------------------------------------------------------------
(* Two settlements of one provider call never both raise the budget: not   *)
(* when they run at once, and not when the worker sweeps between them      *)
(* (tryClaimBilling, sweepBilled).                                         *)
BilledOnce ==
    \A c, d \in Calls :
        (/\ {call[c].pc, call[d].pc} \subseteq {"bump", "swap", "done"}
         /\ call[c].attempt = call[d].attempt)
            => c = d

(* The window that began at since is over by its duration, or for an       *)
(* aligned budget by the calendar.                                         *)
Over(since) == now - since >= Duration \/ (aligned /\ PeriodStart(now) > since)

(* The calls a step takes from the budget of a running process before the  *)
(* window that counts them is over.                                        *)
TakenEarly ==
    IF phase = "down" \/ Over(mem.since) THEN {} ELSE mem.calls \ mem'.calls

(* A reset "never drops a concurrent usage increment" (the comment above   *)
(* ResetExpiredBudgetsInMemory), and neither does a bump.  It is refuted:  *)
(* a reset whose reading of the clock is later than a bump's takes the     *)
(* window this bump opened (BumpBudgetUsage, ResetBudgetAt).               *)
IncrementKept == [][ TakenEarly = {} ]_vars

(* That race is the only loss: a call is taken early from no aligned       *)
(* budget, by no bump and by no reset that saw it counted, and only in a   *)
(* window that began before the reset's own reading (BumpBudgetUsage and   *)
(* ResetBudgetAt, between the bumps, the worker's and the startup reset).  *)
LostInRaceOnly ==
    [][ \A c \in TakenEarly :
          /\ ~aligned
          /\ \E r \in Resetters :
                /\ resetter[r].pc = "reset" /\ c \notin resetter[r].snap
                /\ mem.since < resetter[r].target ]_vars

(* A counted call reaches the database, unless its window ends or the      *)
(* process stops first (resetExpiredCounters).                             *)
Durable ==
    \A c \in Calls :
        []<>(c \in db.calls \/ c \notin mem.calls \/ phase \notin {"boot", "up"})

(* PerformStartupResets "checks and resets any expired rate limits and     *)
(* budgets" (tracker.go): a call that it takes from the budget was counted *)
(* in a window that has ended.                                             *)
ResetsExpiredOnly ==
    [][ \A c \in mem.calls \ mem'.calls :
          phase = "boot" => Ended(call[c].raw.since, now) ]_vars

==============================================================================
