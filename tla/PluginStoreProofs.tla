-------------------------- MODULE PluginStoreProofs --------------------------
(***************************************************************************)
(* Proofs about what two plugins write to their stores: governance's usage *)
(* counters (UsageTracker), for every number of calls, attempts, ticks and *)
(* restarts, and, at the end, the logging plugin's batches (LogWriter),    *)
(* for every number of entries and every size of queue and batch.          *)
(*                                                                         *)
(* Of the counters the inductive invariant says who has a claim on an      *)
(* attempt, that a process which is down holds nothing, that a call which  *)
(* has not been counted yet is in no count and no snapshot of one, and how *)
(* old what a bump or a reset has read may be.                             *)
(***************************************************************************)
EXTENDS UsageTracker, LogWriter, FiniteSetTheorems, TLAPS

(* The settlements that raise the budget, or have raised it.               *)
Counted == {c \in Calls : call[c].pc \in {"bump", "swap", "done"}}

(* A settlement that counts has the claim of its attempt, which is gone    *)
(* only when nobody can settle the attempt any more.                       *)
Claims ==
    \A c \in Counted :
        /\ call[c].attempt \in Attempts
        /\ \/ billed[call[c].attempt] = call[c].at
           \/ now - call[c].at > BilledTTL

(* What ended with the process does not act or count.                      *)
DownQuiet ==
    phase = "down" => /\ \A c \in Calls : call[c].pc \in {"idle", "old"}
                      /\ \A r \in Resetters : resetter[r].pc = "gone"

(* A call that still has to be counted is in no count, and nobody has seen *)
(* it in one.                                                              *)
Uncounted(c) ==
    /\ c \notin mem.calls /\ c \notin db.calls /\ c \notin flush
    /\ \A r \in Resetters : c \notin resetter[r].snap

CountedAreDone ==
    \A c \in Calls : call[c].pc \notin {"done", "old"} => Uncounted(c)

(* A bump has read a time that has come.  So has a reset: the period of an *)
(* aligned budget has begun, and a window that is not over holds no call   *)
(* that the reset has seen.                                                *)
Readings ==
    /\ \A c \in Calls : call[c].pc = "swap" => call[c].clock <= now
    /\ \A r \in Resetters :
          resetter[r].pc = "reset" =>
              /\ aligned => resetter[r].target <= PeriodStart(now)
              /\ Over(mem.since) \/ resetter[r].snap \cap mem.calls = {}

IInv == TypeOK /\ Claims /\ DownQuiet /\ BilledOnce /\ CountedAreDone /\ Readings

-----------------------------------------------------------------------------
(* Windows: the target of a reset is the start of a period that the clock  *)
(* has reached.                                                            *)
LEMMA PeriodBounds ==
    ASSUME NEW t \in Times
    PROVE  /\ PeriodStart(t) \in Int
           /\ PeriodStart(t) <= t
           /\ PeriodStart(t) > t - Period
           /\ PeriodStart(t) >= 0
<1>1. t \in Nat /\ Period \in Nat \ {0}
  BY UsageAssumption DEF Times
<1>2. t % Period \in 0 .. (Period - 1)
  BY <1>1
<1>3. t % Period <= t
  BY <1>1
<1> QED
  BY <1>1, <1>2, <1>3 DEF PeriodStart

(* A period starts at a multiple of its length ...                         *)
LEMMA PeriodMultiple ==
    ASSUME NEW t \in Times
    PROVE  \E q \in Nat : PeriodStart(t) = Period * q
<1>1. t \in Nat /\ Period \in Nat \ {0}
  BY UsageAssumption DEF Times
<1>2. t = Period * (t \div Period) + (t % Period) /\ t \div Period \in Nat
  BY <1>1
<1> QED
  BY <1>1, <1>2 DEF PeriodStart

(* ... so that the period of a later time starts no earlier.               *)
LEMMA PeriodsGrow ==
    ASSUME NEW t \in Times, NEW u \in Times, t <= u
    PROVE  PeriodStart(t) <= PeriodStart(u)
<1>1. t \in Int /\ u \in Int /\ Period \in Nat \ {0}
  BY UsageAssumption DEF Times
<1>2. PICK p \in Nat : PeriodStart(t) = Period * p
  BY PeriodMultiple
<1>3. PICK q \in Nat : PeriodStart(u) = Period * q
  BY PeriodMultiple
<1>4. PeriodStart(t) <= t /\ PeriodStart(u) > u - Period
  BY PeriodBounds
<1>5. Period * p < Period * (q + 1)
  BY <1>1, <1>2, <1>3, <1>4
<1>6. p <= q
  BY <1>1, <1>5
<1>7. Period * p <= Period * q
  BY <1>1, <1>6
<1> QED
  BY <1>2, <1>3, <1>7

(* A window that is over stays over.                                       *)
LEMMA OverStays ==
    ASSUME NEW since \in Times, NEW t \in Times, NEW u \in Times, t <= u
    PROVE  /\ t - since >= Duration => u - since >= Duration
           /\ PeriodStart(t) > since => PeriodStart(u) > since
<1>1. /\ PeriodStart(t) <= PeriodStart(u)
      /\ PeriodStart(t) \in Int /\ PeriodStart(u) \in Int
  BY PeriodsGrow, PeriodBounds
<1>2. t \in Int /\ u \in Int /\ since \in Int /\ Duration \in Int
  BY UsageAssumption DEF Times
<1> QED
  BY <1>1, <1>2

LEMMA TargetBounds ==
    ASSUME NEW t \in Times
    PROVE  Target(t) \in Times /\ Target(t) <= t
BY PeriodBounds, UsageAssumption DEF Target, Times

-----------------------------------------------------------------------------
(* Types.                                                                  *)

(* A settlement or a reset that takes a step keeps its type.               *)
LEMMA SettlementTypes ==
    ASSUME TypeOK, NEW c \in Calls, NEW s \in Settlements
    PROVE  [call EXCEPT ![c] = s] \in [Calls -> Settlements]
BY DEF TypeOK

LEMMA ResettingTypes ==
    ASSUME TypeOK, NEW r \in Resetters, NEW s \in Resettings
    PROVE  [resetter EXCEPT ![r] = s] \in [Resetters -> Resettings]
BY DEF TypeOK

LEMMA Zeros ==
    /\ 0 \in Times
    /\ Unused \in Budgets
    /\ \A spot \in {"look", "reset", "persist", "dump", "write", "sweep", "wait", "gone"} :
           At(spot) \in Resettings
    /\ Fresh \in [Resetters -> Resettings]
<1>1. 0 \in Times
  BY UsageAssumption DEF Times
<1>2. Unused \in Budgets
  BY <1>1 DEF Unused, Budgets
<1>3. ASSUME NEW spot \in {"look", "reset", "persist", "dump", "write", "sweep", "wait", "gone"}
      PROVE  At(spot) \in Resettings
  BY <1>1, <1>3 DEF At, Resettings
<1>4. Fresh \in [Resetters -> Resettings]
  BY <1>3 DEF Fresh, Resetters
<1> QED
  BY <1>1, <1>2, <1>3, <1>4

(* A plain step of a resetter.                                             *)
LEMMA StepTypes ==
    ASSUME TypeOK, NEW r \in Resetters, Step(r, "look") \/ Step(r, "reset") \/ Step(r, "persist")
               \/ Step(r, "dump") \/ Step(r, "write") \/ Step(r, "sweep") \/ Step(r, "wait")
               \/ Step(r, "gone")
    PROVE  resetter' \in [Resetters -> Resettings]
BY Zeros, ResettingTypes DEF Step

LEMMA InitInv == Init => IInv
<1> SUFFICES ASSUME Init PROVE IInv
  OBVIOUS
<1>1. [pc |-> "idle", attempt |-> "none", at |-> 0, clock |-> 0, raw |-> Unused] \in Settlements
  BY Zeros DEF Settlements
<1>2. TypeOK
  BY <1>1, Zeros, UsageAssumption DEF Init, TypeOK, Resetters
<1>3. Claims /\ BilledOnce
  BY DEF Init, Claims, BilledOnce, Counted
<1>4. DownQuiet
  BY DEF Init, DownQuiet
<1>5. Readings /\ CountedAreDone
  BY DEF Init, Readings, CountedAreDone, Uncounted, Unused, Resetters, Fresh, At
<1> QED
  BY <1>2, <1>3, <1>4, <1>5 DEF IInv

(* tryClaimBilling, BumpBudgetUsage and its swap.                          *)
LEMMA SettleTypes ==
    ASSUME TypeOK, NEW c \in Calls, NEW a \in Attempts, Settle(c, a)
    PROVE  TypeOK'
<1>1. PICK spot \in {"skipped", "bump", "free"} :
          call' = [call EXCEPT ![c].pc = spot, ![c].attempt = a, ![c].at = now]
  BY DEF Settle
<1>2. [call[c] EXCEPT !.pc = spot, !.attempt = a, !.at = now] \in Settlements
  BY DEF TypeOK, Settlements
<1>3. call' \in [Calls -> Settlements]
  BY <1>1, <1>2, SettlementTypes DEF TypeOK
<1>4. billed' \in [Attempts -> Times \cup {-1}]
  BY DEF Settle, TypeOK
<1> QED
  BY <1>3, <1>4 DEF Settle, TypeOK

LEMMA LoadTypes ==
    ASSUME TypeOK, NEW c \in Calls, Load(c)
    PROVE  TypeOK'
<1>1. [call[c] EXCEPT !.pc = "swap", !.clock = now, !.raw = mem] \in Settlements
  BY DEF TypeOK, Settlements
<1>2. call' \in [Calls -> Settlements]
  BY <1>1, SettlementTypes DEF Load, TypeOK
<1> QED
  BY <1>2 DEF Load, TypeOK

LEMMA SwapTypes ==
    ASSUME TypeOK, NEW c \in Calls, Swap(c)
    PROVE  TypeOK'
<1>1. call[c] \in Settlements
  BY DEF TypeOK
<1>2. call[c].raw \in Budgets /\ call[c].clock \in Times
  BY <1>1 DEF Settlements
<1>3. Bumped(c) \in Budgets
  BY <1>2 DEF Bumped, Budgets
<1>4. [calls |-> {}, since |-> Bumped(c).since] \in Budgets
  BY <1>3 DEF Budgets
<1>5. Done(c) \in Settlements
  BY <1>1, <1>4, Zeros DEF Done, Settlements
<1>6. [call[c] EXCEPT !.pc = "bump", !.clock = 0, !.raw = Unused] \in Settlements
  BY <1>1, Zeros DEF Settlements
<1>7. call' \in [Calls -> Settlements]
  BY <1>5, <1>6, SettlementTypes DEF Swap, TypeOK
<1>8. mem' \in Budgets
  BY <1>3 DEF Swap, TypeOK
<1> QED
  BY <1>7, <1>8 DEF Swap, TypeOK

(* The worker, the startup reset, their dump.                              *)
LEMMA ResetterTypes ==
    ASSUME TypeOK, NEW r \in Resetters, Look(r) \/ ResetBudgetAt(r) \/ Persist(r)
    PROVE  TypeOK'
<1> DEFINE s == [resetter[r] EXCEPT !.pc = "reset", !.target = Target(now), !.snap = mem.calls]
           p == [resetter[r] EXCEPT !.pc = "persist", !.snap = {}]
<1>1. resetter[r] \in Resettings /\ now \in Times /\ mem.calls \in SUBSET Calls
  BY DEF TypeOK, Budgets
<1>2. s \in Resettings /\ p \in Resettings
  BY <1>1, TargetBounds DEF Resettings
<1>3. [calls |-> {}, since |-> resetter[r].target] \in Budgets
  BY <1>1 DEF Budgets, Resettings
<1>4. Step(r, AfterReset(r)) => resetter' \in [Resetters -> Resettings]
  BY StepTypes DEF AfterReset
<1>5. [resetter EXCEPT ![r] = s] \in [Resetters -> Resettings]
  BY <1>2, ResettingTypes
<1>6. [resetter EXCEPT ![r] = p] \in [Resetters -> Resettings]
  BY <1>2, ResettingTypes
<1>7. CASE Look(r)
  BY <1>4, <1>5, <1>7 DEF Look, Decide, TypeOK
<1>8. CASE ResetBudgetAt(r)
  BY <1>3, <1>4, <1>6, <1>8 DEF ResetBudgetAt, TypeOK
<1>9. CASE Persist(r)
  BY <1>3, <1>4, <1>9 DEF Persist, TypeOK
<1> QED
  BY <1>7, <1>8, <1>9

LEMMA WorkerTypes ==
    ASSUME TypeOK, DumpRead \/ DumpFails \/ DumpWrite \/ SweepBilled \/ Tick \/ WorkerEnd \/ Started
    PROVE  TypeOK'
<1>1. "worker" \in Resetters /\ "starter" \in Resetters
  BY DEF Resetters
<1>2. resetter["worker"] \in Resettings
  BY <1>1 DEF TypeOK
<1>3. CASE DumpRead
  <2>1. [resetter["worker"] EXCEPT !.pc = "write", !.snap = mem.calls] \in Resettings
    BY <1>2 DEF TypeOK, Resettings, Budgets
  <2>2. resetter' \in [Resetters -> Resettings]
    BY <1>1, <1>3, <2>1, ResettingTypes DEF DumpRead, TypeOK
  <2> QED
    BY <1>3, <2>2 DEF DumpRead, TypeOK
<1>4. CASE DumpFails \/ DumpWrite \/ Tick \/ WorkerEnd
  <2>1. resetter' \in [Resetters -> Resettings]
    BY <1>1, <1>4, StepTypes DEF DumpFails, DumpWrite, Tick, WorkerEnd
  <2>2. [db EXCEPT !.calls = resetter["worker"].snap] \in Budgets
    BY <1>2 DEF TypeOK, Resettings, Budgets
  <2> QED
    BY <1>4, <2>1, <2>2 DEF DumpFails, DumpWrite, Tick, WorkerEnd, TypeOK
<1>5. CASE SweepBilled
  <2>1. resetter' \in [Resetters -> Resettings]
    BY <1>1, <1>5, StepTypes DEF SweepBilled
  <2>2. billed' \in [Attempts -> Times \cup {-1}]
    BY <1>5 DEF SweepBilled, TypeOK
  <2> QED
    BY <1>5, <2>1, <2>2 DEF SweepBilled, TypeOK
<1>6. CASE Started
  <2>1. resetter' \in [Resetters -> Resettings]
    BY <1>1, <1>6, StepTypes DEF Started
  <2> QED
    BY <1>6, <2>1 DEF Started, Enter, TypeOK
<1> QED
  BY <1>3, <1>4, <1>5, <1>6

(* Cleanup, a stop of the process and a new one, the clock.                *)
LEMMA PhaseTypes ==
    ASSUME TypeOK,
           Cleanup \/ FlushRead \/ FlushWrite \/ Joined \/ Down \/ Restart \/ Clock
    PROVE  TypeOK'
<1>1. CASE Cleanup \/ Joined
  BY <1>1 DEF Cleanup, Joined, Enter, TypeOK
<1>2. CASE FlushRead
  BY <1>2 DEF FlushRead, Enter, TypeOK, Budgets
<1>3. CASE FlushWrite
  <2>1. [db EXCEPT !.calls = flush] \in Budgets
    BY DEF TypeOK, Budgets
  <2> QED
    BY <1>3, <2>1 DEF FlushWrite, TypeOK
<1>4. CASE Down
  <2>1. ASSUME NEW c \in Calls
        PROVE  [call[c] EXCEPT !.pc = "old", !.at = 0, !.clock = 0, !.raw.calls = {}]
                  \in Settlements
    <3>1. call[c] \in Settlements
      BY DEF TypeOK
    <3>2. [call[c].raw EXCEPT !.calls = {}] \in Budgets
      BY <3>1 DEF Settlements, Budgets
    <3> QED
      BY <3>1, <3>2, Zeros DEF Settlements
  <2>2. call' \in [Calls -> Settlements]
    BY <1>4, <2>1 DEF Down, TypeOK
  <2>3. resetter' \in [Resetters -> Resettings]
    BY <1>4, Zeros DEF Down
  <2> QED
    BY <1>4, <2>2, <2>3 DEF Down, TypeOK
<1>5. CASE Restart
  <2>1. resetter' \in [Resetters -> Resettings]
    BY <1>5, Zeros DEF Restart
  <2>2. billed' \in [Attempts -> Times \cup {-1}]
    BY <1>5 DEF Restart
  <2>3. restarts' \in 0 .. MaxRestarts
    BY <1>5, UsageAssumption DEF Restart, TypeOK
  <2> QED
    BY <1>5, <2>1, <2>2, <2>3 DEF Restart, TypeOK
<1>6. CASE Clock
  BY <1>6, UsageAssumption DEF Clock, TypeOK, Times
<1> QED
  BY <1>1, <1>2, <1>3, <1>4, <1>5, <1>6

LEMMA NextTypes ==
    ASSUME TypeOK, Next
    PROVE  TypeOK'
<1>1. "worker" \in Resetters /\ "starter" \in Resetters
  BY DEF Resetters
<1> QED
  BY <1>1, SettleTypes, LoadTypes, SwapTypes, ResetterTypes, WorkerTypes, PhaseTypes
  DEF Next, Worker, Starter

(* What a swap does to its settlement.                                     *)
LEMMA SwapsOne ==
    ASSUME TypeOK, NEW c \in Calls, Swap(c)
    PROVE  /\ call[c].pc = "swap" /\ call'[c].pc \in {"bump", "done"}
           /\ call'[c].attempt = call[c].attempt /\ call'[c].at = call[c].at
           /\ \A d \in Calls : d # c => call'[d] = call[d]
<1>1. call \in [Calls -> Settlements] /\ call[c] \in Settlements
  BY DEF TypeOK
<1>2. CASE call' = [call EXCEPT ![c] = Done(c)]
  <2>1. /\ Done(c).pc = "done"
        /\ Done(c).attempt = call[c].attempt /\ Done(c).at = call[c].at
    BY <1>1 DEF Done, Settlements
  <2> HIDE DEF Done
  <2> QED
    BY <1>1, <1>2, <2>1 DEF Swap
<1>3. CASE call' = [call EXCEPT ![c].pc = "bump", ![c].clock = 0, ![c].raw = Unused]
  BY <1>1, <1>3 DEF Swap, Settlements
<1> QED
  BY <1>2, <1>3 DEF Swap

-----------------------------------------------------------------------------
(* Claims.                                                                 *)

(* Settlements that count keep their claim while the set of claims does    *)
(* not change and time passes.                                             *)
LEMMA ClaimsStay ==
    ASSUME IInv, TypeOK', billed' = billed, now' >= now,
           \A c \in Calls : call'[c].pc \in {"bump", "swap", "done"} =>
               /\ call[c].pc \in {"bump", "swap", "done"}
               /\ call'[c].attempt = call[c].attempt
               /\ call'[c].at = call[c].at
    PROVE  Claims' /\ BilledOnce'
<1>1. \A c \in Calls : call[c].at \in Int
  BY DEF IInv, TypeOK, Settlements, Times
<1>2. now \in Int /\ now' \in Int /\ BilledTTL \in Int
  BY UsageAssumption DEF IInv, TypeOK, Times
<1>3. Claims'
  BY <1>1, <1>2 DEF IInv, Claims, Counted
<1>4. BilledOnce'
  BY DEF IInv, BilledOnce
<1> QED
  BY <1>3, <1>4

(* tryClaimBilling: a claim is refused, or nobody counts the attempt: a    *)
(* sweep has taken the claim of an earlier settlement, which is then too   *)
(* long ago for this one to be of the same attempt.                        *)
LEMMA SettleClaims ==
    ASSUME IInv, NEW c \in Calls, NEW a \in Attempts, Settle(c, a)
    PROVE  Claims' /\ BilledOnce'
<1>0. PICK spot \in IF Claimed(a) THEN {"skipped"} ELSE {"bump", "free"} :
          call' = [call EXCEPT ![c].pc = spot, ![c].attempt = a, ![c].at = now]
  BY DEF Settle
<1>1. /\ call \in [Calls -> Settlements] /\ billed \in [Attempts -> Times \cup {-1}]
      /\ \A d \in Calls : call[d].at \in Int /\ call[d].at # -1
      /\ now \in Nat /\ BilledTTL \in Int /\ Life \in Int /\ Life <= BilledTTL
      /\ now' = now
  BY UsageAssumption DEF IInv, TypeOK, Times, Settlements, Settle
<1>2. /\ call'[c].pc = spot /\ call'[c].attempt = a /\ call'[c].at = now
      /\ \A d \in Calls : d # c => call'[d] = call[d]
  BY <1>0, <1>1 DEF Settlements
<1>3. CASE Claimed(a)
  <2>1. billed' = billed /\ spot = "skipped"
    BY <1>0, <1>1, <1>3 DEF Settle
  <2>2. Claims'
    BY <1>1, <1>2, <2>1 DEF IInv, Claims, Counted
  <2>3. BilledOnce'
    BY <1>1, <1>2, <2>1 DEF IInv, BilledOnce
  <2> QED
    BY <2>2, <2>3
<1>4. CASE ~Claimed(a)
  <2>1. ASSUME NEW d \in Counted, call[d].attempt = a PROVE FALSE
    <3>1. now - call[d].at > BilledTTL
      BY <1>1, <1>4, <2>1 DEF IInv, Claims, Claimed, Counted
    <3>2. now - call[d].at <= Life
      BY <2>1 DEF Settle, Counted
    <3> QED
      BY <1>1, <3>1, <3>2, <2>1 DEF Counted
  <2>2. /\ billed'[a] = now
        /\ \A b \in Attempts : b # a => billed'[b] = billed[b]
    BY <1>1, <1>4 DEF Settle
  <2>3. ASSUME NEW d \in Counted'
        PROVE  /\ call'[d].attempt \in Attempts
               /\ \/ billed'[call'[d].attempt] = call'[d].at
                  \/ now' - call'[d].at > BilledTTL
    <3>1. CASE d = c
      BY <1>2, <2>2, <3>1
    <3>2. CASE d # c
      <4>1. d \in Counted /\ call'[d] = call[d] /\ call[d].attempt # a
        BY <1>2, <2>1, <2>3, <3>2 DEF Counted
      <4>2. billed'[call[d].attempt] = billed[call[d].attempt]
        BY <1>1, <1>4, <4>1 DEF Settle
      <4> QED
        BY <1>1, <4>1, <4>2 DEF IInv, Claims
    <3> QED
      BY <3>1, <3>2
  <2>4. Claims'
    BY <2>3 DEF Claims
  <2>5. BilledOnce'
    BY <1>1, <1>2, <2>1 DEF IInv, BilledOnce, Counted
  <2> QED
    BY <2>4, <2>5
<1> QED
  BY <1>3, <1>4

(* sweepBilled: a swept claim is older than any settlement still to come.  *)
LEMMA SweepClaims ==
    ASSUME IInv, SweepBilled
    PROVE  Claims' /\ BilledOnce'
<1>1. call' = call /\ now' = now
  BY DEF SweepBilled
<1>2. ASSUME NEW d \in Counted
      PROVE  /\ call[d].attempt \in Attempts
             /\ \/ billed'[call[d].attempt] = call[d].at
                \/ now - call[d].at > BilledTTL
  <2>1. /\ billed \in [Attempts -> Times \cup {-1}]
        /\ call[d].at \in Nat /\ now \in Int /\ BilledTTL \in Int
    BY UsageAssumption DEF IInv, TypeOK, Settlements, Times, Counted
  <2>2. CASE billed[call[d].attempt] = call[d].at /\ call[d].attempt \in Attempts
    BY <2>1, <2>2 DEF SweepBilled
  <2>3. CASE now - call[d].at > BilledTTL
    BY <2>3 DEF IInv, Claims
  <2> QED
    BY <1>2, <2>2, <2>3 DEF IInv, Claims
<1>3. Claims'
  BY <1>1, <1>2 DEF Claims, Counted
<1> QED
  BY <1>1, <1>3 DEF IInv, BilledOnce

(* Every other step: the claims stay, or, when the process stops, there    *)
(* are none left.                                                          *)
LEMMA NextClaims ==
    ASSUME IInv, TypeOK', Next
    PROVE  Claims' /\ BilledOnce'
<1>1. CASE \E c \in Calls, a \in Attempts : Settle(c, a)
  BY <1>1, SettleClaims
<1>2. CASE SweepBilled
  BY <1>2, SweepClaims
<1>3. now \in Int /\ call \in [Calls -> Settlements]
  BY DEF IInv, TypeOK, Times
<1>4. CASE \E c \in Calls : Load(c) \/ Swap(c)
  <2>1. PICK c \in Calls : Load(c) \/ Swap(c)
    BY <1>4
  <2>2. /\ call[c].pc \in {"bump", "swap"}
        /\ call'[c].attempt = call[c].attempt /\ call'[c].at = call[c].at
        /\ \A d \in Calls : d # c => call'[d] = call[d]
    BY <1>3, <2>1, SwapsOne DEF Load, Settlements, IInv
  <2>3. billed' = billed /\ now' = now
    BY <2>1 DEF Load, Swap
  <2> QED
    BY <1>3, <2>2, <2>3, ClaimsStay
<1>5. CASE Down
  <2>1. \A c \in Calls : call'[c].pc \in {"idle", "old"}
    BY <1>3, <1>5 DEF Down, Settlements
  <2> QED
    BY <2>1 DEF Claims, BilledOnce, Counted
<1>6. CASE Restart
  BY <1>6 DEF Restart, IInv, DownQuiet, Claims, BilledOnce, Counted
<1>7. CASE UNCHANGED <<call, billed>> /\ now' \in {now, now + 1}
  BY <1>3, <1>7, ClaimsStay
<1>8. Worker \/ Starter => SweepBilled \/ (UNCHANGED <<call, billed>> /\ now' = now)
  BY DEF Worker, Starter, Look, ResetBudgetAt, Persist, DumpRead, DumpFails, DumpWrite, Tick,
         WorkerEnd, Started, Enter
<1>9. Cleanup \/ FlushRead \/ FlushWrite \/ Joined => UNCHANGED <<call, billed>> /\ now' = now
  BY DEF Cleanup, FlushRead, FlushWrite, Joined, Enter
<1>10. Clock => UNCHANGED <<call, billed>> /\ now' = now + 1
  BY DEF Clock
<1> QED
  BY <1>1, <1>2, <1>4, <1>5, <1>6, <1>7, <1>8, <1>9, <1>10 DEF Next

-----------------------------------------------------------------------------
(* A process that is down, and the readings.                               *)

(* Down stops everybody, and what runs is not down.                        *)
LEMMA NextQuiet ==
    ASSUME IInv, Next
    PROVE  DownQuiet'
<1>1. CASE Down
  <2>1. call \in [Calls -> Settlements]
    BY DEF IInv, TypeOK
  <2>2. \A c \in Calls : call'[c].pc \in {"idle", "old"}
    BY <1>1, <2>1 DEF Down, Settlements
  <2>3. \A r \in Resetters : resetter'[r].pc = "gone"
    BY <1>1 DEF Down, At
  <2> QED
    BY <2>2, <2>3 DEF DownQuiet
<1>2. CASE phase' # "down"
  BY <1>2 DEF DownQuiet
<1>3. CASE phase' = "down" /\ phase = "down" /\ UNCHANGED <<call, resetter>>
  BY <1>3 DEF IInv, DownQuiet
<1>4. Worker \/ Starter => phase' # "down"
  BY DEF Worker, Starter, Look, ResetBudgetAt, Persist, DumpRead, DumpFails, DumpWrite,
         SweepBilled, Tick, WorkerEnd, Started, Enter, Alive
<1>5. Cleanup \/ FlushRead \/ FlushWrite \/ Joined \/ Restart => phase' # "down"
  BY DEF Cleanup, FlushRead, FlushWrite, Joined, Enter, Restart
<1>6. \A c \in Calls : Load(c) \/ Swap(c) \/ (\E a \in Attempts : Settle(c, a)) => phase' # "down"
  BY DEF Load, Swap, Settle, Alive
<1>7. Clock => phase' = phase /\ UNCHANGED <<call, resetter>>
  BY DEF Clock
<1> QED
  BY <1>1, <1>2, <1>3, <1>4, <1>5, <1>6, <1>7 DEF Next

(* A step counts only the call that is done with it: the counts and the    *)
(* snapshots after it hold what those before it held.                      *)
LEMMA CountsStay ==
    ASSUME IInv,
           \A c \in Calls : call'[c].pc \notin {"done", "old"} => call[c].pc \notin {"done", "old"},
           mem'.calls \subseteq mem.calls \cup db.calls,
           db'.calls \subseteq db.calls \cup flush \cup UNION {resetter[r].snap : r \in Resetters},
           flush' \subseteq flush \cup mem.calls,
           \A r \in Resetters : resetter'[r].snap \subseteq resetter[r].snap \cup mem.calls
    PROVE  CountedAreDone'
BY DEF IInv, CountedAreDone, Uncounted

(* What a resetter holds after its plain step.                             *)
LEMMA Stepped ==
    ASSUME TypeOK, NEW r \in Resetters, NEW spot, Step(r, spot)
    PROVE  /\ resetter'[r].pc = spot /\ resetter'[r].snap = {}
           /\ \A q \in Resetters : q # r => resetter'[q] = resetter[q]
BY DEF Step, At, TypeOK

(* What ResetExpiredBudgetsInMemory decides: the snapshot is the count.    *)
LEMMA Looked ==
    ASSUME TypeOK, NEW r \in Resetters, Look(r)
    PROVE  /\ \A q \in Resetters : q # r => resetter'[q] = resetter[q]
           /\ \/ resetter'[r].pc # "reset" /\ resetter'[r].snap = {}
              \/ /\ resetter'[r].target = Target(now) /\ resetter'[r].snap = mem.calls
                 /\ Ended(mem.since, now)
<1>1. AfterReset(r) # "reset"
  BY DEF AfterReset
<1>2. CASE Decide(r) /\ Ended(mem.since, now)
  BY <1>2 DEF Decide, TypeOK, Resettings
<1>3. CASE Step(r, AfterReset(r))
  BY <1>1, <1>3, Stepped
<1> QED
  BY <1>2, <1>3 DEF Look

(* ResetBudgetAt is over for its resetter, whether it found work or not.   *)
LEMMA ResetOver ==
    ASSUME TypeOK, NEW r \in Resetters, ResetBudgetAt(r)
    PROVE  /\ resetter'[r].pc # "reset" /\ resetter'[r].snap = {}
           /\ \A q \in Resetters : q # r => resetter'[q] = resetter[q]
<1>1. AfterReset(r) # "reset"
  BY DEF AfterReset
<1>2. CASE resetter' = [resetter EXCEPT ![r].pc = "persist", ![r].snap = {}]
  BY <1>2 DEF TypeOK, Resettings
<1>3. CASE Step(r, AfterReset(r))
  BY <1>1, <1>3, Stepped
<1> QED
  BY <1>2, <1>3 DEF ResetBudgetAt

(* A swap counts its own call, in the old window or in one of its own.     *)
LEMMA SwapCounts ==
    ASSUME IInv, NEW c \in Calls, Swap(c)
    PROVE  CountedAreDone'
<1>1. /\ \A d \in Calls : d # c => call'[d] = call[d]
      /\ call[c].pc = "swap" /\ call \in [Calls -> Settlements] /\ mem \in Budgets
  BY SwapsOne DEF IInv, TypeOK
<1>2. UNCHANGED <<db, flush, resetter>>
  BY DEF Swap
<1>3. CASE mem' = mem
  BY <1>1, <1>2, <1>3 DEF IInv, CountedAreDone, Uncounted
<1>4. CASE call[c].raw = mem /\ mem' = Bumped(c) /\ call' = [call EXCEPT ![c] = Done(c)]
  <2>1. mem'.calls \subseteq mem.calls \cup {c}
    BY <1>1, <1>4 DEF Bumped, Budgets
  <2>2. call'[c].pc = "done"
    BY <1>1, <1>4 DEF Done, Settlements
  <2> QED
    BY <1>1, <1>2, <2>1, <2>2 DEF IInv, CountedAreDone, Uncounted
<1> QED
  BY <1>3, <1>4 DEF Swap

LEMMA NextCounts ==
    ASSUME IInv, Next
    PROVE  CountedAreDone'
<1> DEFINE Behind ==
        \A c \in Calls : call'[c].pc \notin {"done", "old"} => call[c].pc \notin {"done", "old"}
<1>1. /\ TypeOK /\ call \in [Calls -> Settlements] /\ resetter \in [Resetters -> Resettings]
      /\ "worker" \in Resetters /\ "starter" \in Resetters /\ db \in Budgets
  BY DEF IInv, TypeOK, Resetters
<1>2. ASSUME NEW c \in Calls, Load(c) \/ \E a \in Attempts : Settle(c, a)
      PROVE  CountedAreDone'
  <2>1. UNCHANGED <<mem, db, flush, resetter>>
    BY <1>2 DEF Settle, Load
  <2>2. Behind
    BY <1>1, <1>2 DEF Settle, Load, Settlements
  <2> HIDE DEF Behind
  <2> QED
    BY <2>1, <2>2, CountsStay DEF Behind
<1>3. ASSUME NEW r \in Resetters, Look(r) \/ ResetBudgetAt(r) \/ Persist(r)
      PROVE  CountedAreDone'
  <2>1. \A q \in Resetters : resetter'[q].snap \subseteq resetter[q].snap \cup mem.calls
    BY <1>1, <1>3, Looked, ResetOver, Stepped DEF Persist
  <2>2. /\ UNCHANGED <<call, flush>>
        /\ mem'.calls \subseteq mem.calls /\ db'.calls \subseteq db.calls
    BY <1>3 DEF Look, ResetBudgetAt, Persist
  <2> QED
    BY <2>1, <2>2, CountsStay
<1>4. CASE DumpRead
  <2>1. \A q \in Resetters : resetter'[q].snap \subseteq resetter[q].snap \cup mem.calls
    BY <1>1, <1>4 DEF DumpRead, Resettings
  <2> QED
    BY <1>4, <2>1, CountsStay DEF DumpRead
<1>5. CASE DumpFails \/ DumpWrite \/ SweepBilled \/ Tick \/ WorkerEnd \/ Started
  <2>1. \A q \in Resetters : resetter'[q].snap \subseteq resetter[q].snap
    BY <1>1, <1>5, Stepped DEF DumpFails, DumpWrite, SweepBilled, Tick, WorkerEnd, Started
  <2>2. UNCHANGED <<call, mem, flush>>
    BY <1>5 DEF DumpFails, DumpWrite, SweepBilled, Tick, WorkerEnd, Started, Enter
  <2>3. db'.calls \subseteq db.calls \cup resetter["worker"].snap
    BY <1>1, <1>5 DEF DumpFails, DumpWrite, SweepBilled, Tick, WorkerEnd, Started, Enter, Budgets
  <2> QED
    BY <1>1, <2>1, <2>2, <2>3, CountsStay
<1>6. CASE Cleanup \/ FlushRead \/ FlushWrite \/ Joined \/ Clock
  <2>1. UNCHANGED <<call, mem, resetter>> /\ flush' \subseteq flush \cup mem.calls
    BY <1>6 DEF Cleanup, FlushRead, FlushWrite, Joined, Clock, Enter
  <2>2. db'.calls \subseteq db.calls \cup flush
    BY <1>1, <1>6 DEF Cleanup, FlushRead, FlushWrite, Joined, Clock, Enter, Budgets
  <2> QED
    BY <2>1, <2>2, CountsStay
<1>7. CASE Down
  <2>1. Behind
    BY <1>1, <1>7 DEF Down, Settlements
  <2>2. \A r \in Resetters : resetter'[r].snap = {}
    BY <1>7 DEF Down, At
  <2> HIDE DEF Behind
  <2> QED
    BY <1>7, <2>1, <2>2, CountsStay DEF Down, Behind
<1>8. CASE Restart
  <2>1. \A r \in Resetters : resetter'[r].snap = {}
    BY <1>8 DEF Restart, Fresh, At, Resetters
  <2> QED
    BY <1>8, <2>1, CountsStay DEF Restart
<1>9. CASE Worker \/ Starter
  BY <1>1, <1>3, <1>4, <1>5, <1>9 DEF Worker, Starter
<1> HIDE DEF Behind
<1> QED
  BY <1>2, <1>6, <1>7, <1>8, <1>9, SwapCounts DEF Next

(* The readings age well: whoever could act before a step still has what   *)
(* it read, or has read it in this step, while the budget keeps its window *)
(* and the clock does not go back.                                         *)
LEMMA ReadingsStay ==
    ASSUME IInv, TypeOK', aligned' = aligned, mem' = mem, now' >= now,
           \A c \in Calls : call'[c].pc = "swap" =>
               (call[c].pc = "swap" /\ call'[c].clock = call[c].clock) \/ call'[c].clock = now,
           \A r \in Resetters : resetter'[r].pc = "reset" =>
               \/ resetter'[r] = resetter[r]
               \/ resetter'[r].target = Target(now) /\ Ended(mem.since, now)
    PROVE  Readings'
<1>1. /\ now \in Times /\ now' \in Times /\ mem.since \in Times /\ now \in Int /\ now' \in Int
      /\ \A c \in Calls : call[c].clock \in Int
      /\ \A r \in Resetters : resetter[r].target \in Int
  BY DEF IInv, TypeOK, Times, Budgets, Settlements, Resettings
<1>2. /\ PeriodStart(now) <= PeriodStart(now')
      /\ PeriodStart(now) \in Int /\ PeriodStart(now') \in Int
  BY <1>1, PeriodsGrow, PeriodBounds
<1>3. ASSUME NEW c \in Calls, call'[c].pc = "swap" PROVE call'[c].clock <= now'
  BY <1>1, <1>3 DEF IInv, Readings
<1>4. Over(mem.since) => Over(mem.since)'
  <2>1. /\ now - mem.since >= Duration => now' - mem.since >= Duration
        /\ PeriodStart(now) > mem.since => PeriodStart(now') > mem.since
    BY <1>1, OverStays
  <2> QED
    BY <2>1 DEF Over, PeriodStart
<1>5. ASSUME NEW r \in Resetters, resetter'[r].pc = "reset"
      PROVE  /\ aligned' => resetter'[r].target <= PeriodStart(now')
             /\ Over(mem.since)' \/ resetter'[r].snap \cap mem'.calls = {}
  <2>1. CASE resetter'[r] = resetter[r]
    BY <1>1, <1>2, <1>4, <1>5, <2>1 DEF IInv, Readings
  <2>2. CASE resetter'[r].target = Target(now) /\ Ended(mem.since, now)
    <3>1. Over(mem.since)
      BY <2>2 DEF Ended, Over
    <3> QED
      BY <1>2, <1>4, <2>2, <3>1 DEF Target
  <2> QED
    BY <1>5, <2>1, <2>2
<1>6. PeriodStart(now)' = PeriodStart(now')
  BY DEF PeriodStart
<1> QED
  BY <1>3, <1>5, <1>6 DEF Readings

(* A bump that keeps the window adds a call no reset has seen; one that    *)
(* opens a window leaves only such a call in it.                           *)
LEMMA SwapReadings ==
    ASSUME IInv, TypeOK', NEW c \in Calls, Swap(c)
    PROVE  Readings'
<1>1. /\ call \in [Calls -> Settlements] /\ mem \in Budgets /\ now \in Int
      /\ UNCHANGED <<now, aligned, resetter>>
  BY DEF Swap, IInv, TypeOK, Times
<1>2. /\ call[c].pc = "swap" /\ call'[c].pc # "swap"
      /\ \A d \in Calls : d # c => call'[d] = call[d]
  BY SwapsOne DEF IInv
<1>3. CASE mem' = mem
  BY <1>1, <1>2, <1>3, ReadingsStay
<1>4. CASE mem' = Bumped(c) /\ call[c].raw = mem
  <2>1. \/ mem'.since = mem.since /\ mem'.calls = mem.calls \cup {c}
        \/ mem'.calls = {c}
    BY <1>1, <1>4 DEF Bumped, Budgets
  <2>2. \A r \in Resetters : c \notin resetter[r].snap
    BY <1>2 DEF IInv, CountedAreDone, Uncounted
  <2>3. Over(mem.since) /\ mem'.since = mem.since => Over(mem.since)'
    BY <1>1 DEF Over, PeriodStart
  <2>4. ASSUME NEW r \in Resetters, resetter'[r].pc = "reset"
        PROVE  /\ aligned' => resetter'[r].target <= PeriodStart(now)'
               /\ Over(mem.since)' \/ resetter'[r].snap \cap mem'.calls = {}
    <3>1. /\ aligned => resetter[r].target <= PeriodStart(now)
          /\ Over(mem.since) \/ resetter[r].snap \cap mem.calls = {}
      BY <1>1, <2>4 DEF IInv, Readings
    <3> QED
      BY <1>1, <2>1, <2>2, <2>3, <3>1 DEF PeriodStart
  <2> QED
    BY <1>1, <1>2, <2>4 DEF IInv, Readings
<1> QED
  BY <1>3, <1>4 DEF Swap

(* A reset leaves no calls.                                                *)
LEMMA ResetReadings ==
    ASSUME IInv, TypeOK', NEW r \in Resetters, ResetBudgetAt(r)
    PROVE  Readings'
<1>1. /\ UNCHANGED <<now, aligned, call>> /\ now \in Int /\ TypeOK
      /\ \A c \in Calls : call[c].clock \in Int
  BY DEF ResetBudgetAt, IInv, TypeOK, Times, Settlements
<1>2. /\ resetter'[r].pc # "reset"
      /\ \A q \in Resetters : q # r => resetter'[q] = resetter[q]
  BY <1>1, ResetOver
<1>3. CASE mem' = mem
  BY <1>1, <1>2, <1>3, ReadingsStay
<1>4. CASE mem'.calls = {}
  BY <1>1, <1>2, <1>4 DEF IInv, Readings, PeriodStart
<1> QED
  BY <1>3, <1>4 DEF ResetBudgetAt

LEMMA NextReadings ==
    ASSUME IInv, TypeOK', Next
    PROVE  Readings'
<1>1. /\ call \in [Calls -> Settlements] /\ TypeOK /\ now \in Int
      /\ "worker" \in Resetters /\ "starter" \in Resetters
  BY DEF IInv, TypeOK, Resetters, Times
<1>2. ASSUME NEW c \in Calls, NEW a \in Attempts, Settle(c, a)
      PROVE  Readings'
  <2>1. PICK spot \in {"skipped", "bump", "free"} :
            call' = [call EXCEPT ![c].pc = spot, ![c].attempt = a, ![c].at = now]
    BY <1>2 DEF Settle
  <2>2. \A d \in Calls : call'[d].pc = "swap" => call[d].pc = "swap" /\ call'[d].clock = call[d].clock
    BY <1>1, <2>1 DEF Settlements
  <2>3. UNCHANGED <<now, aligned, mem, resetter>>
    BY <1>2 DEF Settle
  <2> QED
    BY <1>1, <2>2, <2>3, ReadingsStay
<1>3. ASSUME NEW c \in Calls, Load(c) PROVE Readings'
  <2>1. \A d \in Calls : call'[d].pc = "swap" =>
            (call[d].pc = "swap" /\ call'[d].clock = call[d].clock) \/ call'[d].clock = now
    BY <1>1, <1>3 DEF Load, Settlements
  <2>2. UNCHANGED <<now, aligned, mem, resetter>>
    BY <1>3 DEF Load
  <2> QED
    BY <1>1, <2>1, <2>2, ReadingsStay
<1>4. ASSUME NEW r \in Resetters, Look(r) PROVE Readings'
  <2>1. UNCHANGED <<now, aligned, mem, call>>
    BY <1>4 DEF Look
  <2>2. \A q \in Resetters : resetter'[q].pc = "reset" =>
            \/ resetter'[q] = resetter[q]
            \/ resetter'[q].target = Target(now) /\ Ended(mem.since, now)
    BY <1>1, <1>4, Looked
  <2> QED
    BY <1>1, <2>1, <2>2, ReadingsStay
<1>5. CASE /\ UNCHANGED <<now, aligned, mem, call>>
           /\ \A q \in Resetters : resetter'[q].pc = "reset" => resetter'[q] = resetter[q]
  BY <1>1, <1>5, ReadingsStay
<1>6. ASSUME NEW r \in Resetters, Persist(r) PROVE Readings'
  <2>1. AfterReset(r) # "reset"
    BY DEF AfterReset
  <2> QED
    BY <1>1, <1>5, <1>6, <2>1, Stepped DEF Persist
<1>7. CASE DumpRead \/ DumpFails \/ DumpWrite \/ SweepBilled \/ Tick \/ WorkerEnd \/ Started
  <2>1. UNCHANGED <<now, aligned, mem, call>>
    BY <1>7 DEF DumpRead, DumpFails, DumpWrite, SweepBilled, Tick, WorkerEnd, Started, Enter
  <2>2. \A q \in Resetters : resetter'[q].pc = "reset" => resetter'[q] = resetter[q]
    BY <1>1, <1>7 DEF DumpRead, DumpFails, DumpWrite, SweepBilled, Tick, WorkerEnd, Started,
                      Step, At, TypeOK, Resettings
  <2> QED
    BY <1>5, <2>1, <2>2
<1>8. CASE Cleanup \/ FlushRead \/ FlushWrite \/ Joined
  BY <1>5, <1>8 DEF Cleanup, FlushRead, FlushWrite, Joined, Enter
<1>9. CASE Down
  <2>1. \A d \in Calls : call'[d].pc # "swap"
    BY <1>1, <1>9 DEF Down, Settlements
  <2>2. \A q \in Resetters : resetter'[q].pc # "reset"
    BY <1>9 DEF Down, At
  <2> QED
    BY <2>1, <2>2 DEF Readings
<1>10. CASE Restart
  <2>1. \A d \in Calls : call'[d].pc # "swap"
    BY <1>10 DEF Restart, IInv, DownQuiet
  <2>2. \A q \in Resetters : resetter'[q].pc # "reset"
    BY <1>10 DEF Restart, At, Fresh, Resetters
  <2> QED
    BY <2>1, <2>2 DEF Readings
<1>11. CASE Clock
  BY <1>1, <1>11, ReadingsStay DEF Clock
<1> QED
  BY <1>1, <1>2, <1>3, <1>4, <1>6, <1>7, <1>8, <1>9, <1>10, <1>11, SwapReadings, ResetReadings
  DEF Next, Worker, Starter

-----------------------------------------------------------------------------
(* The inductive invariant: who may raise the budget has the claim of its  *)
(* attempt, who has not raised it is in no count, and what a bump or a     *)
(* reset has read it read at a time that has come.                         *)
THEOREM Invariance == Init /\ [][Next]_vars => []IInv
<1>1. IInv /\ [Next]_vars => IInv'
  <2>1. ASSUME IInv, Next PROVE IInv'
    <3>1. TypeOK'
      BY <2>1, NextTypes DEF IInv
    <3> QED
      BY <2>1, <3>1, NextClaims, NextQuiet, NextCounts, NextReadings DEF IInv
  <2>2. ASSUME IInv, UNCHANGED vars PROVE IInv'
    BY <2>2 DEF vars, IInv, TypeOK, Claims, Counted, DownQuiet, BilledOnce, CountedAreDone,
                Uncounted, Readings, Over, PeriodStart
  <2> QED
    BY <2>1, <2>2
<1> QED
  BY InitInv, <1>1, PTL

(* Every variable of the tracker keeps its type.                           *)
THEOREM UsageTypes == Spec => []TypeOK
<1>1. IInv => TypeOK
  BY DEF IInv
<1> QED
  BY <1>1, Invariance, PTL DEF Spec

(* tryClaimBilling and sweepBilled let one of the settlements of a         *)
(* provider call raise the budget, however long they lie apart.            *)
THEOREM AttemptsBilledOnce == Spec => []BilledOnce
<1>1. IInv => BilledOnce
  BY DEF IInv
<1> QED
  BY <1>1, Invariance, PTL DEF Spec

-----------------------------------------------------------------------------
(* What leaves the budget early.                                           *)

(* A bump never takes a window that is not over: the time it read has come.*)
LEMMA SwapTakesNone ==
    ASSUME IInv, NEW c \in Calls, Swap(c)
    PROVE  TakenEarly = {}
<1>1. /\ now \in Int /\ mem \in Budgets /\ mem.since \in Int /\ Duration \in Int
      /\ call[c].clock \in Int /\ call[c].clock <= now
  BY UsageAssumption DEF Swap, IInv, TypeOK, Readings, Budgets, Times, Settlements
<1>2. CASE mem' = mem
  BY <1>2 DEF TakenEarly
<1>3. CASE mem' = Bumped(c) /\ call[c].raw = mem
  <2>1. CASE call[c].clock - mem.since >= Duration
    BY <1>1, <2>1 DEF TakenEarly, Over
  <2>2. CASE ~(call[c].clock - mem.since >= Duration)
    BY <1>1, <1>3, <2>2 DEF TakenEarly, Bumped, Budgets
  <2> QED
    BY <2>1, <2>2
<1> QED
  BY <1>2, <1>3 DEF Swap

(* A reset takes calls early from no aligned budget, whose new period has  *)
(* begun, and none that it had seen.                                       *)
LEMMA ResetTakes ==
    ASSUME IInv, NEW r \in Resetters, ResetBudgetAt(r), NEW c \in TakenEarly
    PROVE  /\ ~aligned /\ resetter[r].pc = "reset" /\ c \notin resetter[r].snap
           /\ mem.since < resetter[r].target
<1>1. ~Over(mem.since) /\ c \in mem.calls /\ c \notin mem'.calls
  BY DEF TakenEarly
<1>2. resetter[r].pc = "reset" /\ mem.since < resetter[r].target
  BY <1>1 DEF ResetBudgetAt
<1>3. /\ aligned => resetter[r].target <= PeriodStart(now)
      /\ resetter[r].snap \cap mem.calls = {}
  BY <1>1, <1>2 DEF IInv, Readings
<1>4. mem.since \in Int /\ resetter[r].target \in Int /\ PeriodStart(now) \in Int
  BY PeriodBounds DEF IInv, TypeOK, Budgets, Resettings, Times
<1>5. ~aligned
  BY <1>1, <1>2, <1>3, <1>4 DEF Over
<1> QED
  BY <1>1, <1>2, <1>3, <1>5

(* Whatever the clock does between a reading and the swap that uses it, a  *)
(* counted call is lost early only to a reset that had not seen it and     *)
(* whose reading is later than the start of its window: to the race of     *)
(* ResetBudgetAt with a bump that has just opened the window, and for no   *)
(* aligned budget.                                                         *)
THEOREM LossesAreRaces == Spec => LostInRaceOnly
<1> DEFINE A == \A c \in TakenEarly :
                  /\ ~aligned
                  /\ \E r \in Resetters :
                        /\ resetter[r].pc = "reset" /\ c \notin resetter[r].snap
                        /\ mem.since < resetter[r].target
<1>1. ASSUME IInv, [Next]_vars PROVE [A]_vars
  <2>1. CASE \E c \in Calls : Swap(c)
    BY <1>1, <2>1, SwapTakesNone
  <2>2. CASE \E r \in Resetters : ResetBudgetAt(r)
    BY <1>1, <2>2, ResetTakes
  <2>3. CASE mem' = mem \/ phase = "down"
    BY <2>3 DEF TakenEarly
  <2>4. Next => \/ \E c \in Calls : Swap(c)
                \/ \E r \in Resetters : ResetBudgetAt(r)
                \/ mem' = mem \/ phase = "down"
    <3>1. ASSUME NEW c \in Calls, NEW a \in Attempts, Settle(c, a)
          PROVE  mem' = mem
      BY <3>1 DEF Settle
    <3>2. Worker \/ Starter => mem' = mem \/ \E r \in Resetters : ResetBudgetAt(r)
      BY DEF Worker, Starter, Look, Persist, DumpRead, DumpFails, DumpWrite, SweepBilled,
             Tick, WorkerEnd, Started, Enter, Resetters
    <3>3. Cleanup \/ FlushRead \/ FlushWrite \/ Joined \/ Down \/ Restart \/ Clock
             => mem' = mem \/ phase = "down"
      BY DEF Cleanup, FlushRead, FlushWrite, Joined, Down, Restart, Clock, Enter
    <3>4. ASSUME NEW c \in Calls, Load(c) PROVE mem' = mem
      BY <3>4 DEF Load
    <3> QED
      BY <3>1, <3>2, <3>3, <3>4 DEF Next
  <2> QED
    BY <1>1, <2>1, <2>2, <2>3, <2>4
<1>2. IInv /\ [Next]_vars => [A]_vars
  BY <1>1
<1> QED
  BY <1>2, Invariance, PTL DEF Spec, LostInRaceOnly

-----------------------------------------------------------------------------
(* The logging plugin: its write path's invariant says that the timer's    *)
(* flag tells the truth, that an entry which has left is stored or counted,*)
(* and what the writer and Cleanup hand over to each other.                *)

(* The timer runs while its flag says so. *)
TimerTruthful == running <=> timer # "off"

(* An entry that has left is stored or counted as dropped. *)
NothingVanishes == \A e \in Entries : place[e] = "out" => e \in stored \cup counted

(* Cleanup goes on when the writer is gone, which leaves no batch, and     *)
(* closes the queue when it has drained what it took over.                 *)
HandedOver ==
    /\ cleanup \in {"pull", "drain", "join", "over"} => writer = "gone"
    /\ writer = "gone" => In("batch") = {}
    /\ cleanup \in {"join", "over"} => In("recovered") = {}

(* A new entry is in no list. *)
Unlisted == \A e \in Entries : place[e] = "new" => boxOf[e] = 0

LogInv == LogTypeOK /\ Unlisted /\ TimerTruthful /\ PartialBatchTimed
          /\ NothingVanishes /\ HandedOver

(* What a move does to a set of entries in one place. *)
LEMMA Moved ==
    ASSUME LogTypeOK, NEW E \in SUBSET Entries, NEW p \in Places, Move(E, p)
    PROVE  /\ place' \in [Entries -> Places]
           /\ In(p)' = In(p) \cup E
           /\ \A q \in Places : q # p => In(q)' = In(q) \ E
           /\ \A e \in Entries : place'[e] = IF e \in E THEN p ELSE place[e]
<1>1. \A e \in Entries : place'[e] = IF e \in E THEN p ELSE place[e]
  BY DEF Move
<1>2. place' \in [Entries -> Places]
  BY DEF Move, LogTypeOK
<1>3. In(p)' = In(p) \cup E
  BY <1>1 DEF In
<1>4. \A q \in Places : q # p => In(q)' = In(q) \ E
  BY <1>1 DEF In
<1> QED
  BY <1>1, <1>2, <1>3, <1>4

(* The numbers of the lists. *)
LEMMA ListNumbers ==
    Cardinality(Entries) \in Nat /\ Boxes = 0..Cardinality(Entries) /\ 0 \in Boxes
BY LogAssumption, FS_CardinalityType DEF Boxes

(* The number of a new list is one: the entry is in none yet.              *)
LEMMA NewBox ==
    ASSUME LogTypeOK, Unlisted, NEW e \in Entries, place[e] = "new"
    PROVE  1 + Cardinality({boxOf[d] : d \in Entries} \ {0}) \in Boxes
<1> DEFINE D == Entries \ {e}
           f == [d \in D |-> boxOf[d]]
           T == {boxOf[d] : d \in D}
           B == {boxOf[d] : d \in Entries} \ {0}
<1>1. IsFiniteSet(D) /\ Cardinality(D) = Cardinality(Entries) - 1 /\ Cardinality(Entries) \in Nat
  BY ListNumbers, LogAssumption, FS_RemoveElement
<1>2. f \in Surjection(D, T)
  BY DEF Surjection
<1>3. IsFiniteSet(T) /\ Cardinality(T) <= Cardinality(D) /\ Cardinality(T) \in Nat
  BY <1>1, <1>2, FS_Surjection, FS_CardinalityType
<1>4. B \subseteq T
  BY DEF Unlisted
<1>5. Cardinality(B) <= Cardinality(T) /\ Cardinality(B) \in Nat
  BY <1>3, <1>4, FS_Subset, FS_CardinalityType
<1> QED
  BY <1>1, <1>3, <1>5, ListNumbers

(* What a step of a producer must establish.                               *)
LEMMA ProducerStep ==
    ASSUME LogInv, UNCHANGED <<writerVars, stopVars>>,
           NEW E \in SUBSET Entries, NEW p \in Places \ {"new", "batch", "recovered"},
           Move(E, p), p = "out" => E \subseteq counted',
           UNCHANGED stored, counted \subseteq counted', counted' \subseteq Entries,
           box' \in Boxes, boxOf' \in [Entries -> Boxes],
           \A e \in Entries \ E : boxOf'[e] = boxOf[e],
           inject' \in [pc : {"idle", "taken", "over"}, box : Boxes],
           deferred' \in [Deferring -> {"none", "waiting", "updating", "over"}]
    PROVE  LogInv'
<1>1. /\ place' \in [Entries -> Places]
      /\ In("batch")' = In("batch") \ E /\ In("recovered")' = In("recovered") \ E
      /\ \A e \in Entries : place'[e] = IF e \in E THEN p ELSE place[e]
  BY Moved DEF LogInv, Places
<1>2. LogTypeOK'
  BY <1>1 DEF LogInv, LogTypeOK, writerVars, stopVars
<1>3. Unlisted'
  BY <1>1 DEF LogInv, Unlisted
<1>4. TimerTruthful' /\ PartialBatchTimed'
  BY <1>1 DEF LogInv, TimerTruthful, PartialBatchTimed, writerVars
<1>5. NothingVanishes'
  BY <1>1 DEF LogInv, NothingVanishes
<1>6. HandedOver'
  BY <1>1 DEF LogInv, HandedOver, writerVars, stopVars
<1> QED
  BY <1>2, <1>3, <1>4, <1>5, <1>6 DEF LogInv

(* storeOrEnqueueEntry, Inject, the sends and the stale lists. *)
LEMMA ProduceKeeps ==
    ASSUME LogInv, Produce
    PROVE  LogInv'
<1>1. /\ box \in Boxes /\ boxOf \in [Entries -> Boxes] /\ 0 \in Boxes
      /\ inject \in [pc : {"idle", "taken", "over"}, box : Boxes]
      /\ deferred \in [Deferring -> {"none", "waiting", "updating", "over"}]
      /\ counted \subseteq Entries
      /\ Move({}, "held") <=> UNCHANGED place
  <2>1. LogTypeOK /\ 0 \in Boxes
    BY ListNumbers DEF LogInv
  <2>2. Move({}, "held") <=> UNCHANGED place
    BY <2>1 DEF Move, LogTypeOK
  <2> QED
    BY <2>1, <2>2 DEF LogTypeOK
<1>2. ASSUME NEW e \in Entries, Direct(e) \/ Append(e) \/ EnqueueLogEntry(e) \/ Send(e)
      PROVE  LogInv'
  <2>1. PICK p \in Places \ {"new", "batch", "recovered"} :
           Move({e}, p) /\ (p = "out" => counted' = counted \cup {e})
           /\ (p # "out" => counted' = counted)
    BY <1>2 DEF Direct, Append, EnqueueLogEntry, Send, Count, Places,
       storeVars
  <2>2. UNCHANGED <<traceVars, writerVars, stopVars, stored>>
    BY <1>2 DEF Direct, Append, EnqueueLogEntry, Send, storeVars
  <2> QED
    BY <1>1, <2>1, <2>2, ProducerStep DEF traceVars
<1>3. ASSUME NEW e \in Entries, Hold(e) PROVE LogInv'
  <2>1. /\ UNCHANGED <<inject, deferred, stored, counted, writerVars, stopVars>>
        /\ place[e] = "new"
    BY <1>3 DEF Hold, storeVars
  <2>2. PICK p \in {"held", "append"} : Move({e}, p)
    BY <1>3 DEF Hold
  <2>3. box' \in Boxes /\ boxOf' = [boxOf EXCEPT ![e] = box']
    BY <1>1, <1>3, <2>1, NewBox DEF Hold, LogInv
  <2>4. boxOf' \in [Entries -> Boxes] /\ \A d \in Entries \ {e} : boxOf'[d] = boxOf[d]
    BY <1>1, <2>3
  <2> QED
    BY <1>1, <2>1, <2>2, <2>3, <2>4, ProducerStep DEF Places
<1>4. CASE InjectTake
  <2>1. inject' \in [pc : {"idle", "taken", "over"}, box : Boxes]
    BY <1>1, <1>4 DEF InjectTake
  <2> QED
    BY <1>1, <1>4, <2>1, ProducerStep DEF InjectTake, storeVars, Places
<1>5. CASE InjectRange
  <2>1. inject' \in [pc : {"idle", "taken", "over"}, box : Boxes]
    BY <1>1, <1>5 DEF InjectRange
  <2>2. PICK E \in SUBSET Entries : Move(E, "ready")
    BY <1>5 DEF InjectRange, In
  <2> QED
    BY <1>1, <1>5, <2>1, <2>2, ProducerStep DEF InjectRange, storeVars, Places
<1>6. CASE Reap
  <2>1. PICK E \in SUBSET Entries : Move(E, "reaped")
    BY <1>6 DEF Reap, In
  <2> QED
    BY <1>1, <1>6, <2>1, ProducerStep DEF Reap, storeVars, Places
<1>7. ASSUME NEW e \in Deferring, Schedule(e) PROVE LogInv'
  <2>1. /\ deferred' = [deferred EXCEPT ![e] = "waiting"]
        /\ UNCHANGED <<place, box, boxOf, inject, storeVars, writerVars, stopVars>>
    BY <1>7 DEF Schedule, Defer
  <2> QED
    BY <1>1, <2>1, ProducerStep DEF storeVars, Places
<1> QED
  BY <1>2, <1>3, <1>4, <1>5, <1>6, <1>7, LogAssumption DEF Produce

(* The deferred usage updates touch no entry's place. *)
LEMMA DeferredKeeps ==
    ASSUME LogInv, Deferred
    PROVE  LogInv'
<1>1. PICK e \in Deferring, to \in {"updating", "over"} :
         /\ deferred' = [deferred EXCEPT ![e] = to]
         /\ UNCHANGED <<place, box, boxOf, inject, storeVars, writerVars,
                        stopVars>>
  BY DEF Deferred, Arrives, Update, Defer
<1>2. Move({}, "held")
  BY <1>1 DEF Move, LogInv, LogTypeOK
<1>3. LogTypeOK
  BY DEF LogInv
<1> QED
  BY <1>1, <1>2, <1>3, ProducerStep DEF storeVars, Places, LogTypeOK

(* A batch that is processed is out: stored, or counted. *)
LEMMA ProcessedMoves ==
    ASSUME LogInv, NEW E \in SUBSET Entries, ProcessBatch(E)
    PROVE  /\ Move(E, "out") /\ E \subseteq stored' \cup counted'
           /\ stored \subseteq stored' /\ stored' \subseteq Entries
           /\ counted \subseteq counted' /\ counted' \subseteq Entries
BY DEF ProcessBatch, Count, LogInv, LogTypeOK

(* What any later step must establish. *)
LEMMA LaterStep ==
    ASSUME LogInv, UNCHANGED traceVars,
           NEW E \in SUBSET Entries, NEW p \in {"batch", "recovered", "out"}, Move(E, p),
           stored \subseteq stored', stored' \subseteq Entries,
           counted \subseteq counted', counted' \subseteq Entries,
           p = "out" => E \subseteq stored' \cup counted',
           writer' \in {"select", "process", "gone"}, timer' \in {"off", "armed", "fired"},
           running' \in BOOLEAN, closed' \in BOOLEAN, cancelled' \in BOOLEAN,
           cleanup' \in {"idle", "closed", "wait", "pull", "drain", "join", "over"},
           TimerTruthful', PartialBatchTimed', HandedOver'
    PROVE  LogInv'
<1>1. /\ place' \in [Entries -> Places]
      /\ \A e \in Entries : place'[e] = IF e \in E THEN p ELSE place[e]
  BY Moved DEF LogInv, Places
<1>2. LogTypeOK'
  BY <1>1 DEF LogInv, LogTypeOK, traceVars
<1>3. Unlisted'
  BY <1>1 DEF LogInv, Unlisted, traceVars
<1>4. NothingVanishes'
  BY <1>1 DEF LogInv, NothingVanishes
<1> QED
  BY <1>2, <1>3, <1>4 DEF LogInv

(* The batch writer and its timer. *)
LEMMA WriterKeeps ==
    ASSUME LogInv, Writer \/ TimerFires
    PROVE  LogInv'
<1>1. /\ stored \subseteq Entries /\ counted \subseteq Entries
      /\ writer \in {"select", "process", "gone"} /\ timer \in {"off", "armed", "fired"}
      /\ running \in BOOLEAN /\ closed \in BOOLEAN /\ cancelled \in BOOLEAN
      /\ cleanup \in {"idle", "closed", "wait", "pull", "drain", "join", "over"}
      /\ LogTypeOK /\ TimerTruthful /\ PartialBatchTimed /\ HandedOver
      /\ Move({}, "out") <=> UNCHANGED place
      /\ In("batch") \in SUBSET Entries /\ In("recovered") \in SUBSET Entries
  <2>1. Move({}, "out") <=> UNCHANGED place
    BY DEF Move, LogInv, LogTypeOK
  <2> QED
    BY <2>1 DEF LogInv, LogTypeOK, In
<1>2. ASSUME NEW e \in Entries, Receive(e) PROVE LogInv'
  <2>1. /\ UNCHANGED <<traceVars, stored, counted, closed, cancelled, cleanup>>
        /\ Move({e}, "batch") /\ writer = "select"
        /\ writer' \in {"select", "process"} /\ timer' \in {"off", "armed", "fired"}
        /\ running' \in BOOLEAN
    BY <1>1, <1>2 DEF Receive, Flush, storeVars, stopVars
  <2>2. In("recovered")' = In("recovered") \ {e}
    BY <1>1, <2>1, Moved DEF Places
  <2>3. TimerTruthful' /\ PartialBatchTimed'
    BY <1>1, <1>2 DEF Receive, Flush, TimerTruthful, PartialBatchTimed
  <2>4. HandedOver'
    BY <1>1, <2>1, <2>2 DEF HandedOver
  <2> QED
    BY <1>1, <2>1, <2>3, <2>4, LaterStep
<1>3. CASE TimerFires
  <2>1. UNCHANGED <<place, traceVars, stored, counted, writer, running, closed,
                    cancelled, cleanup>>
        /\ timer = "armed" /\ timer' = "fired"
    BY <1>3 DEF TimerFires, storeVars, stopVars
  <2>2. TimerTruthful' /\ PartialBatchTimed' /\ HandedOver'
    BY <1>1, <2>1 DEF TimerTruthful, PartialBatchTimed, HandedOver, In
  <2> QED
    BY <1>1, <2>1, <2>2, LaterStep
<1>4. CASE OnTimer
  <2>1. /\ UNCHANGED <<place, traceVars, stored, counted, closed, cancelled, cleanup>>
        /\ writer = "select" /\ timer' = "off" /\ running' = FALSE
        /\ writer' = IF In("batch") = {} THEN "select" ELSE "process"
    BY <1>4 DEF OnTimer, storeVars, stopVars
  <2>2. TimerTruthful' /\ PartialBatchTimed' /\ HandedOver'
    BY <1>1, <2>1 DEF TimerTruthful, PartialBatchTimed, HandedOver, In
  <2> QED
    BY <1>1, <2>1, <2>2, LaterStep
<1>5. CASE Process
  <2>1. /\ UNCHANGED <<traceVars, timer, running, closed, cancelled, cleanup>>
        /\ ProcessBatch(In("batch")) /\ writer = "process" /\ writer' = "select"
    BY <1>5 DEF Process, stopVars
  <2>2. /\ Move(In("batch"), "out") /\ In("batch") \subseteq stored' \cup counted'
        /\ stored \subseteq stored' /\ stored' \subseteq Entries
        /\ counted \subseteq counted' /\ counted' \subseteq Entries
    BY <1>1, <2>1, ProcessedMoves
  <2>3. In("batch")' = {} /\ In("recovered")' = In("recovered") \ In("batch")
    BY <1>1, <2>2, Moved DEF Places
  <2>4. TimerTruthful' /\ PartialBatchTimed' /\ HandedOver'
    BY <1>1, <2>1, <2>3 DEF TimerTruthful, PartialBatchTimed, HandedOver
  <2> QED
    BY <1>1, <2>1, <2>2, <2>4, LaterStep
<1>6. CASE HandOver
  <2>1. /\ UNCHANGED <<traceVars, stored, counted, timer, running, closed,
                       cancelled, cleanup>>
        /\ Move(In("batch"), "recovered") /\ writer = "select" /\ writer' = "gone"
    BY <1>6 DEF HandOver, storeVars, stopVars
  <2>2. In("batch")' = {}
    BY <1>1, <2>1, Moved DEF Places
  <2>3. TimerTruthful' /\ PartialBatchTimed' /\ HandedOver'
    BY <1>1, <2>1, <2>2 DEF TimerTruthful, PartialBatchTimed, HandedOver
  <2> QED
    BY <1>1, <2>1, <2>3, LaterStep
<1> QED
  BY <1>2, <1>3, <1>4, <1>5, <1>6 DEF Writer

(* Cleanup, step by step. *)
LEMMA StopKeeps ==
    ASSUME LogInv, HostCancel \/ Close \/ CleanupRuns
    PROVE  LogInv'
<1>1. /\ stored \subseteq Entries /\ counted \subseteq Entries
      /\ writer \in {"select", "process", "gone"} /\ timer \in {"off", "armed", "fired"}
      /\ running \in BOOLEAN /\ closed \in BOOLEAN /\ cancelled \in BOOLEAN
      /\ cleanup \in {"idle", "closed", "wait", "pull", "drain", "join", "over"}
      /\ LogTypeOK /\ TimerTruthful /\ PartialBatchTimed /\ HandedOver
      /\ Move({}, "out") <=> UNCHANGED place
      /\ In("recovered") \in SUBSET Entries
  <2>1. Move({}, "out") <=> UNCHANGED place
    BY DEF Move, LogInv, LogTypeOK
  <2> QED
    BY <2>1 DEF LogInv, LogTypeOK, In
<1>2. ASSUME UNCHANGED <<traceVars, storeVars, writerVars, place>>,
             closed' \in BOOLEAN, cancelled' \in BOOLEAN,
             cleanup' \in {"idle", "closed", "wait", "pull", "drain", "join", "over"},
             HandedOver'
      PROVE  LogInv'
  <2>1. TimerTruthful' /\ PartialBatchTimed'
    BY <1>1, <1>2 DEF TimerTruthful, PartialBatchTimed, writerVars, In
  <2> QED
    BY <1>1, <1>2, <2>1, LaterStep DEF storeVars, writerVars
<1>3. CASE HostCancel \/ Close \/ Cancel \/ TakeOver \/ CloseQueue \/ AllJoined
  <2>1. /\ UNCHANGED <<traceVars, storeVars, writerVars, place>>
        /\ closed' \in BOOLEAN /\ cancelled' \in BOOLEAN
        /\ cleanup' \in {"idle", "closed", "wait", "pull", "drain", "join", "over"}
    BY <1>1, <1>3 DEF HostCancel, Close, Cancel, TakeOver,
       CloseQueue, AllJoined
  <2>2. HandedOver'
    BY <1>1, <1>3, <2>1 DEF HostCancel, Close, Cancel, TakeOver,
       CloseQueue, AllJoined,
       HandedOver, In, writerVars
  <2> QED
    BY <1>2, <2>1, <2>2
<1>4. CASE Pull
  <2>1. UNCHANGED <<traceVars, stored, counted, writerVars, closed, cancelled>>
        /\ cleanup = "pull"
    BY <1>4 DEF Pull, storeVars
  <2>2. ASSUME NEW e \in Entries, Move({e}, "recovered"), UNCHANGED cleanup PROVE LogInv'
    <3>1. In("batch")' = In("batch") \ {e}
      BY <1>1, <2>2, Moved DEF Places
    <3>2. TimerTruthful' /\ PartialBatchTimed' /\ HandedOver'
      BY <1>1, <2>1, <2>2, <3>1 DEF TimerTruthful, PartialBatchTimed, HandedOver,
         writerVars
    <3> QED
      BY <1>1, <2>1, <2>2, <3>2, LaterStep DEF writerVars
  <2>3. ASSUME cleanup' = "drain", UNCHANGED place PROVE LogInv'
    <3>1. HandedOver'
      BY <1>1, <2>1, <2>3 DEF HandedOver, In, writerVars
    <3> QED
      BY <1>1, <1>2, <2>1, <2>3, <3>1 DEF storeVars
  <2> QED
    BY <1>4, <2>2, <2>3 DEF Pull, In
<1>5. CASE Drain
  <2>1. UNCHANGED <<traceVars, writerVars, stopVars>> /\ cleanup = "drain"
    BY <1>5 DEF Drain
  <2>2. PICK E \in SUBSET In("recovered") :
           \/ ProcessBatch(E)
           \/ Move(E, "out") /\ Count(E) /\ UNCHANGED stored
    BY <1>5 DEF Drain
  <2>3. /\ E \in SUBSET Entries /\ Move(E, "out") /\ E \subseteq stored' \cup counted'
        /\ stored \subseteq stored' /\ stored' \subseteq Entries
        /\ counted \subseteq counted' /\ counted' \subseteq Entries
    BY <1>1, <2>2, ProcessedMoves DEF Count
  <2>4. In("batch")' = In("batch") \ E /\ In("recovered")' = In("recovered") \ E
    BY <1>1, <2>3, Moved DEF Places
  <2>5. TimerTruthful' /\ PartialBatchTimed' /\ HandedOver'
    BY <1>1, <2>1, <2>4 DEF TimerTruthful, PartialBatchTimed, HandedOver,
       writerVars, stopVars
  <2> QED
    BY <1>1, <2>1, <2>3, <2>5, LaterStep DEF writerVars, stopVars
<1> QED
  BY <1>3, <1>4, <1>5 DEF CleanupRuns

(* The inductive invariant of the write path. *)
THEOREM LogInvariance == LogSpec => []LogInv
<1>1. LogInit => LogInv
  <2>1. SUFFICES ASSUME LogInit PROVE LogInv
    OBVIOUS
  <2>2. 0 \in Boxes
    BY ListNumbers
  <2>3. LogTypeOK
    BY <2>1, <2>2 DEF LogInit, LogTypeOK, Places
  <2>4. In("batch") = {}
    BY <2>1 DEF LogInit, In
  <2>5. Unlisted /\ NothingVanishes
    BY <2>1 DEF LogInit, Unlisted, NothingVanishes
  <2>6. TimerTruthful /\ PartialBatchTimed /\ HandedOver
    BY <2>1, <2>4 DEF LogInit, TimerTruthful, PartialBatchTimed, HandedOver
  <2> QED
    BY <2>3, <2>5, <2>6 DEF LogInv
<1>2. LogInv /\ [LogNext]_logVars => LogInv'
  <2>1. LogInv /\ LogNext => LogInv'
    BY ProduceKeeps, DeferredKeeps, WriterKeeps, StopKeeps DEF LogNext
  <2>2. LogInv /\ UNCHANGED logVars => LogInv'
    BY DEF logVars, traceVars, storeVars, writerVars, stopVars,
       LogInv, LogTypeOK, Unlisted,
       TimerTruthful, PartialBatchTimed, NothingVanishes, HandedOver, In
  <2> QED
    BY <2>1, <2>2
<1> QED
  BY <1>1, <1>2, PTL DEF LogSpec

(* Every variable keeps its type; lists are never numbered past the        *)
(* entries.                                                                *)
THEOREM LogTypes == LogSpec => []LogTypeOK
<1>1. LogInv => LogTypeOK
  BY DEF LogInv
<1> QED
  BY <1>1, LogInvariance, PTL

(* What has left the queue, a batch or the drain is stored or counted in   *)
(* droppedRequests (safeProcessBatch, enqueueLogEntry), and Cleanup closes *)
(* the queue only when the batch writer is gone and drainPending has left  *)
(* nothing of what it took over: what Settled rests on.                    *)
THEOREM EntriesAccountedFor == LogSpec => [](NothingVanishes /\ HandedOver)
<1>1. LogInv => NothingVanishes /\ HandedOver
  BY DEF LogInv
<1> QED
  BY <1>1, LogInvariance, PTL

(* A batch that is not empty never waits in batchWriter's select without a *)
(* running timer, for any size of queue and batch.                         *)
THEOREM BatchesAreTimed == LogSpec => []PartialBatchTimed
<1>1. LogInv => PartialBatchTimed
  BY DEF LogInv
<1> QED
  BY <1>1, LogInvariance, PTL

=============================================================================
