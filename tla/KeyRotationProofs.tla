-------------------------- MODULE KeyRotationProofs --------------------------
(***************************************************************************)
(* IInv of KeyRotation is an invariant, for every set of keys and every    *)
(* number of retries, and with it the properties of the attempt trail.     *)
(***************************************************************************)
EXTENDS KeyRotation, FiniteSetTheorems, TLAPS

(* The constants of the module, as the proofs use them.                    *)
LEMMA Constants == /\ IsFiniteSet(Keys) /\ MaxRetries \in Nat
                   /\ NoKey \notin Keys
BY KeysAssumption, MaxRetriesAssumption, FlagAssumption, NoKeyAssumption

-----------------------------------------------------------------------------
(***************************************************************************)
(* What the helpers of the loop do to the trail and to the pool.           *)
(***************************************************************************)
(* keyProvider hands out a live key, and one of the round that is under    *)
(* way; without a hook it starts a round only when every live key is used. *)
LEMMA OfferFacts ==
  ASSUME NEW offer \in Offers, NEW k \in offer.keys
  PROVE  /\ k \in Live
         /\ offer.used = used \/ offer.used = {}
         /\ canRotate => k \notin offer.used
         /\ canRotate /\ ~filter /\ offer.used # used => Live \subseteq used
<1>1. CASE canRotate
  <2>1. CASE offer \in ThisRound
    BY <1>1, <2>1 DEF ThisRound, Filtered, FreshKeys
  <2>2. CASE offer \in NextRound
    BY <1>1, <2>2 DEF NextRound, Filtered, FreshKeys
  <2>. QED  BY <1>1, <2>1, <2>2 DEF Offers
<1>2. CASE ~canRotate
  BY <1>2 DEF Offers
<1>. QED  BY <1>1, <1>2

(* Filling FailReason changes nothing but the reason of the last record.   *)
LEMMA ExplainFacts ==
  ASSUME TypeOK, NEW f \in Failures, Explain(f)
  PROVE  /\ trail' \in Seq(Records) /\ Len(trail') = Len(trail)
         /\ \A i \in 1..Len(trail) :
               /\ trail'[i].key = trail[i].key
               /\ trail'[i].rotated = trail[i].rotated
               /\ trail'[i].reason = IF i = Len(trail) THEN f ELSE trail[i].reason
<1>. DEFINE n == Len(trail)
<1>1. trail \in Seq(Records) /\ n \in Nat /\ DOMAIN trail = 1..n
  BY DEF TypeOK
<1>2. \A i \in 1..n : trail[i] \in Records
  BY <1>1
<1>3. trail' = [i \in 1..n |-> IF i = n THEN [trail[i] EXCEPT !.reason = f] ELSE trail[i]]
  BY <1>1 DEF Explain
<1>4. \A i \in 1..n : [trail[i] EXCEPT !.reason = f] \in Records
  BY <1>2 DEF Records, Reasons
<1>5. trail' \in [1..n -> Records]
  BY <1>2, <1>3, <1>4
<1>6. trail' \in Seq(Records) /\ Len(trail') = n
  BY <1>1, <1>5
<1>. QED  BY <1>1, <1>2, <1>3, <1>6 DEF Records

(* Starting an attempt adds its record, and changes nothing in the others  *)
(* but TriggeredRotation of the one that waits for the new key.            *)
LEMMA StartFacts ==
  ASSUME TypeOK, NEW k \in Keys, StartWithKey(k)
  PROVE  /\ trail' \in Seq(Records) /\ Len(trail') = Len(CurrentTrail) + 1
         /\ trail'[Len(CurrentTrail) + 1] = Record(k)
         /\ \A i \in 1..Len(CurrentTrail) :
               /\ trail'[i].key = CurrentTrail[i].key
               /\ trail'[i].reason = CurrentTrail[i].reason
               /\ trail'[i].rotated = IF i = pending /\ CurrentTrail[i].key # k
                                      THEN TRUE ELSE CurrentTrail[i].rotated
<1>. DEFINE t == CurrentTrail
            n == Len(t)
            u == ResolveRotation(t, k)
<1>1. t \in Seq(Records) /\ n \in Nat /\ DOMAIN t = 1..n
  BY DEF TypeOK, CurrentTrail
<1>. HIDE DEF t
<1>2. \A i \in 1..n : t[i] \in Records
  BY <1>1
<1>3. u = [i \in 1..n |-> IF i = pending /\ t[i].key # k
                          THEN [t[i] EXCEPT !.rotated = TRUE] ELSE t[i]]
  BY <1>1 DEF ResolveRotation
<1>4. \A i \in 1..n : [t[i] EXCEPT !.rotated = TRUE] \in Records
  BY <1>2 DEF Records
<1>. HIDE DEF u
<1>5. u \in [1..n -> Records]
  BY <1>2, <1>3, <1>4
<1>6. u \in Seq(Records) /\ Len(u) = n
  BY <1>1, <1>5
<1>7. Record(k) \in Records
  BY DEF Record, Records, Reasons
<1>8. trail' = Append(u, Record(k))
  BY DEF StartWithKey, t, u
<1>9. \A i \in 1..n : /\ u[i].key = t[i].key /\ u[i].reason = t[i].reason
                      /\ u[i].rotated = IF i = pending /\ t[i].key # k
                                        THEN TRUE ELSE t[i].rotated
  BY <1>2, <1>3 DEF Records
<1>10. /\ trail' \in Seq(Records) /\ Len(trail') = n + 1
       /\ trail'[n + 1] = Record(k)
       /\ \A i \in 1..n : trail'[i] = u[i]
  BY <1>1, <1>6, <1>7, <1>8
<1>. QED  BY <1>9, <1>10 DEF t

(* A retry that keeps its key adds a record and leaves the others alone.   *)
LEMMA KeepFacts ==
  ASSUME TypeOK, LoopInv, KeepKey, Keyed
  PROVE  /\ currentKey \in pool /\ attempts > 0 /\ ~perKey
         /\ trail' \in Seq(Records) /\ Len(trail') = Len(trail) + 1
         /\ trail'[Len(trail) + 1] = Record(currentKey)
         /\ \A i \in 1..Len(trail) : trail'[i] = trail[i]
<1>1. trail \in Seq(Records) /\ pool \subseteq Keys /\ attempts \in Nat
  BY DEF TypeOK
<1>2. currentKey \in pool /\ attempts > 0 /\ ~perKey
  BY <1>1 DEF LoopInv, KeepKey, NeedsSelection, Started, setting
<1>3. Record(currentKey) \in Records
  BY <1>1, <1>2 DEF Record, Records, Reasons
<1>4. trail' = Append(trail, Record(currentKey))
  BY DEF KeepKey, setting
<1>. QED  BY <1>1, <1>2, <1>3, <1>4
-----------------------------------------------------------------------------
(***************************************************************************)
(* One lemma per conjunct of the invariant.                                *)
(***************************************************************************)
(* A selected key comes from the pool and is alive, and its attempt is     *)
(* within MaxRetries.                                                      *)
LEMMA SelectFacts ==
  ASSUME IInv, SelectKey
  PROVE  \E k \in Live : \E u :
            /\ StartWithKey(k) /\ used' = u /\ k \in Keys
            /\ u = used \/ u = {}
            /\ canRotate => k \notin u
            /\ canRotate /\ ~filter /\ u # used => Live \subseteq used
            /\ Len(CurrentTrail) = attempts /\ attempts <= MaxRetries
            /\ Keyed /\ pc = "select" /\ (attempts = 0 \/ perKey)
            /\ UNCHANGED <<pool, canRotate, filter>>
<1>0. PICK offer \in Offers : \E k \in offer.keys : used' = offer.used /\ StartWithKey(k)
  BY DEF SelectKey, setting
<1>1. PICK k \in offer.keys : used' = offer.used /\ StartWithKey(k)
  BY <1>0
<1>2. /\ k \in Live /\ (offer.used = used \/ offer.used = {})
      /\ canRotate => k \notin offer.used
      /\ canRotate /\ ~filter /\ offer.used # used => Live \subseteq used
  BY OfferFacts
<1>3. Keyed /\ pc = "select" /\ (attempts = 0 \/ perKey) /\ UNCHANGED <<pool, canRotate, filter>>
  BY DEF SelectKey, NeedsSelection, setting
<1>4. attempts <= MaxRetries /\ attempts \in Nat /\ k \in Keys
  BY <1>2, <1>3 DEF IInv, LoopInv, TypeOK, Live
<1>5. Len(CurrentTrail) = attempts
  <2>1. CASE attempts = 0
    BY <1>3, <2>1 DEF CurrentTrail
  <2>2. CASE attempts # 0
    BY <1>3, <1>4, <2>2 DEF CurrentTrail, IInv, LoopInv
  <2>. QED  BY <2>1, <2>2
<1>. QED  BY <1>1, <1>2, <1>3, <1>4, <1>5

(* Every action keeps the types.                                           *)
LEMMA TypeStep == ASSUME IInv, Next PROVE TypeOK'
<1>. USE Constants
<1>1. TypeOK /\ LoopInv
  BY DEF IInv
<1>2. CASE SelectKey
  <2>1. PICK k \in Live : \E u :
            /\ StartWithKey(k) /\ used' = u /\ k \in Keys
            /\ u = used \/ u = {}
            /\ Len(CurrentTrail) = attempts /\ attempts <= MaxRetries
            /\ UNCHANGED <<pool, canRotate, filter>>
    BY <1>2, SelectFacts
  <2>2. trail' \in Seq(Records) /\ Len(trail') = attempts + 1
    BY <1>1, <2>1, StartFacts
  <2>3. hurried' \in Nat
    BY <1>1, <2>1 DEF StartWithKey, TypeOK
  <2>. QED  BY <1>1, <2>1, <2>2, <2>3 DEF StartWithKey, TypeOK, Live
<1>3. CASE SelectionFails
  <2>1. trail' \in Seq(Records) /\ Len(trail') <= MaxRetries + 1
    BY <1>1, <1>3 DEF SelectionFails, CurrentTrail, TypeOK, setting
  <2>2. result' \in Results /\ selected' = NoKey /\ pc' = "done"
    BY <1>3 DEF SelectionFails, Refusal, Results, Refusals, setting
  <2>. QED  BY <1>1, <1>3, <2>1, <2>2 DEF SelectionFails, retryState, history, TypeOK, setting
<1>4. CASE KeepKey
  <2>1. CASE Keyed
    <3>1. Len(trail) = attempts /\ attempts <= MaxRetries
      BY <1>1, <1>4, <2>1, KeepFacts DEF LoopInv, KeepKey, setting
    <3>. QED  BY <1>1, <1>4, <2>1, <3>1, KeepFacts DEF KeepKey, retryState, history, TypeOK, setting
  <2>2. CASE ~Keyed
    BY <1>1, <1>4, <2>2 DEF KeepKey, retryState, history, TypeOK, setting
  <2>. QED  BY <2>1, <2>2
<1>5. CASE Succeed
  BY <1>1, <1>5 DEF Succeed, retryState, history, TypeOK, Results, setting
<1>6. CASE Halt
  BY <1>1, <1>6 DEF Halt, ReturnError, Halts, retryState, history, TypeOK, Results, setting
<1>7. CASE GiveUp
  <2>1. PICK f \in Failures : Explain(f)
    BY <1>7 DEF GiveUp, setting
  <2>. QED  BY <1>1, <1>7, <2>1, ExplainFacts DEF GiveUp, ReturnError, retryState, history, TypeOK, Results, setting
<1>8. CASE Retry
  <2>1. PICK f \in Failures : FailAndRetry(f)
    BY <1>8 DEF Retry, setting
  <2>2. Explain(f)
    BY <2>1 DEF FailAndRetry
  <2>3. attempts \in Nat /\ attempts <= MaxRetries
    BY <1>1, <1>8 DEF Retry, LoopInv, TypeOK, setting
  <2>4. Keyed => currentKey \in pool
    BY <1>1, <1>8 DEF Retry, LoopInv, Started, setting
  <2>5. trail' \in Seq(Records) /\ Len(trail') <= MaxRetries + 1 /\ Len(trail) \in 0..(MaxRetries + 1)
    BY <1>1, <2>2, ExplainFacts DEF TypeOK
  <2>6. dead' \subseteq pool /\ used' \subseteq pool
    BY <1>1, <2>1, <2>4 DEF FailAndRetry, AttemptsLeft, TypeOK
  <2>7. limited' \in [Keys -> Nat]
    <3>1. limited \in [Keys -> Nat] /\ pool \subseteq Keys
      BY <1>1 DEF TypeOK
    <3>2. \/ limited' = limited
          \/ Keyed /\ limited' = [limited EXCEPT ![currentKey] = limited[currentKey] + 1]
      BY <2>1 DEF FailAndRetry
    <3>. QED  BY <2>4, <3>1, <3>2
  <2>8. pending' \in 0..(MaxRetries + 1)
    BY <1>1, <2>1, <2>5 DEF FailAndRetry, AttemptsLeft, TypeOK
  <2>9. pc' \in {"select", "done"} /\ result' \in Results /\ selected' \in Keys \cup {NoKey}
    BY <1>1, <2>1 DEF FailAndRetry, AttemptsLeft, ReturnError, TypeOK, Results
  <2>10. attempts' \in 0..(MaxRetries + 1) /\ perKey' \in BOOLEAN /\ permanent' \in BOOLEAN
         /\ previous' = currentKey /\ UNCHANGED <<currentKey, hurried, pool, canRotate, filter>>
    BY <1>8, <2>1, <2>3 DEF FailAndRetry, AttemptsLeft, Retry, Keyed, setting
  <2>. QED  BY <1>1, <2>5, <2>6, <2>7, <2>8, <2>9, <2>10 DEF TypeOK
<1>9. CASE Returned
  BY <1>1, <1>9 DEF Returned, vars, setting, retryState, history, TypeOK
<1>. QED  BY <1>2, <1>3, <1>4, <1>5, <1>6, <1>7, <1>8, <1>9 DEF Next
(* The loop's counter, its flags and the trail stay in step.               *)
LEMMA LoopStep == ASSUME IInv, Next PROVE LoopInv'
<1>. USE Constants
<1>1. TypeOK /\ LoopInv /\ TypeOK'
  BY TypeStep DEF IInv
<1>2. CASE SelectKey
  <2>1. PICK k \in Live : \E u :
            /\ StartWithKey(k) /\ used' = u /\ k \in Keys
            /\ Len(CurrentTrail) = attempts /\ attempts <= MaxRetries
            /\ Keyed /\ pc = "select" /\ (attempts = 0 \/ perKey)
            /\ UNCHANGED <<pool, canRotate, filter>>
    BY <1>2, SelectFacts
  <2>2. Len(trail') = attempts + 1 /\ trail'[attempts + 1] = Record(k)
    BY <1>1, <2>1, StartFacts
  <2>3. trail'[Len(trail')].key = k
    BY <2>2 DEF Record
  <2>4. /\ pc' = "call" /\ currentKey' = k /\ selected' = k
        /\ UNCHANGED <<attempts, perKey, permanent, result, dead>>
    BY <2>1 DEF StartWithKey
  <2>5. k \in pool /\ attempts \in Nat
    BY <1>1, <2>1 DEF Live, TypeOK
  <2>6. result = "none" /\ (permanent => perKey) /\ canRotate = (\E a, b \in pool : a # b)
    BY <1>1, <2>1 DEF LoopInv
  <2>. QED  BY <2>1, <2>2, <2>3, <2>4, <2>5, <2>6 DEF LoopInv, Started, Keyed
<1>3. CASE SelectionFails
  <2>1. /\ pc' = "done" /\ (trail' = trail \/ trail' = <<>>)
        /\ UNCHANGED <<pool, canRotate, filter, perKey, permanent>> /\ Keyed
    BY <1>3 DEF SelectionFails, NeedsSelection, CurrentTrail, retryState, setting
  <2>. QED  BY <1>1, <2>1 DEF LoopInv, Started, Keyed
<1>4. CASE KeepKey
  <2>1. /\ pc = "select" /\ pc' = "call" /\ ~NeedsSelection
        /\ UNCHANGED <<pool, canRotate, filter, attempts, currentKey, perKey, permanent, selected, result>>
    BY <1>4 DEF KeepKey, retryState, setting
  <2>2. CASE Keyed
    <3>1. Len(trail) = attempts /\ attempts <= MaxRetries
      BY <1>1, <1>4, <2>1, <2>2, KeepFacts DEF LoopInv
    <3>2. Len(trail') = attempts + 1 /\ trail'[attempts + 1].key = currentKey /\ currentKey \in pool
      BY <1>1, <1>4, <2>2, <3>1, KeepFacts DEF Record
    <3>3. selected = currentKey
      BY <1>1, <1>4, <2>1, <2>2, KeepFacts DEF LoopInv, Started
    <3>. QED  BY <1>1, <2>1, <2>2, <3>1, <3>2, <3>3 DEF LoopInv, Started, Keyed
  <2>3. CASE ~Keyed
    <3>1. trail' = trail
      BY <1>4, <2>3 DEF KeepKey, setting
    <3>. QED  BY <1>1, <2>1, <2>3, <3>1 DEF LoopInv, Started, Keyed
  <2>. QED  BY <2>2, <2>3
<1>5. CASE Succeed
  BY <1>1, <1>5 DEF Succeed, retryState, LoopInv, Started, Keyed, setting
<1>6. CASE Halt
  BY <1>1, <1>6 DEF Halt, ReturnError, retryState, LoopInv, Started, Keyed, setting
<1>7. CASE GiveUp
  <2>1. PICK f \in Failures : Explain(f)
    BY <1>7 DEF GiveUp, setting
  <2>2. Len(trail') = Len(trail)
    BY <1>1, <2>1, ExplainFacts
  <2>. QED  BY <1>1, <1>7, <2>2 DEF GiveUp, ReturnError, retryState, LoopInv, Started, Keyed, setting
<1>8. CASE Retry
  <2>1. PICK f \in Failures : FailAndRetry(f)
    BY <1>8 DEF Retry, setting
  <2>2. /\ Explain(f) /\ attempts' = attempts + 1
        /\ UNCHANGED <<currentKey, pool, canRotate, filter>>
        /\ permanent' = (Keyed /\ f = "auth") /\ perKey' = (f \in PerKeyFailures)
        /\ pc' # "call" /\ (pc' = "select" => attempts < MaxRetries /\ result' = result /\ selected' = selected)
    BY <1>1, <1>8, <2>1 DEF FailAndRetry, AttemptsLeft, Retry, ReturnError, setting
  <2>3. pc = "call" /\ attempts \in Nat
    BY <1>1, <1>8 DEF Retry, TypeOK, setting
  <2>4. Len(trail') = Len(trail)
    BY <1>1, <2>2, ExplainFacts
  <2>5. Keyed => /\ Len(trail) = attempts + 1 /\ selected = currentKey /\ currentKey \in pool
                 /\ trail[Len(trail)].key = currentKey
    BY <1>1, <2>3 DEF LoopInv, Started
  <2>6. Keyed => trail'[Len(trail')].key = currentKey
    BY <1>1, <2>2, <2>3, <2>4, <2>5, ExplainFacts
  <2>7. result = "none" /\ canRotate = (\E a, b \in pool : a # b) /\ (~Keyed => Len(trail) <= 1)
    BY <1>1, <2>3 DEF LoopInv
  <2>8. permanent' => perKey'
    BY <2>2 DEF PerKeyFailures
  <2>9. Keyed' = Keyed /\ canRotate' = (\E a, b \in pool' : a # b)
    BY <2>2, <2>7 DEF Keyed
  <2>10. attempts' > 0 /\ Started'
    BY <2>2, <2>3 DEF Started
  <2>11. pc' # "done" => attempts' <= MaxRetries /\ result' = "none"
    BY <1>1, <2>2, <2>3, <2>7 DEF TypeOK
  <2>12. Keyed /\ pc' = "select" => Len(trail') = attempts' /\ currentKey' \in pool /\ selected' = currentKey'
    BY <2>2, <2>4, <2>5
  <2>13. currentKey' = currentKey /\ pool' = pool /\ (pc' = "done" \/ pc' = "select")
    BY <1>1, <2>2 DEF TypeOK
  <2>. QED  BY <2>4, <2>6, <2>7, <2>8, <2>9, <2>10, <2>11, <2>12, <2>13 DEF LoopInv
<1>9. CASE Returned
  BY <1>1, <1>9 DEF Returned, vars, setting, retryState, LoopInv, Started, Keyed
<1>. QED  BY <1>2, <1>3, <1>4, <1>5, <1>6, <1>7, <1>8, <1>9 DEF Next
(* A retry in flat form: what it does to each part of the state.           *)
LEMMA RetryFacts ==
  ASSUME IInv, Retry
  PROVE  \E f \in Failures :
            /\ Explain(f) /\ f # "request" /\ pc = "call" /\ pc' # "call"
            /\ attempts' = attempts + 1 /\ attempts \in Nat /\ attempts <= MaxRetries
            /\ dead' = IF Keyed /\ f = "auth" THEN dead \cup {currentKey} ELSE dead
            /\ used' = IF Keyed /\ f = "rate" THEN used \cup {currentKey} ELSE used
            /\ limited' = IF Keyed /\ f = "rate"
                          THEN [limited EXCEPT ![currentKey] = limited[currentKey] + 1]
                          ELSE limited
            /\ perKey' = (f \in {"auth", "rate"}) /\ permanent' = (Keyed /\ f = "auth")
            /\ pc' = "select" => pending' = IF Keyed /\ perKey' THEN Len(trail) ELSE pending
            /\ UNCHANGED <<currentKey, hurried, pool, canRotate, filter>>
<1>1. PICK f \in Failures, capacity \in BOOLEAN : ShouldRetry(f, capacity) /\ FailAndRetry(f)
  BY DEF Retry, setting
<1>2. attempts \in Nat /\ attempts <= MaxRetries /\ pc = "call"
  BY DEF IInv, TypeOK, LoopInv, Retry, setting
<1>3. f # "request" /\ UNCHANGED <<pool, canRotate, filter>>
  BY <1>1 DEF ShouldRetry, Retry, setting
<1>4. pc' # "call" /\ (pc' = "select" => attempts < MaxRetries)
  BY <1>1 DEF FailAndRetry, AttemptsLeft, ReturnError
<1>5. /\ pending' = IF Keyed /\ f \in PerKeyFailures /\ attempts < MaxRetries
                    THEN Len(trail) ELSE pending
      /\ perKey' = (f \in PerKeyFailures)
  BY <1>1 DEF FailAndRetry, AttemptsLeft
<1>6. perKey' = (f \in {"auth", "rate"})
  BY <1>5 DEF PerKeyFailures
<1>7. pc' = "select" => pending' = IF Keyed /\ perKey' THEN Len(trail) ELSE pending
  BY <1>4, <1>5
<1>. QED  BY <1>1, <1>2, <1>3, <1>4, <1>6, <1>7 DEF FailAndRetry, AttemptsLeft

(* The trail marks the rotations that took place, and no others.           *)
LEMMA RotationStep == ASSUME IInv, Next PROVE RotationInv'
<1>. USE Constants
<1>1. TypeOK /\ LoopInv /\ RotationInv
  BY DEF IInv
<1>2. Len(trail) \in Nat /\ attempts \in Nat /\ pending \in Nat
  BY <1>1 DEF TypeOK
<1>d. DOMAIN trail = 1..Len(trail)
  BY <1>1 DEF TypeOK
<1>3. \A i \in 1..Len(trail) :
         trail[i].rotated <=> i < Len(trail) /\ trail[i + 1].key # trail[i].key
  BY <1>1, <1>d DEF RotationInv, RotationTruthful
<1>4. CASE SelectKey
  <2>1. PICK k \in Live : \E u :
            /\ StartWithKey(k) /\ k \in Keys /\ Len(CurrentTrail) = attempts
            /\ Keyed /\ pc = "select" /\ (attempts = 0 \/ perKey)
    BY <1>4, SelectFacts
  <2>n. PICK n \in Nat : n = attempts /\ n = Len(CurrentTrail)
    BY <1>2, <2>1
  <2>s. /\ trail' \in Seq(Records) /\ Len(trail') = Len(CurrentTrail) + 1
        /\ trail'[Len(CurrentTrail) + 1] = Record(k)
        /\ \A i \in 1..Len(CurrentTrail) :
              /\ trail'[i].key = CurrentTrail[i].key
              /\ trail'[i].rotated = IF i = pending /\ CurrentTrail[i].key # k
                                     THEN TRUE ELSE CurrentTrail[i].rotated
    BY <1>1, <2>1, StartFacts
  <2>2. /\ trail' \in Seq(Records) /\ Len(trail') = n + 1
        /\ trail'[n + 1] = Record(k)
        /\ \A i \in 1..n :
              /\ trail'[i].key = CurrentTrail[i].key
              /\ trail'[i].rotated = IF i = pending /\ CurrentTrail[i].key # k
                                     THEN TRUE ELSE CurrentTrail[i].rotated
    BY <2>n, <2>s
  <2>3. trail'[n + 1].key = k /\ trail'[n + 1].rotated = FALSE
    BY <2>2 DEF Record
  <2>4. n > 0 => CurrentTrail = trail /\ n = Len(trail) /\ pending = n
    BY <1>1, <1>2, <2>1, <2>n DEF CurrentTrail, LoopInv, RotationInv
  <2>5. \A i \in 1..(n + 1) :
           trail'[i].rotated <=> i < n + 1 /\ trail'[i + 1].key # trail'[i].key
    <3>1. SUFFICES ASSUME NEW i \in 1..n
                   PROVE  trail'[i].rotated <=> trail'[i + 1].key # trail'[i].key
      BY <2>3
    <3>2. n > 0 /\ i \in 1..Len(trail) /\ CurrentTrail = trail /\ n = Len(trail) /\ pending = n
      BY <2>4
    <3>3. CASE i = n
      <4>0. ~trail[i].rotated
        BY <1>3, <3>2, <3>3
      <4>1. ~trail[i].rotated /\ trail'[i].key = trail[i].key /\ trail'[i + 1].key = k
        BY <2>2, <2>3, <3>2, <3>3, <4>0
      <4>2. trail'[i].rotated = IF trail[i].key # k THEN TRUE ELSE trail[i].rotated
        BY <2>2, <3>2, <3>3
      <4>. QED  BY <4>1, <4>2
    <3>4. CASE i # n
      <4>1. i + 1 \in 1..n /\ i < Len(trail) /\ i # pending
        BY <3>2, <3>4
      <4>2. trail'[i].rotated = trail[i].rotated /\ trail'[i].key = trail[i].key
            /\ trail'[i + 1].key = trail[i + 1].key
        BY <2>2, <3>2, <4>1
      <4>. QED  BY <1>3, <3>2, <4>1, <4>2
    <3>. QED  BY <3>3, <3>4
  <2>6. RotationTruthful'
    BY <2>2, <2>5 DEF RotationTruthful
  <2>. QED  BY <2>1, <2>6 DEF RotationInv, StartWithKey
<1>5. CASE SelectionFails
  <2>1. (trail' = trail \/ trail' = <<>>) /\ pc' = "done"
    BY <1>5 DEF SelectionFails, CurrentTrail, setting
  <2>2. RotationTruthful'
    BY <1>1, <2>1 DEF RotationInv, RotationTruthful
  <2>. QED  BY <2>1, <2>2 DEF RotationInv, KeyHeld, Started
<1>6. CASE KeepKey
  <2>1. pc' = "call" /\ pending' = pending /\ pending = 0
    BY <1>1, <1>6 DEF KeepKey, retryState, RotationInv, KeyHeld, Started, NeedsSelection, Keyed, setting
  <2>2. RotationTruthful'
    <3>1. CASE Keyed
      <4>1. /\ Len(trail') = Len(trail) + 1
            /\ trail'[Len(trail) + 1] = Record(currentKey)
            /\ \A i \in 1..Len(trail) : trail'[i] = trail[i]
            /\ trail' \in Seq(Records) /\ attempts > 0
        BY <1>1, <1>6, <3>1, KeepFacts
      <4>2. Len(trail) > 0 /\ trail[Len(trail)].key = currentKey
        BY <1>1, <1>2, <1>6, <3>1, <4>1 DEF LoopInv, KeepKey, Started, setting
      <4>3. trail'[Len(trail) + 1].key = currentKey /\ trail'[Len(trail) + 1].rotated = FALSE
        BY <4>1 DEF Record
      <4>4. PICK n \in Nat : n = Len(trail)
        BY <1>2
      <4>5. ASSUME NEW i \in 1..(n + 1)
            PROVE  trail'[i].rotated <=> i < n + 1 /\ trail'[i + 1].key # trail'[i].key
        <5>1. CASE i = n + 1
          BY <4>3, <4>4, <5>1
        <5>2. CASE i = n
          BY <1>3, <4>1, <4>2, <4>3, <4>4, <5>2
        <5>3. CASE i < n
          <6>1. i + 1 \in 1..n /\ i \in 1..n
            BY <5>3
          <6>. QED  BY <1>3, <4>1, <4>4, <5>3, <6>1
        <5>. QED  BY <5>1, <5>2, <5>3
      <4>. QED  BY <4>1, <4>4, <4>5 DEF RotationTruthful
    <3>2. CASE ~Keyed
      BY <1>1, <1>6, <3>2 DEF KeepKey, RotationInv, RotationTruthful, setting
    <3>. QED  BY <3>1, <3>2
  <2>. QED  BY <2>1, <2>2 DEF RotationInv
<1>7. CASE Succeed \/ Halt
  <2>1. trail' = trail /\ pc' = "done"
    BY <1>7 DEF Succeed, Halt, ReturnError, setting
  <2>. QED  BY <1>1, <2>1 DEF RotationInv, RotationTruthful, KeyHeld, Started
<1>8. CASE GiveUp \/ Retry
  <2>1. PICK f \in Failures : Explain(f)
    BY <1>8, RetryFacts DEF GiveUp, setting
  <2>2. /\ trail' \in Seq(Records) /\ Len(trail') = Len(trail)
        /\ \A i \in 1..Len(trail) : /\ trail'[i].key = trail[i].key
                                   /\ trail'[i].rotated = trail[i].rotated
    BY <1>1, <2>1, ExplainFacts
  <2>3. RotationTruthful'
    <3>1. DOMAIN trail' = 1..Len(trail)
      BY <1>2, <2>2
    <3>2. SUFFICES ASSUME NEW i \in 1..Len(trail)
                   PROVE  trail'[i].rotated <=> i < Len(trail) /\ trail'[i + 1].key # trail'[i].key
      BY <2>2, <3>1 DEF RotationTruthful
    <3>3. i < Len(trail) => i + 1 \in 1..Len(trail)
      BY <1>2
    <3>. QED  BY <1>3, <2>2, <3>3
  <2>4. CASE GiveUp
    BY <2>3, <2>4 DEF GiveUp, ReturnError, RotationInv, KeyHeld, Started, setting
  <2>5. CASE Retry
    <3>1. /\ pc = "call" /\ pc' # "call" /\ attempts' > 0
          /\ pc' = "select" => pending' = IF Keyed /\ perKey' THEN Len(trail) ELSE pending
          /\ UNCHANGED <<pool, filter>>
      BY <2>5, RetryFacts
    <3>2. pending = 0
      BY <1>1, <3>1 DEF RotationInv, KeyHeld
    <3>. QED  BY <2>2, <2>3, <3>1, <3>2 DEF RotationInv, KeyHeld, Started, Keyed
  <2>. QED  BY <1>8, <2>4, <2>5
<1>9. CASE Returned
  BY <1>1, <1>9 DEF Returned, vars, setting, retryState, RotationInv, RotationTruthful, KeyHeld, Started, Keyed
<1>. QED  BY <1>4, <1>5, <1>6, <1>7, <1>8, <1>9 DEF Next
(* A new record with a key that is not dead keeps the dead keys and the    *)
(* trail in agreement.                                                     *)
LEMMA NewRecordDead ==
  ASSUME DeadInv, trail \in Seq(Records), trail' \in Seq(Records), dead' = dead,
         NEW n \in Nat, NEW k, k \notin dead,
         n = 0 => dead = {}, n > 0 => n = Len(trail),
         Len(trail') = n + 1, trail'[n + 1].key = k, trail'[n + 1].reason = "none",
         \A i \in 1..n : trail'[i].key = trail[i].key /\ trail'[i].reason = trail[i].reason,
         \A i \in 1..n : trail[i].reason = "auth" => trail[i].key \in dead
  PROVE  /\ DeadKeyRetired'
         /\ \A i \in DOMAIN trail' : trail'[i].reason = "auth" => trail'[i].key \in dead'
         /\ \A d \in dead' : \E i \in DOMAIN trail' : trail'[i].key = d /\ trail'[i].reason = "auth"
<1>1. DOMAIN trail' = 1..(n + 1) /\ (n > 0 => DOMAIN trail = 1..n)
  OBVIOUS
<1>2. \A i \in 1..(n + 1) : trail'[i].reason = "auth" => i \in 1..n /\ trail'[i].key \in dead
  OBVIOUS
<1>3. ASSUME NEW i \in 1..(n + 1), NEW j \in 1..(n + 1), i < j, trail'[i].reason = "auth"
      PROVE  trail'[j].key # trail'[i].key
  <2>1. CASE j = n + 1
    BY <1>2, <1>3, <2>1
  <2>2. CASE j \in 1..n
    <3>1. i \in 1..n /\ trail[i].reason = "auth" /\ n > 0
      BY <1>2, <1>3
    <3>2. trail[j].key # trail[i].key
      BY <1>1, <1>3, <2>2, <3>1 DEF DeadInv, DeadKeyRetired
    <3>. QED  BY <2>2, <3>1, <3>2
  <2>. QED  BY <2>1, <2>2
<1>4. ASSUME NEW d \in dead
      PROVE  \E i \in 1..(n + 1) : trail'[i].key = d /\ trail'[i].reason = "auth"
  <2>1. n > 0
    BY <1>4
  <2>2. PICK i \in 1..n : trail[i].key = d /\ trail[i].reason = "auth"
    BY <1>1, <1>4, <2>1 DEF DeadInv
  <2>. QED  BY <2>2
<1>. QED  BY <1>1, <1>2, <1>3, <1>4 DEF DeadKeyRetired

(* The dead keys are the keys the trail shows refused, and they are never  *)
(* attempted again.                                                        *)
LEMMA DeadStep == ASSUME IInv, Next PROVE DeadInv'
<1>1. TypeOK /\ LoopInv /\ DeadInv /\ TypeOK'
  BY TypeStep DEF IInv
<1>2. trail \in Seq(Records) /\ trail' \in Seq(Records)
  BY <1>1 DEF TypeOK
<1>3. attempts \in Nat
  BY <1>1 DEF TypeOK
<1>4. CASE SelectKey
  <2>1. PICK k \in Live : \E u :
            /\ StartWithKey(k) /\ k \in Keys /\ Len(CurrentTrail) = attempts
            /\ Keyed /\ pc = "select" /\ (attempts = 0 \/ perKey)
            /\ UNCHANGED <<pool, filter>>
    BY <1>4, SelectFacts
  <2>2. PICK n \in Nat : n = attempts /\ n = Len(CurrentTrail)
    BY <1>3, <2>1
  <2>3. /\ Len(trail') = Len(CurrentTrail) + 1
        /\ trail'[Len(CurrentTrail) + 1] = Record(k)
        /\ \A i \in 1..Len(CurrentTrail) :
              trail'[i].key = CurrentTrail[i].key /\ trail'[i].reason = CurrentTrail[i].reason
    BY <1>1, <2>1, StartFacts
  <2>4. trail'[n + 1].key = k /\ trail'[n + 1].reason = "none" /\ Len(trail') = n + 1
    BY <2>2, <2>3 DEF Record
  <2>5. n > 0 => CurrentTrail = trail /\ n = Len(trail)
    BY <1>1, <2>1, <2>2 DEF CurrentTrail, LoopInv
  <2>6. \A i \in 1..n : trail'[i].key = trail[i].key /\ trail'[i].reason = trail[i].reason
    BY <2>2, <2>3, <2>5
  <2>7. n = 0 => dead = {}
    BY <1>1, <2>1, <2>2 DEF LoopInv
  <2>8. k \notin dead /\ dead' = dead /\ pc' = "call" /\ currentKey' = k
    BY <2>1 DEF Live, StartWithKey
  <2>9. n > 0 => DOMAIN trail = 1..n
    BY <1>2, <2>5
  <2>10. \A i \in 1..n : trail[i].reason = "auth" => trail[i].key \in dead
    BY <1>1, <2>1, <2>2, <2>9 DEF DeadInv, Started
  <2>11. /\ DeadKeyRetired'
         /\ \A i \in DOMAIN trail' : trail'[i].reason = "auth" => trail'[i].key \in dead'
         /\ \A d \in dead' : \E i \in DOMAIN trail' : trail'[i].key = d /\ trail'[i].reason = "auth"
    BY <1>1, <1>2, <2>4, <2>5, <2>6, <2>7, <2>8, <2>10, NewRecordDead
  <2>. QED  BY <2>8, <2>11 DEF DeadInv
<1>5. CASE SelectionFails
  <2>1. /\ pc' = "done" /\ dead' = dead /\ pc = "select"
        /\ trail' = IF attempts = 0 THEN <<>> ELSE trail
    BY <1>5 DEF SelectionFails, retryState, CurrentTrail, NeedsSelection, setting
  <2>2. CASE attempts = 0
    <3>1. dead' = {} /\ trail' = <<>>
      BY <1>1, <2>1, <2>2 DEF LoopInv
    <3>. QED  BY <2>1, <3>1 DEF DeadInv, DeadKeyRetired, KeyHeld
  <2>3. CASE attempts # 0
    BY <1>1, <2>1, <2>3 DEF DeadInv, DeadKeyRetired, KeyHeld
  <2>. QED  BY <2>2, <2>3
<1>6. CASE KeepKey
  <2>1. pc = "select" /\ pc' = "call" /\ UNCHANGED <<pool, dead, currentKey>>
    BY <1>6 DEF KeepKey, retryState, setting
  <2>2. CASE Keyed
    <3>1. /\ attempts > 0 /\ ~perKey
          /\ Len(trail') = Len(trail) + 1
          /\ trail'[Len(trail) + 1] = Record(currentKey)
          /\ \A i \in 1..Len(trail) : trail'[i] = trail[i]
      BY <1>1, <1>6, <2>2, KeepFacts
    <3>2. PICK n \in Nat : n = Len(trail)
      BY <1>2
    <3>3. n > 0 /\ currentKey \notin dead
      BY <1>1, <1>3, <2>1, <2>2, <3>1, <3>2 DEF LoopInv, DeadInv, KeyHeld
    <3>4. \A i \in 1..n : trail[i].reason = "auth" => trail[i].key \in dead
      BY <1>1, <1>2, <2>1, <2>2, <3>1, <3>2 DEF DeadInv, Started
    <3>5. trail'[n + 1].key = currentKey /\ trail'[n + 1].reason = "none" /\ Len(trail') = n + 1
          /\ \A i \in 1..n : trail'[i].key = trail[i].key /\ trail'[i].reason = trail[i].reason
      BY <3>1, <3>2 DEF Record
    <3>6. /\ DeadKeyRetired'
          /\ \A i \in DOMAIN trail' : trail'[i].reason = "auth" => trail'[i].key \in dead'
          /\ \A d \in dead' : \E i \in DOMAIN trail' : trail'[i].key = d /\ trail'[i].reason = "auth"
      BY <1>1, <1>2, <2>1, <3>2, <3>3, <3>4, <3>5, NewRecordDead
    <3>. QED  BY <2>1, <3>3, <3>6 DEF DeadInv
  <2>3. CASE ~Keyed
    <3>1. trail' = trail
      BY <1>6, <2>3 DEF KeepKey, setting
    <3>. QED  BY <1>1, <2>1, <2>3, <3>1 DEF DeadInv, DeadKeyRetired, Keyed
  <2>. QED  BY <2>2, <2>3
<1>7. CASE Succeed \/ Halt
  <2>1. trail' = trail /\ dead' = dead /\ pc' = "done"
    BY <1>7 DEF Succeed, Halt, ReturnError, retryState, setting
  <2>. QED  BY <1>1, <2>1 DEF DeadInv, DeadKeyRetired, KeyHeld
<1>8. CASE GiveUp \/ Retry
  <2>1. PICK f \in Failures :
           /\ Explain(f) /\ pc' # "call" /\ pc = "call"
           /\ \/ pc' = "done" /\ dead' = dead /\ UNCHANGED <<pool, currentKey>>
              \/ /\ dead' = IF Keyed /\ f = "auth" THEN dead \cup {currentKey} ELSE dead
                 /\ perKey' = (f \in {"auth", "rate"})
                 /\ UNCHANGED <<currentKey, pool>>
    <3>1. CASE GiveUp
      BY <3>1 DEF GiveUp, ReturnError, retryState, setting
    <3>2. CASE Retry
      BY <3>2, RetryFacts
    <3>. QED  BY <1>8, <3>1, <3>2
  <2>2. /\ Len(trail') = Len(trail)
        /\ \A i \in 1..Len(trail) :
              /\ trail'[i].key = trail[i].key
              /\ trail'[i].reason = IF i = Len(trail) THEN f ELSE trail[i].reason
    BY <1>1, <2>1, ExplainFacts
  <2>3. PICK n \in Nat : n = Len(trail) /\ DOMAIN trail = 1..n /\ DOMAIN trail' = 1..n
    BY <1>2, <2>2
  <2>n. \A i \in 1..n : /\ trail'[i].key = trail[i].key
                        /\ trail'[i].reason = IF i = n THEN f ELSE trail[i].reason
    BY <2>2, <2>3
  <2>4. Keyed => n > 0 /\ trail[n].key = currentKey /\ currentKey \notin dead
    BY <1>1, <1>3, <2>1, <2>3 DEF LoopInv, Started, DeadInv, KeyHeld
  <2>5. ~Keyed => n <= 1
    BY <1>1, <2>3 DEF LoopInv
  <2>6. \A i, j \in 1..n : i < j => trail'[i].reason = trail[i].reason
    BY <2>n
  <2>7. DeadKeyRetired'
    BY <1>1, <2>n, <2>3, <2>6 DEF DeadInv, DeadKeyRetired
  <2>8. Keyed => trail[n].reason # "auth"
    BY <1>1, <2>1, <2>3, <2>4 DEF DeadInv, Started
  <2>9. ASSUME NEW d \in dead
        PROVE  \E i \in 1..n : trail'[i].key = d /\ trail'[i].reason = "auth"
    <3>1. PICK i \in 1..n : trail[i].key = d /\ trail[i].reason = "auth"
      BY <1>1, <2>3 DEF DeadInv
    <3>2. Keyed
      BY <1>1 DEF TypeOK, Keyed
    <3>3. i # n
      BY <2>8, <3>1, <3>2
    <3>. QED  BY <2>n, <3>1, <3>3
  <2>10. Keyed /\ f = "auth" => \E i \in 1..n : trail'[i].key = currentKey /\ trail'[i].reason = "auth"
    BY <2>n, <2>4
  <2>11. \A d \in dead' : \E i \in DOMAIN trail' : trail'[i].key = d /\ trail'[i].reason = "auth"
    BY <2>1, <2>3, <2>9, <2>10
  <2>12. Keyed' = Keyed
    BY <2>1 DEF Keyed
  <2>13. CASE pc' = "done"
    BY <2>7, <2>11, <2>13 DEF DeadInv, KeyHeld
  <2>14. CASE pc' # "done"
    <3>1. dead' = IF Keyed /\ f = "auth" THEN dead \cup {currentKey} ELSE dead
      BY <2>1, <2>14
    <3>2. ASSUME Keyed, NEW i \in 1..n, trail'[i].reason = "auth" PROVE trail'[i].key \in dead'
      <4>1. CASE i = n
        BY <2>n, <2>4, <3>1, <3>2, <4>1
      <4>2. CASE i # n
        <5>1. trail[i].reason = "auth"
          BY <2>n, <3>2, <4>2
        <5>2. trail[i].key \in dead
          BY <1>1, <2>1, <2>3, <3>2, <5>1 DEF DeadInv, Started
        <5>. QED  BY <2>n, <3>1, <5>2
      <4>. QED  BY <4>1, <4>2
    <3>3. Keyed /\ KeyHeld' => currentKey' \notin dead'
      BY <2>1, <2>4, <2>14, <3>1 DEF KeyHeld
    <3>. QED  BY <2>3, <2>7, <2>11, <2>12, <3>2, <3>3 DEF DeadInv
  <2>. QED  BY <2>13, <2>14
<1>9. CASE Returned
  BY <1>1, <1>9 DEF Returned, vars, setting, retryState, DeadInv, DeadKeyRetired, KeyHeld, Started, Keyed
<1>. QED  BY <1>4, <1>5, <1>6, <1>7, <1>8, <1>9 DEF Next
(* The live keys of a pool without a hook have been limited equally often, *)
(* but for those used in the round that is under way.                      *)
LEMMA RoundStep == ASSUME IInv, Next PROVE RoundInv'
<1>1. TypeOK /\ LoopInv /\ RoundInv
  BY DEF IInv
<1>2. CASE SelectKey
  <2>1. PICK k \in Live : \E u :
            /\ StartWithKey(k) /\ used' = u
            /\ u = used \/ u = {}
            /\ canRotate => k \notin u
            /\ canRotate /\ ~filter /\ u # used => Live \subseteq used
            /\ UNCHANGED <<pool, canRotate, filter>>
    BY <1>2, SelectFacts
  <2>2. currentKey' = k /\ dead' = dead /\ limited' = limited
    BY <2>1 DEF StartWithKey
  <2>3. Live' = Live
    BY <2>1, <2>2 DEF Live
  <2>4. ASSUME canRotate, ~filter, NEW a \in Live, NEW b \in Live
        PROVE  limited[a] + UsedThisRound(b)' = limited[b] + UsedThisRound(a)'
    <3>1. limited[a] + UsedThisRound(b) = limited[b] + UsedThisRound(a)
      BY <1>1, <2>4 DEF RoundInv
    <3>2. limited[a] \in Nat /\ limited[b] \in Nat
      BY <1>1, <2>4 DEF TypeOK, Live
    <3>3. CASE used' = used
      BY <3>1, <3>3 DEF UsedThisRound
    <3>4. CASE used' # used
      <4>1. used' = {} /\ a \in used /\ b \in used
        BY <2>1, <2>4, <3>4
      <4>2. UsedThisRound(a) = 1 /\ UsedThisRound(b) = 1
        BY <4>1 DEF UsedThisRound
      <4>3. UsedThisRound(a)' = 0 /\ UsedThisRound(b)' = 0
        BY <4>1 DEF UsedThisRound
      <4>. QED  BY <3>1, <3>2, <4>2, <4>3
    <3>. QED  BY <3>3, <3>4
  <2>. QED  BY <2>1, <2>2, <2>3, <2>4 DEF RoundInv
<1>3. CASE SelectionFails \/ Succeed \/ Halt \/ GiveUp
  <2>1. pc' = "done" /\ UNCHANGED <<pool, canRotate, filter, used, dead, limited>>
    BY <1>3 DEF SelectionFails, Succeed, Halt, GiveUp, ReturnError, retryState, history, setting
  <2>. QED  BY <1>1, <2>1 DEF RoundInv, KeyHeld, Live, UsedThisRound
<1>4. CASE KeepKey
  <2>1. pc' = "call" /\ UNCHANGED <<pool, canRotate, filter, used, dead, limited, currentKey>> /\ pc = "select"
    BY <1>4 DEF KeepKey, retryState, history, setting
  <2>2. canRotate => Keyed
    BY <1>1 DEF LoopInv, Keyed
  <2>3. Keyed => KeyHeld
    BY <1>1, <1>4, KeepFacts DEF KeyHeld, KeepKey, setting
  <2>. QED  BY <1>1, <2>1, <2>2, <2>3 DEF RoundInv, Live, UsedThisRound
<1>5. CASE Retry
  <2>1. PICK f \in Failures :
            /\ pc = "call" /\ pc' # "call"
            /\ dead' = IF Keyed /\ f = "auth" THEN dead \cup {currentKey} ELSE dead
            /\ used' = IF Keyed /\ f = "rate" THEN used \cup {currentKey} ELSE used
            /\ limited' = IF Keyed /\ f = "rate"
                          THEN [limited EXCEPT ![currentKey] = limited[currentKey] + 1]
                          ELSE limited
            /\ perKey' = (f \in {"auth", "rate"})
            /\ UNCHANGED <<currentKey, pool, canRotate, filter>>
    BY <1>5, RetryFacts
  <2>2. canRotate => Keyed /\ currentKey \notin used
    BY <1>1, <2>1 DEF LoopInv, Keyed, RoundInv, KeyHeld
  <2>3. canRotate /\ KeyHeld' => currentKey' \notin used'
    BY <2>1, <2>2 DEF KeyHeld
  <2>4. Live' \subseteq Live
    BY <2>1 DEF Live
  <2>5. limited \in [Keys -> Nat] /\ Live \subseteq Keys
    BY <1>1 DEF TypeOK, Live
  <2>6. ASSUME canRotate, ~filter, NEW a \in Live, NEW b \in Live
        PROVE  limited'[a] + UsedThisRound(b)' = limited'[b] + UsedThisRound(a)'
    <3>1. limited[a] + UsedThisRound(b) = limited[b] + UsedThisRound(a)
      BY <1>1, <2>6 DEF RoundInv
    <3>2. CASE f # "rate"
      <4>1. used' = used /\ limited' = limited
        BY <2>1, <3>2
      <4>. QED  BY <3>1, <4>1 DEF UsedThisRound
    <3>3. CASE f = "rate"
      <4>1. used' = used \cup {currentKey} /\ currentKey \notin used
            /\ limited' = [limited EXCEPT ![currentKey] = limited[currentKey] + 1]
        BY <2>1, <2>2, <2>6, <3>3
      <4>2. ASSUME NEW c \in Live
            PROVE  /\ limited'[c] = IF c = currentKey THEN limited[c] + 1 ELSE limited[c]
                   /\ UsedThisRound(c)' = IF c = currentKey THEN UsedThisRound(c) + 1
                                                            ELSE UsedThisRound(c)
        BY <2>5, <4>1, <4>2 DEF UsedThisRound
      <4>3. /\ UsedThisRound(a) \in Nat /\ UsedThisRound(b) \in Nat
            /\ limited[a] \in Nat /\ limited[b] \in Nat
        BY <2>5 DEF UsedThisRound
      <4>4. /\ limited'[a] = IF a = currentKey THEN limited[a] + 1 ELSE limited[a]
            /\ limited'[b] = IF b = currentKey THEN limited[b] + 1 ELSE limited[b]
            /\ UsedThisRound(a)' = IF a = currentKey THEN UsedThisRound(a) + 1 ELSE UsedThisRound(a)
            /\ UsedThisRound(b)' = IF b = currentKey THEN UsedThisRound(b) + 1 ELSE UsedThisRound(b)
        BY <4>2
      <4>. QED  BY <3>1, <4>3, <4>4
    <3>. QED  BY <3>2, <3>3
  <2>. QED  BY <2>1, <2>3, <2>4, <2>6 DEF RoundInv
<1>6. CASE Returned
  BY <1>1, <1>6 DEF Returned, vars, setting, retryState, history, RoundInv, KeyHeld, Live, UsedThisRound
<1>. QED  BY <1>2, <1>3, <1>4, <1>5, <1>6 DEF Next

(* A retry without a backoff spends a key that died since the last one.    *)
LEMMA HurryStep == ASSUME IInv, Next PROVE HurryInv'
<1>1. TypeOK /\ LoopInv /\ HurryInv /\ TypeOK'
  BY TypeStep DEF IInv
<1>2. IsFiniteSet(dead) /\ Cardinality(dead) \in Nat /\ hurried \in Nat
  <2>1. dead \subseteq Keys
    BY <1>1 DEF TypeOK
  <2>2. IsFiniteSet(dead)
    BY <2>1, Constants, FS_Subset
  <2>. QED  BY <1>1, <2>2, FS_CardinalityType DEF TypeOK
<1>3. CASE SelectKey
  <2>1. PICK k \in Live : StartWithKey(k)
    BY <1>3, SelectFacts
  <2>2. /\ dead' = dead /\ pc' = "call"
        /\ hurried' = hurried \/ (permanent /\ hurried' = hurried + 1)
    BY <2>1 DEF StartWithKey, SkipsBackoff
  <2>3. pc = "select"
    BY <1>3 DEF SelectKey, setting
  <2>. QED  BY <1>1, <1>2, <2>2, <2>3 DEF HurryInv, HurriedBounded
<1>4. CASE SelectionFails \/ KeepKey \/ Succeed \/ Halt \/ GiveUp
  <2>1. pc' # "select" /\ UNCHANGED <<dead, hurried>>
    BY <1>4 DEF SelectionFails, KeepKey, Succeed, Halt, GiveUp, ReturnError, retryState, history, setting
  <2>. QED  BY <1>1, <2>1 DEF HurryInv, HurriedBounded
<1>5. CASE Retry
  <2>1. PICK f \in Failures :
            /\ pc = "call" /\ hurried' = hurried
            /\ dead' = IF Keyed /\ f = "auth" THEN dead \cup {currentKey} ELSE dead
            /\ permanent' = (Keyed /\ f = "auth")
    BY <1>5, RetryFacts
  <2>2. CASE Keyed /\ f = "auth"
    <3>1. currentKey \notin dead
      BY <2>1, <2>2 DEF IInv, DeadInv, KeyHeld
    <3>2. Cardinality(dead') = Cardinality(dead) + 1
      BY <1>2, <2>1, <2>2, <3>1, FS_AddElement
    <3>. QED  BY <1>1, <1>2, <2>1, <3>2 DEF HurryInv, HurriedBounded
  <2>3. CASE ~(Keyed /\ f = "auth")
    BY <1>1, <2>1, <2>3 DEF HurryInv, HurriedBounded
  <2>. QED  BY <2>2, <2>3
<1>6. CASE Returned
  BY <1>1, <1>6 DEF Returned, vars, setting, retryState, history, HurryInv, HurriedBounded
<1>. QED  BY <1>3, <1>4, <1>5, <1>6 DEF Next

(* What the call returns agrees with the selected key and with the trail.  *)
LEMMA ReturnStep == ASSUME IInv, Next PROVE ServedKeyReported' /\ ExhaustionProved'
<1>1. TypeOK /\ LoopInv /\ ServedKeyReported /\ ExhaustionProved
  BY DEF IInv
<1>2. CASE SelectKey \/ KeepKey
  <2>1. pc = "select" /\ pc' = "call" /\ result' = result
    BY <1>2 DEF SelectKey, StartWithKey, KeepKey, setting
  <2>2. result' = "none"
    BY <1>1, <2>1 DEF LoopInv
  <2>. QED  BY <2>1, <2>2 DEF ServedKeyReported, ExhaustionProved
<1>3. CASE SelectionFails
  <2>1. /\ pc = "select" /\ Keyed /\ selected' = NoKey /\ UNCHANGED <<pool, filter, dead>>
        /\ trail' = IF attempts = 0 THEN <<>> ELSE trail
        /\ result' # "success"
        /\ \/ NothingToOffer /\ result' = IF Live = {} THEN "allKeysDead" ELSE "allKeysFiltered"
           \/ result' = "selectorFailed"
    BY <1>3 DEF SelectionFails, Refusal, NeedsSelection, CurrentTrail, retryState, setting
  <2>2. ServedKeyReported'
    BY <2>1 DEF ServedKeyReported
  <2>3. result' = "allKeysFiltered" => filter /\ Live' # {}
    <3>1. Live # {} /\ NothingToOffer => filter
      BY DEF NothingToOffer, Filtered
    <3>. QED  BY <2>1, <3>1 DEF Live
  <2>4. ASSUME result' = "allKeysDead", NEW k \in pool
        PROVE  \E i \in DOMAIN trail' : trail'[i].key = k /\ trail'[i].reason = "auth"
    <3>1. k \in dead
      BY <2>1, <2>4 DEF Live
    <3>2. attempts # 0
      BY <1>1, <2>1, <3>1 DEF LoopInv
    <3>. QED  BY <2>1, <3>1, <3>2 DEF IInv, DeadInv
  <2>. QED  BY <2>1, <2>2, <2>3, <2>4 DEF ExhaustionProved
<1>4. CASE Succeed
  <2>1. /\ pc = "call" /\ result' = "success" /\ UNCHANGED <<pool, trail, selected>>
    BY <1>4 DEF Succeed, setting
  <2>2. Keyed => selected = trail[Len(trail)].key
    BY <1>1, <2>1 DEF LoopInv, Started
  <2>. QED  BY <2>1, <2>2 DEF ServedKeyReported, ExhaustionProved, Keyed
<1>5. CASE Halt \/ GiveUp
  <2>1. \E error \in {"bifrost", "cancelled", "failed"} : ReturnError(error) /\ UNCHANGED <<pool, filter>>
    BY <1>5 DEF Halt, GiveUp, Halts, setting
  <2>. QED  BY <2>1 DEF ReturnError, ServedKeyReported, ExhaustionProved, Keyed
<1>6. CASE Retry
  <2>1. /\ UNCHANGED pool /\ pc = "call"
        /\ ReturnError("failed") \/ (pc' = "select" /\ result' = result)
    BY <1>6 DEF Retry, FailAndRetry, setting
  <2>2. result = "none"
    BY <1>1, <2>1 DEF LoopInv
  <2>. QED  BY <2>1, <2>2 DEF ReturnError, ServedKeyReported, ExhaustionProved, Keyed
<1>7. CASE Returned
  BY <1>1, <1>7 DEF Returned, vars, setting, retryState, ServedKeyReported, ExhaustionProved, Live, Keyed
<1>. QED  BY <1>2, <1>3, <1>4, <1>5, <1>6, <1>7 DEF Next
-----------------------------------------------------------------------------
(***************************************************************************)
(* The theorems.                                                           *)
(***************************************************************************)
(* A call starts with an empty trail, or with one another request left.    *)
LEMMA InitInvariant == ASSUME Init PROVE IInv
<1>. USE Constants
<1>1. trail = <<>> \/ \E k \in Keys : trail = <<Record(k)>>
  BY DEF Init
<1>2. \A k \in Keys : Record(k) \in Records
  BY DEF Record, Records, Reasons
<1>3. trail \in Seq(Records) /\ Len(trail) <= 1
  <2>1. CASE trail = <<>>
    BY <2>1
  <2>2. ASSUME NEW k \in Keys, trail = <<Record(k)>> PROVE trail \in Seq(Records) /\ Len(trail) = 1
    <3>1. PICK r \in Records : r = Record(k)
      BY <1>2
    <3>. QED  BY <2>2, <3>1
  <2>3. CASE \E k \in Keys : trail = <<Record(k)>>
    <3>1. PICK k \in Keys : trail = <<Record(k)>>
      BY <2>3
    <3>. QED  BY <2>2, <3>1
  <2>. QED  BY <1>1, <2>1, <2>3
<1>4. \A i \in DOMAIN trail : ~trail[i].rotated /\ i = 1 /\ Len(trail) = 1
  BY <1>1 DEF Record
<1>5. TypeOK
  <2>1. canRotate \in BOOLEAN
    BY DEF Init
  <2>2. limited \in [Keys -> Nat] /\ hurried \in Nat
    BY DEF Init
  <2>3. Len(trail) <= MaxRetries + 1
    BY <1>1, <1>3
  <2>4. 0 \in 0..(MaxRetries + 1)
    OBVIOUS
  <2>. QED  BY <1>3, <2>1, <2>2, <2>3, <2>4 DEF Init, TypeOK, Results
<1>6. LoopInv
  BY <1>3 DEF Init, LoopInv, Started
<1>7. RotationInv
  BY <1>4 DEF Init, RotationInv, RotationTruthful
<1>8. DeadInv
  BY <1>4 DEF Init, DeadInv, DeadKeyRetired, Started, KeyHeld
<1>9. RoundInv
  BY DEF Init, RoundInv, KeyHeld, Live, UsedThisRound
<1>10. HurryInv
  BY FS_EmptySet DEF Init, HurryInv, HurriedBounded
<1>11. ServedKeyReported /\ ExhaustionProved
  BY DEF Init, ServedKeyReported, ExhaustionProved
<1>. QED  BY <1>5, <1>6, <1>7, <1>8, <1>9, <1>10, <1>11 DEF IInv

(* A step that changes nothing keeps the invariant.                        *)
LEMMA StutterInvariant == ASSUME IInv, UNCHANGED vars PROVE IInv'
BY DEF IInv, vars, setting, retryState, history, TypeOK, LoopInv, RotationInv, RotationTruthful, DeadInv,
       DeadKeyRetired, RoundInv, HurryInv, HurriedBounded, ServedKeyReported, ExhaustionProved,
       Started, KeyHeld, Keyed, Live, UsedThisRound

(* IInv holds in every state of a call of executeRequestWithRetries.       *)
THEOREM Invariant == Spec => []IInv
<1>1. Init => IInv
  BY InitInvariant
<1>2. IInv /\ [Next]_vars => IInv'
  <2>1. IInv /\ Next => IInv'
    <3>1. SUFFICES ASSUME IInv, Next PROVE IInv'
      OBVIOUS
    <3>2. TypeOK' /\ LoopInv' /\ RotationInv' /\ DeadInv'
      BY <3>1, TypeStep, LoopStep, RotationStep, DeadStep
    <3>3. RoundInv' /\ HurryInv' /\ ServedKeyReported' /\ ExhaustionProved'
      BY <3>1, RoundStep, HurryStep, ReturnStep
    <3>. QED  BY <3>2, <3>3 DEF IInv
  <2>. QED  BY <2>1, StutterInvariant
<1>. QED  BY <1>1, <1>2, PTL DEF Spec

(* The types of the loop's variables; no call attempts more than           *)
(* MaxRetries + 1 times.                                                   *)
THEOREM RotationTypes == Spec => []TypeOK
<1>1. IInv => TypeOK
  BY DEF IInv
<1>. QED  BY <1>1, Invariant, PTL

(* A key that failed with 401, 402 or 403 is never attempted again.        *)
THEOREM DeadKeysStayRetired == Spec => []DeadKeyRetired
<1>1. IInv => DeadKeyRetired
  BY DEF IInv, DeadInv
<1>. QED  BY <1>1, Invariant, PTL

(* Without a hook no live key is rate limited twice more than another.     *)
THEOREM RoundsAreFair == Spec => []FairRounds
<1>1. IInv => FairRounds
  <2>1. SUFFICES ASSUME IInv, canRotate, ~filter, NEW a \in Live, NEW b \in Live
                 PROVE  limited[a] <= limited[b] + 1
    BY DEF FairRounds
  <2>2. limited[a] \in Nat /\ limited[b] \in Nat
    BY <2>1 DEF IInv, TypeOK, Live
  <2>3. limited[a] + UsedThisRound(b) = limited[b] + UsedThisRound(a)
    BY <2>1 DEF IInv, RoundInv
  <2>4. UsedThisRound(a) \in {0, 1} /\ UsedThisRound(b) \in {0, 1}
    BY DEF UsedThisRound
  <2>. QED  BY <2>2, <2>3, <2>4
<1>. QED  BY <1>1, Invariant, PTL

(* The trail marks exactly the attempts after which another key was used.  *)
THEOREM TrailIsTruthful == Spec => []RotationTruthful
<1>1. IInv => RotationTruthful
  BY DEF IInv, RotationInv
<1>. QED  BY <1>1, Invariant, PTL

(* Retries without a backoff are at most as many as keys found dead.       *)
THEOREM HurryIsBounded == Spec => []HurriedBounded
<1>1. IInv => HurriedBounded
  BY DEF IInv, HurryInv
<1>. QED  BY <1>1, Invariant, PTL

(* The context names the key that served, and none when the call failed;   *)
(* an exhausted pool is reported only with every key refused in the trail. *)
THEOREM ReturnIsTruthful == Spec => [](ServedKeyReported /\ ExhaustionProved)
<1>1. IInv => ServedKeyReported /\ ExhaustionProved
  BY DEF IInv
<1>. QED  BY <1>1, Invariant, PTL
==============================================================================
