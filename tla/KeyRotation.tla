----------------------------- MODULE KeyRotation -----------------------------
(***************************************************************************)
(* One call of executeRequestWithRetries in core/bifrost.go: the attempts  *)
(* a worker makes at one provider for one request, the key each of them    *)
(* uses (the keyProvider closures of requestWorker), and the attempt trail *)
(* and the selected key the call leaves in the request's context.          *)
(*                                                                         *)
(* The call runs in one goroutine; what it does not control is what the    *)
(* provider answers, which keys the KeyPoolFilter hook vetoes and which    *)
(* key the selector picks.                                                 *)
(***************************************************************************)
EXTENDS Integers, Sequences, FiniteSets

CONSTANTS
    Keys,         \* keys of the provider
    MaxRetries,   \* NetworkConfig.MaxRetries
    HasFallbacks, \* TRUE iff the request names fallbacks
    NoKey         \* the zero Key, and the empty selected_key_id

ASSUME KeysAssumption == IsFiniteSet(Keys)
ASSUME MaxRetriesAssumption == MaxRetries \in Nat
ASSUME FlagAssumption == HasFallbacks \in BOOLEAN
ASSUME NoKeyAssumption == NoKey \notin Keys

VARIABLES
    pool,       \* supportedKeys; {} where keyProvider is nil
    canRotate,  \* the pool is the rotating one, not a fixed key
    filter,     \* a KeyPoolFilter hook is configured
    pc,         \* "select", "call" or "done"
    attempts,   \* the loop counter
    currentKey,
    used,       \* usedKeyIDs
    dead,       \* deadKeyIDs
    perKey,     \* lastWasPerKeyFailure
    permanent,  \* lastWasPermanentKeyFailure
    previous,   \* previousKeyID
    pending,    \* pendingRotationAttemptIdx, counted from 1; 0 for none
    trail,      \* BifrostContextKeyAttemptTrail
    selected,   \* BifrostContextKeySelectedKeyID
    result,     \* what the call returns, "none" before it does
    limited,    \* history: [Keys -> Nat], rotations away from a limited key
    hurried     \* history: retries made without a backoff

setting == <<pool, canRotate, filter>>
retryState == <<attempts, currentKey, used, dead, perKey, permanent, previous, pending>>
history == <<limited, hurried>>
vars == <<setting, pc, retryState, trail, selected, result, history>>

Keyed == pool # {}

(***************************************************************************)
(* What an attempt may fail with, as the loop classifies it: a 401, 402 or *)
(* 403; a 429 or a message of a rate limit; a 5xx or a network error; any  *)
(* other error of the request itself.                                      *)
(***************************************************************************)
Failures == {"auth", "rate", "server", "request"}
PerKeyFailures == {"auth", "rate"}

(* Errors that end the loop before any classification.                     *)
Halts == {"bifrost", "cancelled"}

(* Errors of the key selection.                                            *)
Refusals == {"allKeysDead", "allKeysFiltered", "selectorFailed"}

(* A capacity limit is a message every pattern of which is also a rate     *)
(* limit pattern; it is left to the fallbacks where there are any.         *)
ShouldRetry(failure, capacity) ==
    failure # "request" /\ ~(capacity /\ HasFallbacks)

Record(k) == [key |-> k, reason |-> "none", rotated |-> FALSE]

(* A reused context may carry the trail and the key of an earlier request. *)
Init ==
    /\ pool \in SUBSET Keys
    /\ canRotate = (\E a, b \in pool : a # b)
    /\ filter \in BOOLEAN
    /\ pc = "select"
    /\ attempts = 0
    /\ currentKey = NoKey
    /\ used = {} /\ dead = {}
    /\ perKey = FALSE /\ permanent = FALSE
    /\ previous = NoKey
    /\ pending = 0
    /\ trail \in {<<>>} \cup {<<Record(k)>> : k \in Keys}
    /\ selected \in Keys \cup {NoKey}
    /\ result = "none"
    /\ limited = [k \in Keys |-> 0]
    /\ hurried = 0

(* A key is chosen first and after every failure tied to a key.            *)
NeedsSelection == Keyed /\ (attempts = 0 \/ perKey)

CurrentTrail == IF Keyed /\ attempts = 0 THEN <<>> ELSE trail

-----------------------------------------------------------------------------
(***************************************************************************)
(* The key provider.                                                       *)
(***************************************************************************)
(* Keys not found dead; the dead ones come back with a new round (mutant). *)
Revived == pool
Live == pool \ dead
FreshKeys == Live \ used

(* What the hook may leave of a set of keys; a hook that fails leaves all. *)
Filtered(S) == IF filter THEN SUBSET S ELSE {S}

(* The pools a rotating provider may hand to the selector, with the used   *)
(* keys that remain after it.                                              *)
ThisRound == [keys : Filtered(FreshKeys) \ {{}}, used : {used}]
(* (NextRoundAnyTime is a mutant: usedKeyIDs is emptied too early.)         *)
NextRoundAnyTime == [keys : Filtered(Live) \ {{}}, used : {{}}]
NextRound == IF {} \in Filtered(FreshKeys)
             THEN [keys : Filtered(Live) \ {{}}, used : {{}}]
             ELSE {}

Offers == IF canRotate THEN ThisRound \cup NextRound
          ELSE [keys : {Live} \ {{}}, used : {used}]

NothingToOffer ==
    IF canRotate THEN {} \in Filtered(FreshKeys) /\ {} \in Filtered(Live)
    ELSE Live = {}

(* The attempt that failed last rotated iff another key was picked; marked *)
(* without a look at the key (mutant).                                     *)
MarkRotation(t, k) ==
    [i \in DOMAIN t |-> IF i = pending THEN [t[i] EXCEPT !.rotated = TRUE] ELSE t[i]]
ResolveRotation(t, k) ==
    [i \in DOMAIN t |->
        IF i = pending /\ t[i].key # k THEN [t[i] EXCEPT !.rotated = TRUE] ELSE t[i]]

(* No backoff only after a swap away from a dead key; after any (mutant).  *)
SkipsAfterSwap(k) == attempts > 0 /\ k # previous
SkipsBackoff(k) == attempts > 0 /\ permanent /\ k # previous

StartWithKey(k) ==
    /\ currentKey' = k
    /\ selected' = k
    /\ trail' = Append(ResolveRotation(CurrentTrail, k), Record(k))
    /\ pending' = 0
    /\ hurried' = IF SkipsBackoff(k) THEN hurried + 1 ELSE hurried
    /\ pc' = "call"
    /\ UNCHANGED <<attempts, dead, perKey, permanent, previous, result, limited>>

SelectKey ==
    /\ pc = "select" /\ NeedsSelection
    /\ \E offer \in Offers : \E k \in offer.keys :
          /\ used' = offer.used
          /\ StartWithKey(k)
    /\ UNCHANGED setting

(* The error of an empty offer.                                            *)
Refusal == IF Live = {} THEN "allKeysDead" ELSE "allKeysFiltered"

SelectionFails ==
    /\ pc = "select" /\ NeedsSelection
    /\ \/ NothingToOffer /\ result' = Refusal
       \/ canRotate /\ Offers # {} /\ result' = "selectorFailed"
    /\ selected' = NoKey
    /\ trail' = CurrentTrail
    /\ pc' = "done"
    /\ UNCHANGED <<setting, retryState, history>>

(* A retry that keeps its key, or an attempt of a keyless provider.        *)
KeepKey ==
    /\ pc = "select" /\ ~NeedsSelection
    /\ trail' = IF Keyed THEN Append(trail, Record(currentKey)) ELSE trail
    /\ pc' = "call"
    /\ UNCHANGED <<setting, retryState, selected, result, history>>

-----------------------------------------------------------------------------
(***************************************************************************)
(* The provider answers.                                                   *)
(***************************************************************************)
Succeed ==
    /\ pc = "call"
    /\ result' = "success"
    /\ pc' = "done"
    /\ UNCHANGED <<setting, retryState, trail, selected, history>>

(* The end of the function, reached with an error; it leaves the key of    *)
(* the failed attempt in the context (mutant).                             *)
ReturnErrorUncleared(error) ==
    /\ result' = error
    /\ pc' = "done"
    /\ UNCHANGED selected
ReturnError(error) ==
    /\ result' = error
    /\ selected' = IF Keyed THEN NoKey ELSE selected
    /\ pc' = "done"

Halt ==
    /\ pc = "call"
    /\ \E error \in Halts : ReturnError(error)
    /\ UNCHANGED <<setting, retryState, trail, history>>

Explain(failure) ==
    trail' = [i \in DOMAIN trail |->
                 IF i = Len(trail) THEN [trail[i] EXCEPT !.reason = failure] ELSE trail[i]]

GiveUp ==
    /\ pc = "call"
    /\ \E failure \in Failures, capacity \in BOOLEAN :
          /\ capacity => failure \in PerKeyFailures
          /\ ~ShouldRetry(failure, capacity)
          /\ Explain(failure)
    /\ ReturnError("failed")
    /\ UNCHANGED <<setting, retryState, history>>

(* The loop's test before another attempt.                                 *)
AttemptsLeft == attempts < MaxRetries

(* Book-keeping of a failure that may be retried, and the loop's increment *)
(* and test: the last attempt ends the call here.                          *)
FailAndRetry(failure) ==
    /\ Explain(failure)
    /\ dead' = IF Keyed /\ failure = "auth" THEN dead \cup {currentKey} ELSE dead
    /\ used' = IF Keyed /\ failure = "rate" THEN used \cup {currentKey} ELSE used
    /\ limited' = IF Keyed /\ failure = "rate"
                  THEN [limited EXCEPT ![currentKey] = @ + 1] ELSE limited
    /\ perKey' = (failure \in PerKeyFailures)
    /\ permanent' = (Keyed /\ failure = "auth")
    /\ previous' = currentKey
    /\ pending' = IF Keyed /\ failure \in PerKeyFailures /\ AttemptsLeft
                  THEN Len(trail) ELSE pending
    /\ attempts' = attempts + 1
    /\ IF AttemptsLeft
       THEN pc' = "select" /\ UNCHANGED <<result, selected>>
       ELSE ReturnError("failed")
    /\ UNCHANGED <<currentKey, hurried>>

Retry ==
    /\ pc = "call"
    /\ \E failure \in Failures, capacity \in BOOLEAN :
          /\ capacity => failure \in PerKeyFailures
          /\ ShouldRetry(failure, capacity)
          /\ FailAndRetry(failure)
    /\ UNCHANGED setting

Returned == pc = "done" /\ UNCHANGED vars

Next == SelectKey \/ SelectionFails \/ KeepKey
        \/ Succeed \/ Halt \/ GiveUp \/ Retry \/ Returned

Spec == Init /\ [][Next]_vars

-----------------------------------------------------------------------------
(***************************************************************************)
(* Properties.                                                             *)
(***************************************************************************)
Reasons == Failures \cup {"none"}
Records == [key : Keys, reason : Reasons, rotated : BOOLEAN]
Results == {"none", "success", "failed"} \cup Halts \cup Refusals

(* The type invariant; it bounds the attempts executeRequestWithRetries    *)
(* makes and records by MaxRetries + 1.                                    *)
TypeOK ==
    /\ pool \in SUBSET Keys /\ canRotate \in BOOLEAN /\ filter \in BOOLEAN
    /\ pc \in {"select", "call", "done"}
    /\ attempts \in 0..(MaxRetries + 1)
    /\ currentKey \in pool \cup {NoKey}
    /\ used \subseteq pool /\ dead \subseteq pool
    /\ perKey \in BOOLEAN /\ permanent \in BOOLEAN
    /\ previous \in pool \cup {NoKey}
    /\ pending \in 0..(MaxRetries + 1)
    /\ trail \in Seq(Records) /\ Len(trail) <= MaxRetries + 1
    /\ selected \in Keys \cup {NoKey}
    /\ result \in Results
    /\ limited \in [Keys -> Nat]
    /\ hurried \in Nat

(* Once an attempt failed with 401, 402 or 403, no later attempt of the    *)
(* request uses its key: deadKeyIDs is never reset, whatever rounds of     *)
(* rate limits and 5xx retries come between.                               *)
DeadKeyRetired ==
    \A i, j \in DOMAIN trail :
        i < j /\ trail[i].reason = "auth" => trail[j].key # trail[i].key

(* The rounds of the rotating pool are fair: of two keys still alive, the  *)
(* one has not been rate limited twice more than the other.  usedKeyIDs is *)
(* emptied only when every live key is in it.  A filter hook voids this.   *)
FairRounds ==
    canRotate /\ ~filter =>
        \A a, b \in Live : limited[a] <= limited[b] + 1

(* TriggeredRotation of a record of the trail tells whether the next       *)
(* attempt used another key, also when 5xx retries, a reset of the round   *)
(* or a fixed key come between the failure and the next selection.         *)
RotationTruthful ==
    \A i \in DOMAIN trail :
        trail[i].rotated <=> i < Len(trail) /\ trail[i + 1].key # trail[i].key

(* Backoff is skipped at most once for each key found dead, so a run of    *)
(* retries without a pause is bounded by the pool, not by MaxRetries.      *)
HurriedBounded == hurried <= Cardinality(dead)

(* After the call the context names as selected key the key of the last    *)
(* attempt if it succeeded, and no key otherwise, on every return path.    *)
ServedKeyReported ==
    Keyed /\ pc = "done" =>
        selected = IF result = "success" THEN trail[Len(trail)].key ELSE NoKey

(* upstream_credentials_exhausted (502) is returned only when the trail    *)
(* shows every key of the pool refused, no_eligible_keys (503) only when   *)
(* the hook vetoed keys that are alive.                                    *)
ExhaustionProved ==
    /\ result = "allKeysDead" =>
          \A k \in pool : \E i \in DOMAIN trail : trail[i].key = k /\ trail[i].reason = "auth"
    /\ result = "allKeysFiltered" => filter /\ Live # {}

-----------------------------------------------------------------------------
(***************************************************************************)
(* The inductive invariant behind these properties.                        *)
(***************************************************************************)
(* The trail belongs to this request once its first key was looked for.    *)
Started == pc # "select" \/ attempts > 0

(* The next attempt uses the key of the last one.                          *)
KeyHeld == pc = "call" \/ (pc = "select" /\ attempts > 0 /\ ~perKey)

LoopInv ==
    /\ canRotate = (\E a, b \in pool : a # b)
    /\ pc # "done" => attempts <= MaxRetries /\ result = "none"
    /\ pc = "select" /\ attempts = 0 => dead = {} /\ used = {} /\ ~perKey /\ ~permanent
    /\ permanent => perKey
    /\ ~Keyed => Len(trail) <= 1
    /\ ~Started => Len(trail) <= 1
    /\ Keyed /\ pc = "select" /\ attempts > 0 => Len(trail) = attempts
    /\ Keyed /\ pc = "call" => Len(trail) = attempts + 1
    /\ Keyed /\ pc # "done" /\ Started =>
          currentKey \in pool /\ trail[Len(trail)].key = currentKey /\ selected = currentKey

RotationInv ==
    /\ RotationTruthful
    /\ KeyHeld \/ ~Started \/ (~Keyed /\ pc = "select") => pending = 0
    /\ pc = "select" /\ perKey /\ Keyed => pending = Len(trail)

DeadInv ==
    /\ DeadKeyRetired
    /\ Keyed /\ pc # "done" /\ Started =>
          \A i \in DOMAIN trail : trail[i].reason = "auth" => trail[i].key \in dead
    /\ Keyed /\ KeyHeld => currentKey \notin dead
    /\ \A k \in dead : \E i \in DOMAIN trail : trail[i].key = k /\ trail[i].reason = "auth"

UsedThisRound(k) == IF k \in used THEN 1 ELSE 0

RoundInv ==
    /\ canRotate /\ KeyHeld => currentKey \notin used
    /\ canRotate /\ ~filter =>
          \A a, b \in Live : limited[a] + UsedThisRound(b) = limited[b] + UsedThisRound(a)

HurryInv ==
    /\ HurriedBounded
    /\ pc = "select" /\ permanent => hurried < Cardinality(dead)

(* The loop's flags agree with the trail, and the live keys have been      *)
(* limited equally often but for the round that is under way.              *)
IInv == TypeOK /\ LoopInv /\ RotationInv /\ DeadInv /\ RoundInv /\ HurryInv
        /\ ServedKeyReported /\ ExhaustionProved

-----------------------------------------------------------------------------
(* FailReason is nil only on a successful attempt, says the comment on     *)
(* KeyAttemptRecord.                                                       *)
FailReasonOnFailure ==
    Keyed /\ pc = "done" =>
        \A i \in DOMAIN trail : trail[i].reason = "none" => result = "success"

==============================================================================
