------------------------------- MODULE Fallbacks -------------------------------
(***************************************************************************)
(* One call of handleRequest in core/bifrost.go: the primary provider,     *)
(* then the fallbacks in their order, each through tryRequest with its own *)
(* snapshot of the plugin list (getPluginPipeline), the pre hooks, the     *)
(* queue of the provider, and the post hooks in reverse, while other       *)
(* goroutines change the plugin list (module PluginList) and the caller's  *)
(* context may end.                                                        *)
(*                                                                         *)
(* A queue is seen from outside, as ProviderQueue models it: it refuses a  *)
(* message or takes it, and a worker then answers it. One run of the       *)
(* worker's retries is one step; KeyRotation models what is inside it.     *)
(***************************************************************************)
EXTENDS PluginList

CONSTANTS
    Providers,
    Keyless,     \* the providers that are called without a key
    ImageEdit,   \* TRUE iff the request is an ImageEditRequest
    Routes,      \* a request's provider and the providers of its fallbacks
    NoProvider   \* no pinned key

ASSUME KeylessAssumption == Keyless \subseteq Providers
ASSUME ImageEditAssumption == ImageEdit \in BOOLEAN
ASSUME RoutesAssumption == Routes \subseteq Seq(Providers) \ {<<>>}
ASSUME NoProviderAssumption == NoProvider \notin Providers

VARIABLES
    pc,        \* "route", "prepare", "enter", "pre", "count", "wait", "post", "done"
    route,     \* primary provider and fallbacks
    attempt,   \* 0 for the primary provider, i for fallback i
    pipeline,  \* snapshot of the plugin list
    pre,       \* plugins whose PreLLMHook ran in this attempt
    post,      \* plugins whose PostLLMHook ran in this attempt
    left,      \* plugins whose PostLLMHook has still to run
    outcome,   \* what the attempt returns, as far as it is known
    primary,   \* primaryErr
    pin,       \* BifrostContextKeyAPIKeyID: the provider whose key is pinned
    trail,     \* BifrostContextKeyAttemptTrail: the providers of its keys
    ended,     \* the context is done
    held,      \* attempts whose message a queue or a worker holds
    answer     \* what the worker sent for this attempt, or "none"

ctxVars == <<pin, trail, ended>>
requestVars == <<pc, route, attempt, pipeline, pre, post, left, outcome,
                 primary, ctxVars, held, answer>>
vars == <<pluginVars, requestVars>>

(***************************************************************************)
(* What an attempt returns: a result; an error after which fallbacks are   *)
(* tried; an error that forbids them, because its type is                  *)
(* request_cancelled or its AllowFallbacks is false.                       *)
(***************************************************************************)
Outcomes == {"ok", "error", "final"}

(* newBifrostError and newBifrostErrorFromMsg leave AllowFallbacks nil;    *)
(* newBifrostCtxDoneError sets it to false, or forgets to (mutant).        *)
PlainError == "error"
CtxDoneErrorOpen == "error"
CtxDoneError == "final"

FallbacksLeft == attempt + 1 < Len(route)

(***************************************************************************)
(* The provider of attempt i. prepareFallbackRequest copies and retargets  *)
(* twelve kinds of requests; an ImageEditRequest, which has fallbacks too, *)
(* is not among them and keeps the primary provider.                       *)
(***************************************************************************)
Target(i) == IF ImageEdit THEN route[1] ELSE route[i + 1]

Init ==
    /\ PluginInit
    /\ pc = "route"
    /\ route = <<>>
    /\ attempt = 0
    /\ pipeline = <<>> /\ pre = <<>> /\ post = <<>> /\ left = 0
    /\ outcome = PlainError /\ primary = PlainError
    /\ pin = NoProvider
    /\ trail = {}
    /\ ended = FALSE
    /\ held = {} /\ answer = "none"

-----------------------------------------------------------------------------
(***************************************************************************)
(* RunPreRequestHooks, then validateRequestAfterPreRequestHooks: the hooks *)
(* may rewrite provider and fallbacks and pin a key of the provider; the   *)
(* caller may have pinned one as well. Without a provider the call fails.  *)
(***************************************************************************)
PreRequest ==
    /\ pc = "route"
    /\ route' \in Routes
    /\ pin' \in {NoProvider, route'[1]}
    /\ pc' \in {"prepare", "done"}
    /\ UNCHANGED <<pluginVars, attempt, pipeline, pre, post, left, outcome,
                   primary, trail, ended, held, answer>>

(* What clearCtxForFallback removes; all but the trail (mutant).           *)
ClearPinOnly == pin' = NoProvider /\ UNCHANGED trail
ClearCtxForFallback == pin' = NoProvider /\ trail' = {}

(* The next attempt; a fallback whose provider has no config is skipped.   *)
PreparePrimary ==
    /\ pc = "prepare" /\ attempt = 0
    /\ pc' = "enter"
    /\ UNCHANGED <<pluginVars, route, attempt, pipeline, pre, post, left,
                   outcome, primary, ctxVars, held, answer>>

PrepareFallback ==
    /\ pc = "prepare" /\ attempt > 0
    /\ ClearCtxForFallback
    /\ pc' = "enter"
    /\ UNCHANGED <<pluginVars, route, attempt, pipeline, pre, post, left,
                   outcome, primary, ended, held, answer>>

SkipFallback ==
    /\ pc = "prepare" /\ attempt > 0
    /\ ClearCtxForFallback
    /\ IF FallbacksLeft
       THEN attempt' = attempt + 1 /\ UNCHANGED <<pc, outcome>>
       ELSE pc' = "done" /\ outcome' = primary /\ UNCHANGED attempt
    /\ UNCHANGED <<pluginVars, route, pipeline, pre, post, left, primary,
                   ended, held, answer>>

-----------------------------------------------------------------------------
(* tryRequest.                                                             *)

(* The attempt ends without post hooks.                                    *)
Refuse(o) ==
    /\ pc' = "post" /\ left' = 0 /\ outcome' = o
    /\ UNCHANGED <<pluginVars, route, attempt, primary, ctxVars, held, answer>>

(* getProviderQueue, then getPluginPipeline.                               *)
EnterFails ==
    /\ pc = "enter"
    /\ pre' = <<>> /\ post' = <<>>
    /\ Refuse(PlainError)
    /\ UNCHANGED pipeline

Enter ==
    /\ pc = "enter"
    /\ pc' = "pre"
    /\ pipeline' = plugins
    /\ pre' = <<>> /\ post' = <<>>
    /\ answer' = "none"
    /\ UNCHANGED <<pluginVars, route, attempt, left, outcome, primary,
                   ctxVars, held>>

(* RunLLMPreHooks, one plugin.                                             *)
RunsPreHook ==
    /\ pc = "pre" /\ Len(pre) < Len(pipeline)
    /\ pre' = Append(pre, pipeline[Len(pre) + 1])
    /\ UNCHANGED <<pluginVars, route, attempt, pipeline, post, primary,
                   ctxVars, held, answer>>

PreHook == RunsPreHook /\ UNCHANGED <<pc, left, outcome>>

(* preCount: a short circuit is unwound by the plugins that saw it; by all *)
(* of the pipeline (mutant).                                               *)
PipelineCount == Len(pipeline)
PreCount == Len(pre')

ShortCircuit ==
    /\ RunsPreHook
    /\ pc' = "post"
    /\ outcome' \in Outcomes
    /\ left' = PreCount

(***************************************************************************)
(* The last plugin returned no request, the queue refuses (closing, full,  *)
(* dropped), or the context ends first.                                    *)
(***************************************************************************)
SendFails ==
    /\ pc = "pre" /\ Len(pre) = Len(pipeline)
    /\ \/ Refuse(PlainError)
       \/ ended /\ Refuse(CtxDoneError)
    /\ UNCHANGED <<pipeline, pre, post>>

Send ==
    /\ pc = "pre" /\ Len(pre) = Len(pipeline)
    /\ pc' = "count"
    /\ held' = held \union {attempt}
    /\ UNCHANGED <<pluginVars, route, attempt, pipeline, pre, post, left,
                   outcome, primary, ctxVars, answer>>

(***************************************************************************)
(* pluginCount is the length of the list as it is now, which is not the    *)
(* snapshot's; RunPostLLMHooks cuts it down to the snapshot.               *)
(***************************************************************************)
PostCount == IF Len(plugins) > Len(pipeline) THEN Len(pipeline) ELSE Len(plugins)

Count ==
    /\ pc = "count"
    /\ pc' = "wait"
    /\ left' = PostCount
    /\ UNCHANGED <<pluginVars, route, attempt, pipeline, pre, post, outcome,
                   primary, ctxVars, held, answer>>

Receive ==
    /\ pc = "wait" /\ answer # "none"
    /\ pc' = "post"
    /\ outcome' = answer
    /\ answer' = "none"
    /\ UNCHANGED <<pluginVars, route, attempt, pipeline, pre, post, left,
                   primary, ctxVars, held>>

(* The context ends the wait; only an answer does (mutant).                *)
AbandonAnswered ==
    /\ pc = "wait" /\ ended /\ answer # "none"
    /\ Refuse(CtxDoneError)
    /\ UNCHANGED <<pipeline, pre, post>>
Abandon ==
    /\ pc = "wait" /\ ended
    /\ Refuse(CtxDoneError)
    /\ UNCHANGED <<pipeline, pre, post>>

(* RunPostLLMHooks, one plugin: it may recover or invalidate.              *)
PostHook ==
    /\ pc = "post" /\ left > 0
    /\ post' = Append(post, pipeline[left])
    /\ left' = left - 1
    /\ outcome' \in Outcomes
    /\ UNCHANGED <<pluginVars, pc, route, attempt, pipeline, pre, primary,
                   ctxVars, held, answer>>

-----------------------------------------------------------------------------
(***************************************************************************)
(* shouldTryFallbacks and shouldContinueWithFallbacks.                     *)
(***************************************************************************)
MayFallBack == outcome = "error"

AttemptOver == pc = "post" /\ left = 0

FallBack ==
    /\ AttemptOver
    /\ MayFallBack
    /\ FallbacksLeft
    /\ pc' = "prepare"
    /\ attempt' = attempt + 1
    /\ primary' = IF attempt = 0 THEN outcome ELSE primary
    /\ UNCHANGED <<pluginVars, route, pipeline, pre, post, left, outcome,
                   ctxVars, held, answer>>

(* All fallbacks failed: the caller gets the primary error.                *)
Return ==
    /\ AttemptOver
    /\ ~(MayFallBack /\ FallbacksLeft)
    /\ pc' = "done"
    /\ outcome' = IF attempt > 0 /\ MayFallBack THEN primary ELSE outcome
    /\ UNCHANGED <<pluginVars, route, attempt, pipeline, pre, post, left,
                   primary, ctxVars, held, answer>>

-----------------------------------------------------------------------------
(* The worker of attempt i.                                                *)

(* A pinned key that is not a key of the provider fails the selection.     *)
KeyFound(p) == pin \in {NoProvider, p}

(* executeRequestWithRetries resets the trail of a keyed provider.         *)
WorkerRecords(p) == trail' = IF p \in Keyless THEN trail ELSE {p}

Deliver(i, o) == answer' = IF i = attempt THEN o ELSE answer

(* With the context done the answer may find nobody and be billed instead. *)
Work(i) ==
    /\ held' = held \ {i}
    /\ \/ /\ Target(i) \in Keyless \/ KeyFound(Target(i))
          /\ WorkerRecords(Target(i))
          /\ \/ \E o \in Outcomes : Deliver(i, o)
             \/ ended /\ UNCHANGED answer
       \/ /\ Target(i) \notin Keyless
          /\ UNCHANGED trail
          /\ Deliver(i, PlainError)
    /\ UNCHANGED <<pluginVars, pc, route, attempt, pipeline, pre, post, left,
                   outcome, primary, pin, ended>>

(* The caller cancels, or the deadline passes.                             *)
CtxDone ==
    /\ ~ended
    /\ ended' = TRUE
    /\ UNCHANGED <<pluginVars, pc, route, attempt, pipeline, pre, post, left,
                   outcome, primary, pin, trail, held, answer>>

Request ==
    \/ PreRequest \/ PreparePrimary \/ PrepareFallback \/ SkipFallback
    \/ EnterFails \/ Enter \/ PreHook \/ ShortCircuit
    \/ SendFails \/ Send \/ Count \/ Receive \/ Abandon
    \/ PostHook \/ FallBack \/ Return

Worker == \E i \in held : Work(i)

Next ==
    \/ Request
    \/ Worker
    \/ CtxDone
    \/ PluginNext /\ UNCHANGED requestVars

Spec == Init /\ [][Next]_vars

(***************************************************************************)
(* Goroutines that can run do run: the caller's, the worker's (whose calls *)
(* of the provider have timeouts) and each admin's once its call began.    *)
(***************************************************************************)
Fairness ==
    /\ WF_vars(Request)
    /\ WF_vars(Worker)
    /\ \A a \in Admins : WF_vars(Progress(a) /\ UNCHANGED requestVars)

FairSpec == Spec /\ Fairness

-----------------------------------------------------------------------------
TypeOK ==
    /\ pc \in {"route", "prepare", "enter", "pre", "count", "wait", "post", "done"}
    /\ route \in Routes \union {<<>>}
    /\ attempt \in Nat /\ (route # <<>> => attempt < Len(route))
    /\ pipeline \in Seq(Plugins) /\ pre \in Seq(Plugins) /\ post \in Seq(Plugins)
    /\ left \in 0..Len(pipeline)
    /\ outcome \in Outcomes /\ primary \in Outcomes
    /\ pin \in Providers \union {NoProvider}
    /\ trail \subseteq Providers
    /\ ended \in BOOLEAN
    /\ held \subseteq 0..attempt
    /\ answer \in Outcomes \union {"none"}

(***************************************************************************)
(* The post hooks of an attempt unwind its pre hooks: they run on the same *)
(* instances, in reverse order, from one of them down, whatever becomes of *)
(* the plugin list meanwhile. This is why tryRequest keeps one pipeline    *)
(* for both and RunPostLLMHooks bounds runFrom by it.                      *)
(***************************************************************************)
PostsMirror ==
    pc = "post" =>
        /\ Len(post) + left <= Len(pre)
        /\ \A i \in 1..Len(post) : post[i] = pre[Len(post) + left + 1 - i]

(***************************************************************************)
(* All attempts share one context, which a worker writes while it works:   *)
(* no fallback begins while a worker may still hold the message of an      *)
(* earlier attempt. This rests on AllowFallbacks being false in the errors *)
(* of newBifrostCtxDoneError, a timeout's included.                        *)
(***************************************************************************)
SoleUser == held \subseteq {attempt}

(***************************************************************************)
(* A fallback starts from a clean context: no key of the primary provider  *)
(* is pinned, and the attempt trail the post hooks log names no key of     *)
(* another provider, even where a short circuit or a refusal keeps the     *)
(* attempt away from the retry loop that would have reset it.              *)
(***************************************************************************)
FreshAttempt ==
    attempt > 0 /\ pc # "prepare" => pin = NoProvider /\ trail \subseteq {Target(attempt)}

(***************************************************************************)
(* What makes these inductive: the pre hooks run are a prefix of the       *)
(* pipeline and, once the message is sent, all of it; while a worker holds *)
(* the message the caller waits, or has given up for good.                 *)
(***************************************************************************)
HooksInv ==
    /\ Len(pre) <= Len(pipeline)
    /\ \A i \in 1..Len(pre) : pre[i] = pipeline[i]
    /\ pc \in {"count", "wait"} => Len(pre) = Len(pipeline)
    /\ pc \in {"pre", "count", "wait"} => post = <<>>
    /\ pc \notin {"wait", "post", "done"} => left = 0

HeldInv ==
    /\ held # {} =>
          \/ pc \in {"count", "wait"} /\ answer = "none"
          \/ pc = "post" /\ left = 0 /\ outcome = "final"
          \/ pc = "done"
    /\ pc = "pre" => answer = "none"
    /\ pc = "route" => attempt = 0
    /\ pc # "route" => route # <<>>

IInv ==
    /\ PluginInv
    /\ TypeOK
    /\ HooksInv /\ PostsMirror
    /\ HeldInv /\ SoleUser
    /\ FreshAttempt

(***************************************************************************)
(* The caller gets an answer: the worker's, or, where the worker's found   *)
(* nobody because the context had ended, the context's error.              *)
(***************************************************************************)
Answered == <>(pc = "done")

(***************************************************************************)
(* "If the primary provider fails, it will try each fallback provider in   *)
(* order until one succeeds", says the comment on handleRequest: the       *)
(* message of fallback i is for the provider of fallback i.                *)
(***************************************************************************)
FallbackReachesProvider == \A i \in held : Target(i) = route[i + 1]

(***************************************************************************)
(* "The plugin pipeline ensures symmetry: for every PreLLMHook executed,   *)
(* the corresponding PostLLMHook will be called in reverse order", says    *)
(* the comment on plugins in core/schemas/plugin.go.                       *)
(***************************************************************************)
PreHookHasPost == AttemptOver => Len(post) = Len(pre)

=============================================================================
