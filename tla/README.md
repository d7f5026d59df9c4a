# A TLA+ development of Bifrost

Bifrost is an AI gateway written in Go. A client sends one request; the gateway
picks a provider, a key and a worker, runs plugins before and after the call,
retries, falls back to other providers, and returns one answer or one stream.
This directory holds TLA+ models of the parts where that is hard to get right,
the TLC configurations that check them and proofs that TLAPS checks.

## 1. Inventory

| component | where | state | operations | what is hard |
|---|---|---|---|---|
| provider queues and workers | `core/bifrost.go` | `requestQueues`, `waitGroups`, `providers`, per-provider mutexes, lifecycle lock, retired wait groups, pools of messages and channels | `tryRequest`, `tryStreamRequest`, `requestWorker`, `getProviderQueue`, `getProviderByKey`, `prepareProvider`, `UpdateProvider`, `RemoveProvider`, `Shutdown` | producers, workers and three lifecycle operations interleave on a channel that is never closed; cancelled callers leave messages behind |
| retries and key rotation | `core/bifrost.go` (`executeRequestWithRetries`, `keyProvider`) | used and dead keys of one request, attempts, the context's attempt trail | select, attempt, rotate, back off | two budgets (attempts, keys) and two exclusion sets interact |
| fallbacks | `core/bifrost.go` (`handleRequest`, `prepareFallbackRequest`) | the context shared by all attempts | try primary, try each fallback | state of one attempt leaks into the next through the context |
| plugin pipeline | `core/bifrost.go` (`RunLLMPreHooks`, `RunPostLLMHooks`) | plugin list (atomic pointer), counters of one pipeline | pre hooks, post hooks in reverse, short circuit, reload, remove | the list changes between a request's pre and post hooks |
| key selection and stickiness | `core/bifrost.go` (`selectKeyFromProviderForModelWithPool`), `core/keyselectors` | session-to-key bindings in the kv store | select, bind, refresh | requests of one session look, draw and store in separate steps |
| key-value store | `framework/kvstore` | map with expiries | Set, SetNX, Get, Delete, sweep, close | the clock is read before the mutex is taken; a Get deletes in a second step |
| distributed lock | `framework/configstore/dlock.go`, `rdb.go` | one row per lock | TryLock, Lock, LockWithRetry, Extend, IsHeld, Unlock, cleanup | a lease expires under its holder; clean-up and insert are two statements |
| stream gate and accumulator | `framework/streaming`, `core/providers/utils` | gate state, buffer, flusher, references of an entry | Pause, Resume, End, GateSend, CloseStream, cleanup, reap | four goroutines on one gate, whose mutex is free while a chunk is sent |
| streaming attempts | `core/bifrost.go`, `core/providers/utils/stream.go`, `utils.go` | pipeline, channel and span of each attempt, the context's end indicator, the forwarder's channel | read, hook, send, look at the first chunks, retry, drain, forward, finalize | worker, provider goroutine, forwarder and caller share one context; a failed stream still runs while it is discarded |
| tracing | `framework/tracing` | traces by id, deferred spans | start, end, complete, TTL sweep | completion from another goroutine than the start |
| logging plugin | `plugins/logging` | entries of a trace, write queue, batch, timer | post hook, Inject, batch, Cleanup | shutdown while hooks enqueue |
| governance plugin | `plugins/governance` | budgets in memory and in the database, billed set | settle, bump, reset, dump, flush, restart | lock-free resets and increments of three goroutines, a dump without the window |
| model catalog | `framework/modelcatalog` | price tables | load, sync | background sync against readers |
| log, config and vector stores | `framework/logstore`, `framework/configstore`, `framework/vectorstore` | external databases | queries | transactions of the database |
| HTTP transport | `transports/bifrost-http` | configuration | endpoints | order of configuration and runtime changes |
| provider adapters | `core/providers` | none | translate a request | wire formats |
| catalog resolver, compat | `plugins/modelcatalogresolver`, `plugins/compat` | none | rewrite a request | tables |
| utilities, schemas, network, ui | | none | | |

How they interact. The transport calls `Bifrost` with a request and a context.
`handleRequest` (fallbacks) calls `tryRequest` (queue, plugin pipeline), which
puts a message into the provider's queue and waits on the message's channels. A
worker takes it, asks key selection for keys, runs
`executeRequestWithRetries` around the adapter and answers on a channel. The
logging and governance plugins see the request through pre and post hooks; for a
stream the post hooks run in the adapter's goroutine, on a pipeline of the attempt. Configuration endpoints
call `UpdateProvider`, `RemoveProvider`, `ReloadPlugin`.

What makes each component correct:

- queue: an accepted request is answered once, by its own answer; nothing is
  executed or billed twice; executed work is billed; removal and shutdown wait
  for every worker; lifecycle calls return.
- retries: attempts stay in budget, a dead key is never used again, a key is
  reused only after every other live key was tried, the trail names each attempt.
- fallbacks: each is tried at most once, in order, with its own model, and never
  after an error that forbids it.
- streaming attempts: a pipeline returns to the pool once, after the last hook on it; the
  caller reads the chosen stream from its first chunk; every stream's hooks see its end.
- plugins: the post hooks that run are those whose pre hooks ran, in reverse.
- stickiness: the requests of a session agree on one key while that key is usable.
- kv store: only a lapsed entry is swept or purged.
- lock: at most one unexpired holder; a crashed one does not keep the others out.
- gate: nothing is sent while paused, nothing buffered is lost or left without a flusher,
  chunks leave in order, and the stream closes.
- logging: an accepted entry is stored or counted as dropped; Cleanup returns.
- governance: a call is billed once, and its cost leaves the budget with its window only.

## 2. Plan

1. `ProviderQueue`, its abstract specification `RequestLife`, its inductive invariant and
   proofs (done).
2. `KeyRotation`, `PluginList` and `Fallbacks` with theirs: the rest of one request (done).
3. `StreamGate`: the delivery of a stream (done).
4. `KVStore`, and `SessionKeys` over it (done).
5. `UsageTracker`, `LogWriter`: what the plugins do after a request (done).
6. `DistributedLock` (done).
7. `StreamAttempts`: the attempts of a stream with their pooled pipelines (done).
8. Proofs about the modules of 3 to 7, the generations of the queue, and the refinement of
   `RequestLife` step by step: every safety and action property of the passing runs (done).
9. The trace store; a stream's pre hooks and short circuits; the materialized views and
   catalog synchronisation that run under the lock.

Theorems still worth having: abstract specifications of the lock and of the store, and the
safety halves of the liveness properties (what a waiting party may count on).

## 3. Modules

| module | what it is |
|---|---|
| `ProviderQueue` | the queue of one provider and everything that acts on it; its properties |
| `ProviderQueueInvariant` | the inductive invariants `IInv`, `Generations` and `ShutdownAlone`, in named parts |
| `ProviderQueueProofs` | the proofs, the refinement's included |
| `RequestLife` | abstract: what the queue promises one request |
| `ProviderQueueRefinement` | the mapping from the first to the second, and the invariant `LifeInv` it needs |
| `MCProviderQueue` | the instances TLC runs |
| `KeyRotation` | the retries of one request at one provider, its keys and what it leaves in the context; its properties and inductive invariant |
| `KeyRotationProofs` | the proofs |
| `MCKeyRotation` | the instances TLC runs |
| `PluginList` | the list of LLM plugins and the lock-free calls that change it |
| `Fallbacks` | one `handleRequest`: attempts, pipelines and the shared context; extends `PluginList` |
| `FallbacksProofs` | the proofs about both |
| `MCFallbacks` | the instances TLC runs |
| `StreamGate`, `MCStreamGate` | pause, resume and end of one streamed response; its instances |
| `StreamGateProofs` | the proofs |
| `StreamAttempts`, `MCStreamAttempts` | the attempts of one streaming request, from the worker to the caller; its instances |
| `StreamAttemptsProofs` | the proofs |
| `KVStore` | one key of the in-memory store: the steps under its mutex, its clock and sweeper |
| `SessionKeys`, `MCSessionKeys` | key selection of one session's requests; extends `KVStore`; its instance |
| `SessionKeysProofs` | the proofs |
| `UsageTracker`, `MCUsageTracker` | one budget in memory and in the database; its instances |
| `LogWriter`, `MCLogWriter` | the write path of the logging plugin; its instance |
| `PluginStoreProofs` | the proofs about `UsageTracker` and `LogWriter` |
| `DistributedLock`, `MCDistributedLock` | the lease lock in the config database; its instance |
| `DistributedLockProofs` | the proofs |

### ProviderQueue

State. `requestQueues`, `waitGroups` and `providers` are the entries of one
provider key in the maps and the slice of the same names: the per-provider
mutexes make providers independent, and `Shutdown`'s `Range` loops become steps
on the one entry. A `ProviderQueue` value of the code is a *generation*, a
number; `queue` and `closing` are functions of it, `worker` of the generation
and a slot. A `ChannelMessage` and the channels it carries are one *message*:
`getChannelMessage` takes them together and `releaseChannelMessage` returns them
together. (The code's pools may recombine message and channels; a pooled channel
is empty and nobody refers to it, which is `PooledQuiet`, so the recombination
is invisible.) `task` is the request whose content a worker executes. `response` and `errs` say whose answer is in which channel, so a
mix-up between requests is a state, not an assumption. `opc`, `old` and `hand`
are the program counter and the locals of the lifecycle calls.

Steps. One action per stretch of code between two points where another goroutine
can look: a lookup under the read lock is a step, the write lock is `mutex`,
which a removal holds while it waits for workers. `prepareProvider` is split at
each store, since `Shutdown` and `getProviderByKey` read without the lock.
`UpdateProvider` publishes in one step, because those who could look between its
stores are excluded by the mutex or by the lifecycle lock, then moves messages
one at a time: taken from the old queue, offered to the new one. Each drain loop
takes one message per step. A `select` with several ready cases is a choice, so a
send may win over a closed `done` channel.

Abstracted. What a request says, models, keys and retries (a worker executes a
message in one `busy` period), text of errors, logging and spans. Account configuration
is outside: "no config" is a choice. The five-second escape of a worker's send
never fires, because the channel is empty (`SendsNeverBlock`). A result of a
stream is a channel: its post hooks run with its chunks, in the adapter's
goroutine, and are not counted here. A plugin that rewrites the provider in a
pre hook, and several providers at once, are left out.

Fairness. `Spec` gives weak fairness to every goroutine: the Go scheduler
runs each runnable goroutine and the adapters bound a provider call by a request
timeout. A client need not leave: `ContextEnds` is not fair. Nobody need call an update, a
removal or a shutdown either: an operation is fair once it has begun (`Begun`). Where a `Wait` or a
lock is not available the action is disabled, so weak fairness promises nothing
about it.

### KeyRotation

State. The variables are the locals of `executeRequestWithRetries` under their
shortened names (`used`, `dead`, `perKey`, `permanent`, `previous`, `pending`), the
captured pool of the `keyProvider` closure (`pool`, empty where the closure is
nil, and `canRotate`), whether a hook is configured (`filter`), and two entries of the context: the attempt `trail` and
the `selected` key. Both entries may hold values of an earlier request at the
start. `limited` and `hurried` are history: how often a key was rate limited, and
how many retries were made without a pause.

Steps. The loop runs in one goroutine, so a step is the stretch between two
questions to the environment: a selection (`SelectKey`, `SelectionFails`), an
attempt that keeps its key (`KeepKey`), and the answer (`Succeed`, `Halt`, `GiveUp`,
`Retry`, the last with the loop's increment and test). The environment chooses the class of
the failure, the keys a `KeyPoolFilter` hook vetoes and the key a selector picks;
all selectors are covered, the weighted random one included.

Abstracted. A failure is one of four classes, as the code's tables of status
codes and message patterns divide them, with a flag for a capacity limit. The length
of a backoff is not modelled; whether there is one is. Spans and log lines are left
out, and the early return for a missing tracer, which `tryRequest` always stores.
A fixed key, a sticky session and a pool of one key look alike: a pool of one
that does not rotate.

### PluginList

State. `llmPlugins` is an atomic pointer to a slice that is never changed in place:
`plugins` is the slice, `version` the identity of the pointer, which grows with each
swap, so a comparison of versions is the comparison of pointers. An instance of a
plugin is its name and the number of the call that brought it. Each goroutine that
changes the list is an *admin* with the locals of its loop: `incoming`, `seen` (the old
pointer), `proposed` (the new slice), `victim` (`pluginToCleanup`).

Steps. A load with the building of the new slice is one step (only the load can be
observed), the compare-and-swap another, `Cleanup` a third. A failed swap goes back to
the load. `ReorderPlugins` may ask for any order. `AccountedFor` is what the loops are
for: every instance is in the list, on its way in, on its way out, or cleaned up, and
in one of these places once.

Abstracted. Only the LLM type of plugins exists in the list; names in
`BifrostConfig.LLMPlugins` are assumed distinct (with two of one name a removal would
drop both and clean up the last). `Shutdown`'s `Cleanup` loop is left out.

### Fallbacks

State. `route` is the request's provider followed by those of its fallbacks, `attempt`
the index of the loop of `handleRequest` (0 is the primary), `pipeline` the snapshot
`getPluginPipeline` takes, `pre` and `post` the hooks run so far, `left` the loop
variable of `RunPostLLMHooks`. Two entries of the context matter across attempts: the
pinned key (`pin`, named by the provider it belongs to) and the attempt trail (`trail`,
the providers of its keys). `held` holds the attempts whose message is in a queue or
with a worker, `answer` what the worker sent.

Steps. Each hook is a step, because the list may change between any two; so are the
snapshot, the send, the reading of `pluginCount` after the send, the wait, and the
decision of `shouldTryFallbacks` or `shouldContinueWithFallbacks`. The worker takes one
step per message: any outcome, the trail its retries leave, or nothing if the context
is done.

Abstracted. An error is known by whether fallbacks may follow it ("error", "final"); a
post hook may turn any outcome into any other. A short circuit carries a response or
an error. `PreLLMHook` changes neither provider nor fallbacks (`PreRequestHook` does).
The context is the caller's own and new; a request that skips key selection has only
keyless providers, one that skips plugins an empty pipeline. The bill of an abandoned
answer is `ProviderQueue`'s subject. Streams are not covered.

### RequestLife

A request is new, queued, running, then delivered or dropped; its caller is
calling, then answered, refused or gone. `ImplementsRequestLife` maps the place of
a request's message to a stage. A transfer is a stutter; losing a message, or
answering without having accepted, is not a step at all.

### StreamGate

State. `gate` lists the `StreamAccumulator`s created for one trace, in order; `entry` is the
one `streamAccumulators` maps the trace to. An entry may be deleted by the post hook of the
last chunk and created anew by whoever looks it up next, so a call holds the number of the
gate it found (`call.on`, `producer.on`) and not the entry. A gate has its `state`, the
buffer, the flags `term` and `endErr`, whether it knows the channel (`target`), whether a
cleanup was deferred (`cleanup`), its references and its flusher, which is off, waits on the
condition variable, is about to check it, or has let go of the mutex to send. `producer` is
the provider goroutine. `accepted`, `owed` and `reaped` are history.

Steps. One per critical section: a lookup of the entry, an operation on the gate under its
mutex, a send outside of it. `GateSend` splits into the section that decides a chunk's fate
and the send. `CloseStream` ends the gate, looks the flusher up in a second step and waits
in a third. The flusher keeps the mutex from its check to the next send, so `Drain` and
`AfterDrain` are functions from gate to gate. A deferred cleanup runs as the flusher exits.

Abstracted. A chunk is its index; `BufferLimit` counts chunks for bytes. Two plugins do not
call at once: the second would wait for the first at the mutex, but for the lookup. The
assembly of a response from chunks is left out. A cancelled context lets a send fail; it
need not.

Fairness. The producer, a plugin's call, and each flusher run on; no plugin need resume. The
close of the channel does not depend on one, since `CloseStream` ends the gate.

### StreamAttempts

State. An attempt is a number; fallbacks go on counting. `prov` is the place of its provider
goroutine with the chunk in hand: its class, the helper that processes it and what follows.
`pipe` is its plugin pipeline, `span` its llm span, `chan` its channel. `final` is the end
indicator and `done` the end of the context, which all attempts share; `deferred` says whose
span the trace store keeps. `wpc` is the worker, `fwd` and `hand` the forwarder behind
`CheckFirstStreamChunkForError`, `out` its channel. `stale`, `misused` and `settled` are history.

Steps. The goroutine's are the read, the post hooks, the send and `completeDeferredSpan` of each
chunk, then its deferred calls one by one: the error of a cancellation or timeout, the close, the
finalizer. The worker reads up to the first output, drains a failed stream, retries, or
stores the span and delivers. The forwarder's receive and send are two steps.

Abstracted. A chunk is its number and one of four classes. A failure may be retried or not as
its class allows; keys and budgets are `KeyRotation`'s. All adapters have the shape of
`openai.go`. The send is the ungated one; `StreamGate` has the other. A real tracer is
assumed: without one no span is deferred, and the deferred call finalizes. Delivery and
receipt are one step. Pre hooks, short circuits and the hooks `tryStreamRequest` runs on an
error use its own pipeline and are left out; so is the passthrough of large payloads, which starts
no goroutine (its pipeline is left to the garbage collector).

Fairness. Every goroutine runs on; the provider's stream ends, since reads have an idle timeout;
the caller reads what it is given or its context ends.

### KVStore and SessionKeys

State. One key of the store: `entry` with its expiry, `closed`, and the time a running sweep
has read. A request is its place in `selectKeyFromProviderForModelWithPool` with its locals:
the usable keys it computed (`pool`), the key found under the session (`seen`) and the one it
drew (`pick`).

Steps. Each call of the store is two: the clock is read on entry (`Call`), the mutex is taken
later (`Get`, `Refresh`, ...). `Get` deletes a lapsed entry in a third, under the write lock,
where it looks again. The sweeper is two steps likewise. The account may exchange its keys at
any moment, the store may close.

Abstracted. The filters that make a pool of the account's keys (model, status, batch, pins)
are one choice of a set, since they read nothing that changes under a request; the weighted
selector is any choice from it. There is no delegate in this repository, so replication is
left out.

### UsageTracker

State. A budget's amount is the *set* of calls it counts, in memory (`mem`) and in the
database (`db`), each with the start of its window; a sum would hide which call was lost.
`billed` is the idempotency set with the time of each claim. `call` has the place and locals of each
settlement (`raw` is the budget it loaded), `resetter` those of the worker and of the startup
reset, `flush` the snapshot of Cleanup's dump.

Steps. The compare and swap loops are a load and a swap. A reset is the look, the swap and the
database write; a dump the read and the write. `Down` ends the process anywhere and `Restart`
loads the row and runs the startup reset. A statement may fail.

Abstracted. One budget; rate limits have a copy of this code. An amount of zero is a
settlement that is claimed and raises nothing. The clock runs at any place, also between a
reading and the swap that uses it. The `snap` of a reset is the usage its `Range` has shown,
which `ResetBudgetAt` does not use; it is kept for `LostInRaceOnly`. `Life` bounds the distance of
two settlements of one attempt; the code needs it to be at most the TTL of the billed set, five
minutes.

Fairness. The worker ticks; a database that is written again and again does not fail each
time (`SF_vars(DumpWrite)`, for `Durable` alone).

### LogWriter

State. Every entry has a `place`: with its producer, in the list of its trace (`held`), queued, in the
batch, handed over to Cleanup, or out; `stored` and `counted` say what became of it. `box`
numbers the lists that `pendingLogsToInject` has held for the trace. `timer` is the timer's
channel and `running` the flag `timerRunning`, which need not agree.

Steps. The look at `closed` and the send are two; the take of a trace's list and the range
over it are two. The writer's select takes any ready case. A batch may be stored in part,
or panic. Cleanup is its seven stages in order.

Abstracted. The order in the queue; an entry's content; size in bytes (a batch may be full by
size at any entry). The pending entries between pre and post hook are not covered.

Fairness. The writer, the timer, Cleanup and the deferred updaters run on, and the store
answers. A host that cancels the context given to `Init` calls Cleanup in the end.

### DistributedLock

State. `row` is the row of one lock key, and `lock` the `DistributedLock` objects with
their locals: `at` is the clock reading the next statement will use, `lease` the end of the
lease its owner knows of, `tries`, `begun` and `wake` those of the retry loop.

Steps. A clock reading and the statement that uses it are two steps, so a reading may be old
when it is used. `TryLock` is the deletion of an expired row and the insertion. A statement
may fail, an insertion also after it took effect; an instance may crash anywhere. A job runs
from the acquisition until `Unlock`, however long.

Abstracted. One key; the instances' clocks agree. Seconds are ticks: the backoff of
`LockWithRetry` keeps its values.

## 4. Runs

| run | instance | shows |
|---|---|---|
| `queue_safety` | lazy creation by 3 streams, one of which may leave, a getter and an update; constructors fail; `dropExcessRequests` | `AtMostOnce`, `NoCrossTalk`, `SendsNeverBlock` |
| `queue_live` | 2 requests, one of which may leave, 1 update, 1 removal or shutdown, fair | `ShutdownStopsWorkers`, `ServedWhilePublished`, `RemoveQuiesces`, `EarlyAnswered`, `OpsReturn`, `ImplementsRequestLife` |
| `rotation` | 3 keys, 6 retries, with and without a hook | `DeadKeyRetired`, `FairRounds`, `HurriedBounded`, `RotationTruthful`, `ServedKeyReported` |
| `fallbacks` | two fallbacks, 2 admins, 2 changes, fair | `AccountedFor`, `PostsMirror`, `SoleUser`, `FreshAttempt`, `Answered`, `ChangesEnd` |
| `stream_gate` | 3 chunks, a buffer of 2, 3 plugin calls, 4 gates, a reap, fair | `NoLostWakeup`, `NoStrandedChunk`, `NothingLost`, `QuietClose`, `StreamEnds` |
| `stream_attempts` | 2 attempts, streams of 3 chunks, channels of 1, fair | `HooksHoldPipeline`, `ChunksDelivered`, `PipelinesReturn`, `StreamsSettled` |
| `stream_retry` | the same | `NoHooksOnReturnedPipeline` fails |
| `session_keys` | 3 requests, 3 keys, 1 change of the account | `Agreement`, `LiveEntryKept` |
| `usage` | 2 settlements, 2 attempts, 1 restart, both kinds of windows, fair | `BilledOnce`, `LostInRaceOnly`, `Durable` |
| `usage_race` | the same without a restart | `IncrementKept` fails |
| `log_writer` | 3 entries, 2 of one trace, a queue of 1, batches of 2, fair | `PartialBatchTimed`, `Settled`, `CleanupReturns` |
| `lock` | 3 locks, 1 retry, 1 failing statement, lease of 1 | `JobsDisjoint`, `GivesUpToTheLiving` |

No run lists a module's `TypeOK`: each is proved (section 5).

Bounds. `MaxGen` bounds the queues made: three is an update of an update, so
that one generation is retired while the next is replaced. The first buffer has
two slots and its successors one, so a transfer meets a full queue. Two
requests are enough for a stranger's answer, three for a transfer that is cancelled
with a message still behind it. One worker per generation suffices for the safety properties: workers
share nothing but the queue. Behaviours are finite (a request is made once,
an operation runs once), hence `CHECK_DEADLOCK FALSE`: a system whose calls have all
returned has no step left. Six retries at three keys reach two full rounds of
rate limits and the start of a third. Keys are symmetric. A call that returned stutters, so deadlock is checked there.

For `fallbacks`, two changes are the fewest that race for one swap, and with one
plugin in the list and two names a change can replace, append, remove or reorder.
Two fallbacks make one failure of a fallback that is followed by another attempt, and
the keyless one in the middle is where a stale trail would survive the worker. The
fairness is that of goroutines: the caller's, the worker's and each admin's once its
call began; the context need not end, and no admin need begin.

For `stream_gate`, three chunks and a buffer of two make one chunk that is buffered, one that
overtakes or overflows and a last one; three calls are the fewest that pause, resume and end.
`MaxGates` lets an entry be deleted and created anew, and once more.
For `stream_attempts`, a second attempt is a retry or a fallback; three chunks are one before
output, one that starts it and a last one, and a channel of one makes every sender wait.
For `session_keys`, the third request makes a stale reader of what two others agreed on, and
the clock passes one lifetime (`TTL` 2) with room for a reading that is old.
For `usage`, two settlements race for one attempt or bump for two; with a duration of 2 and a
calendar period of 3 a window of either kind can end, before and after the one restart, a bump
may open a window in the middle of a period, and at 3 a reset reads a later time than a bump did
at 2. The settlements are interchangeable, and so are the attempts; `Durable` rules out a
symmetry set, so `MCSpec` (with `FirstIsFirst`) names the first settlement `c1` and what it
settles `a1`. In `queue_live` `LiveSpec` (with `OneCall`) lets one of the removal and the
shutdown run beside the update.
For `log_writer`, the trace's two entries race for its list while the third goes direct; a
queue of one is full after one send, and a batch of two can be partial or full.
For `lock`, the third instance arrives while two others hold and wait; the retry
sleeps 1, so that with a lease of 1 a waiter outlasts a crashed holder, as ten retries (191 s)
outlast 30 s in the code. The clock ends at 3: a call that begins at 1 or 2 can give up, after a
holder that took the lock before it has crashed, which is what a clean-up that left the expired
row of another instance alone (the mutant `CleanupOwn`) would fail. The clock's end stops a behaviour, hence `CHECK_DEADLOCK FALSE`.

## 5. Proofs

`ProviderQueueProofs` proves, for every value of the constants that satisfies the
named assumptions of `ProviderQueue` (finite buffers of at least one slot, the four
kinds of calls distinct, null values outside their sets):

- `Invariance`: `Spec => []IInv`;
- `TypeCorrect`, `OwnAnswers` (`NoCrossTalk`), `PoolIsQuiet` (`PooledQuiet`),
  `SendsAreImmediate` (`SendsNeverBlock`), `ChargedOnce` (`AtMostOnce`);
- `GenerationsKept`: `Spec => [](IInv /\ Generations)`, and from it `EveryProviderServed`
  (`ServedWhileInSlice`), `PublishedIsServed` (`ServedWhilePublished`), `RemovalWaitsForWorkers`
  (the action property `RemoveQuiesces`), `ShutdownWaitsForWorkers` (`ShutdownStopsWorkers`);
- `QueueImplementsRequestLife`: `Spec => ImplementsRequestLife`.

None of these is inductive alone. `IInv` has three layers, proved one after the other:

1. `TypeOK` and `Control`: who holds the mutex in which step, what a caller, a
   worker and an operation hold in each state of theirs;
2. `Ownership`: a message is in one place of one queue or in one hand; while it
   is anywhere, or in the pool, its channels are empty; once it has left, at most
   one of them holds the answer to the request it was filled for. This is why a
   cancelled caller must not return its message to the pool.
3. `Accounting`: outside the pool a request has one message; while that message
   is queued the request has not run, and while it may still be answered the
   request has not been billed.

Each layer has a lemma per operation; `OwnershipFrame` and `AccountingFrame` carry
the parts a step does not disturb.

`Generations` stands on `IInv` and says of a generation what the wait groups rely on:
`Untouched`, a queue not made yet has no worker; `Registered`, the maps and the slice agree
except inside `prepareProvider` and after it failed; `ClosedBySomebody`, a worker gives up only
a closed queue, and the published one is closed by a removal or a shutdown only; `Awaited`, a
generation with a running worker is the current one, is being replaced, or has a cleanup
goroutine. A removal that waits for the current wait group and the retired ones has thus waited
for all. `RemovalWaitsForWorkers` and `EveryProviderServed` have no hypothesis. The other two
have those of the code's own claims, and TLC refutes each without them:
`PublishedIsServed` needs that constructors do not fail and a provider has workers to begin with
(`~CreateMayFail`, `Slots # {}`); `ShutdownWaitsForWorkers` that the provider was prepared by
`Init` and nobody removes it (`InitGens = {1}`, `Removals = {}`), as section 6 explains. The
latter adds `ShutdownAlone`: what the lifecycle lock keeps away from a shutdown.

The refinement takes each step of the queue to one of `RequestLife` or to a stutter. Its state
function reads a request's stage off the place of its one message (`OneMessage` of `IInv` says
there is one), and `LifeInv` adds that an answered request has returned and left no message,
and that a worker with a message is busy. `StageIs` gives the stage as the `Place` of the
message; `MessageMoves` covers the steps that move one message and no caller, `OneLife` those
that end or begin a call; a lemma per operation (`TakeLife`, `DeliverLife`, `SendLife`,
`ReceiveLife`, ...) names the abstract step, `TransferTakeLife` and `TransferPutLife` the
stutters, and `StepLife` goes through `Next`.

`KeyRotationProofs` proves, for every finite set of keys, every number of retries, with
and without hook and fallbacks:

- `Invariant`: `Spec => []IInv`;
- `RotationTypes` (`TypeOK`), `DeadKeysStayRetired` (`DeadKeyRetired`), `RoundsAreFair`
  (`FairRounds`), `TrailIsTruthful` (`RotationTruthful`), `HurryIsBounded`
  (`HurriedBounded`), `ReturnIsTruthful` (`ServedKeyReported`, `ExhaustionProved`).

Its `IInv` adds what the properties lack to be inductive: `LoopInv` ties the length and
the end of the trail to the loop counter and the current key; `RotationInv` says
where the pending mark points; `DeadInv` that the dead keys are those the trail
blames; `RoundInv` that live keys have been limited equally often, counting
out the ones used in this round; `HurryInv` that a permanent failure has paid for
the pause the next selection may skip.

`FallbacksProofs` proves, for any plugins, admins, providers and routes that satisfy the
named assumptions (distinct initial names, nulls outside their sets, routes not empty):

- `PluginsAccountedFor`: `PluginSpec => []AccountedFor`, and `Invariance`: `Spec => []IInv`;
- `EveryPluginAccountedFor` (`AccountedFor`), `FallbackTypes` (`TypeOK`),
  `PostHooksMirrorPreHooks` (`PostsMirror`), `OneAttemptAtATime` (`SoleUser`),
  `FallbackContextClean` (`FreshAttempt`).

`PluginInv` makes `AccountedFor` inductive: the four places are disjoint and cover the
known instances, and a proposed slice whose swap would succeed differs from the list by
the victim and the instance that comes in (`Successor`). The lemmas `Replaced`,
`Appended`, `Removed` and `Reordered` say so of the four ways to build a slice. A swap
raises the version, so the proposals of all others lapse. For the call, `HooksInv` says
the pre hooks run are a prefix of the snapshot, all of it once the message is sent;
`HeldInv` that while a message is held its caller waits, or has given up with an error
that forbids fallbacks.

`StreamGateProofs` proves, for every number of chunks, calls and entries and every limit of the
buffer:

- `Invariance`: `Spec => []IInv`; `GateTypes` (`TypeOK`), `WakeupsArrive` (`NoLostWakeup`),
  `ChunksHaveFlushers` (`NoStrandedChunk`), `NobodySendsAfterClose` (`QuietClose`),
  `NothingIsLost` (`NothingLost`).

Its invariant has three layers. `Local` is about one gate: what its mutex protects, by which a
sleeping flusher has nothing to do. `Tracked`, which holds as long as nobody reaps the stream,
follows the entry of the trace: a gate that is no longer mapped, or that `CloseStream` has been
through, is over. `Apart` and `Kept` follow each chunk: it is in one place, and one that was
accepted is delivered, buffered, in the flusher's hand, or owed to an ended gate. Properties of
the third layer need no reap; those of the first do not care.

`StreamAttemptsProofs` proves, for every number of attempts and chunks and every capacity of the
channels:

- `Invariance`: `Spec => []FinalizerInv`; `StreamTypes` (`TypeOK`), `HooksKeepPipeline`
  (`HooksHoldPipeline`), `EveryChunkArrives` (`ChunksDelivered`).

`FinalizerInv` adds who is at work: a goroutine runs hooks only before it closes its channel, and
the worker begins another attempt or finalizes only after that, so one goroutine at a time is
active (`OneAtWork`); unless it began with the end indicator set, the indicator says whether its
last chunk has been read, and it holds its pipeline until then (`HeldInHand`). `DeliveryInv` adds
that what the caller read, the forwarder's output and hand, and the channel of the chosen
attempt are consecutive pieces of 1, 2, 3, ... (`Parts`), that one attempt is chosen
(`ChosenOnce`), and what a closed channel implies (`Complete`).

`SessionKeysProofs` proves, for any requests, keys, pools, lifetime and clock:

- `Invariance`: `Spec => []IInv`; `SessionTypes` (`TypeOK`), `OneKeyPerSession` (`Agreement`),
  `LiveEntriesStay` (the action property `LiveEntryKept`).

`Agreement` is a consequence of what each request owes the entry in the undisturbed case
(`OneKey`): nobody is on the way to delete it, and from its own look at the entry on, the key a
request uses is the entry's. `Timely` says that no reading is ahead of the clock.

`PluginStoreProofs` proves of the budget, for every number of calls, attempts, ticks and restarts:

- `Invariance`, `UsageTypes` (`TypeOK`), `AttemptsBilledOnce` (`BilledOnce`), and
  `LossesAreRaces` (the action property `LostInRaceOnly`), for every duration and period and a
  clock that runs between a reading and its swap.

`Claims` is what `BilledOnce` lacks: a settlement that counts holds the claim of its attempt, or
the claim is older than its lifetime, past which no settlement of the attempt comes. `LossesAreRaces`
rests on two parts: by `CountedAreDone` a call is in no count, and in no snapshot of one, before
its swap; by `Readings` a bump swaps no earlier than the time it read, the target of a reset of an
aligned budget is a period that has begun, and a window that is not over holds no call which the
reset has seen. A bump that opens a window leaves its own call alone in it, which nobody has seen;
a bump into the old window leaves it as ended as it was, and what has ended stays so (`OverStays`,
from `PeriodsGrow`: calendar periods follow each other).

Of the logging plugin's write path it proves, for any entries, queue and batch:

- `LogInvariance`, `LogTypes` (`LogTypeOK`), `BatchesAreTimed` (`PartialBatchTimed`), and
  `EntriesAccountedFor`: what has left is stored or counted, and the queue is closed only when
  the writer is gone and the drain has left nothing. It is the safety half of `Settled`.

`TimerTruthful`, that `timerRunning` is set exactly while the timer is armed or has fired, makes
`PartialBatchTimed` inductive; the model keeps the flag and the timer apart, and assumes nothing.

`DistributedLockProofs` proves, for any locks, lease, retries, clock and job bounds:

- `Invariance`: `Spec => []IInv`; `LockTypes` (`TypeOK`); `LeasesExclude` (`JobsDisjoint`);
- `PatienceKept` and `PatienceOutlastsTheDead` (the action property `GivesUpToTheLiving`).

`JobsDisjoint` alone says nothing about the row, so `IInv` adds `LeaseInv`: until the lease
a worker knows of has ended, the row is its own, with a lease that ends no sooner. Since a
clean-up may use an old reading, it rests on `RetryInv`, by which no reading is ahead of the
clock: what looks expired by an old reading is expired. The lemma `StepOf` says what a step
of one lock owes the others; there is a lemma per statement.

`Patience` adds up the pauses of the backoff table (`Waited`, with `PauseAdds`): a lock at its
n-th try began that long ago, and if no statement failed, a row older than the call that survived
its clean-up had a lease left then. The hypothesis `TTL <= Waited(MaxRetries)` is what the
callers configure, ten retries (191 s) against 30 s; it is exact, since with a TTL one longer TLC
refutes the property. The bound on the retries of an instance is `MaxRetries`, any number.

Only model-checked: liveness (`EarlyAnswered`, `OpsReturn`, `Answered`, `ChangesEnd`,
`StreamEnds`, `PipelinesReturn`, `StreamsSettled`, `Durable`, `Settled`, `CleanupReturns`), which
is beyond the prover, as is `ENABLED`. `NoHooksOnReturnedPipeline` and `IncrementKept` are
refuted by their runs. Every other property of the runs is a theorem.

## 6. Where the code does otherwise

What the models show the code to do against a comment, or against what one would expect.
Two have runs (`stream_retry`, `usage_race`); the others are reproduced as said.

Queue and fallbacks.
- A worker's select may put a result into the buffered channel of a caller that has just left
  (`bifrost.go:5644`): nobody bills it, though `billAbandonedTerminal` relies on a
  rendezvous. `ExecutedIsBilled` with one request that may leave.
- A provider created lazily while `Shutdown` runs is waited for but never signalled
  (`bifrost.go:7016`), so `Shutdown` hangs. `OpsReturn` with a shutdown and `InitGens = {0}`.
- A constructor error in `prepareProvider` leaves a published queue without workers
  (`bifrost.go:3467`). `ServedWhilePublished` with `CreateMayFail` and `InitGens = {0}`.
- A send that follows the last sweep of a removal is not answered; the comment on
  `drainQueueWithErrors` concedes it, and `EarlyAnswered` is about requests queued before.
- An attempt that ends with an internal error or a cancellation keeps a nil `FailReason`
  (`bifrost.go:5036`; `schemas/bifrost.go:336` says nil means success). `FailReasonOnFailure`.
- The fallback of an image edit request goes to the primary provider again
  (`bifrost.go:3717`). `FallbackReachesProvider` with `ImageEdit = TRUE`.
- Post hooks of plugins whose pre hooks ran are skipped when the queue refuses the request,
  its context ends, or the plugin list shrinks (`bifrost.go:4162`, `4291`, `4229`), though
  `schemas/plugin.go:197` promises symmetry. `PreHookHasPost`.
- A keyless request that fails on a reused context keeps the selected key of the request
  before it, since the loop clears it only where there are keys.

Streams.
- While the flusher sends the last buffered chunk the buffer is empty, so the next live chunk
  goes straight to the channel and may arrive first (`gate.go:344`), though `gate.go:341` says
  that order is preserved. `InOrder` as an invariant of the run `stream_gate`.
- `EndStream` promises that later chunks are dropped (`context.go:464`), but the last chunk's
  post hook deletes the ended entry before `GateSend` looks it up again and creates an active
  one, so the chunk is delivered.
- The flusher of a reaped gate cleans up by request ID and so may delete the entry of the gate that
  replaced it; if that gate is paused, its flusher sleeps for ever. `StreamEnds` excludes reaped
  streams. `cond.Wait` does not watch the context either: only a close, a resume, an end or a reap
  wakes a paused flusher.

- A retry keeps the end indicator that the failed stream's error event has set (`bifrost.go:5035`;
  only `clearCtxForFallback` clears it). Its first chunk then counts as the last:
  `completeDeferredSpan` returns its pipeline to the pool while later chunks still run hooks on
  it. Run `stream_retry`; `HooksHoldPipeline` and `StreamsSettled` except such retries. If
  such a retry is cancelled, `HandleStreamCancellation` takes it for handled and its hooks see no
  cancellation (`EveryStreamSettled` is refuted).
- The goroutine of a stream may be through before the worker stores the deferred span
  (`bifrost.go:4998`), `ProcessAndSendError` never completes it (`utils.go:2492`), and a last chunk
  whose send fails leaves it too: nobody ends the llm span. `SpansEnd` is refuted.

Sessions.
- Two requests that see the same stale key both delete: the second deletes the entry the first
  has just stored, and two requests of one session use two keys (`bifrost.go:6925`). The
  refresh of a key writes it back by a plain Set and may undo such a deletion
  (`bifrost.go:6920`). `LiveEntryKept` allows both to these requests and to no other.

Usage.
- A window reset by a bump never reaches `last_reset` in the database (`store.go:2047`), so the
  startup reset after a restart wipes the usage of a window that has not ended. `ResetsExpiredOnly`
  with the instance of `usage`.
- A bump reads the clock at the end of a window, the worker a moment later; the bump opens the
  new window and swaps, and the worker's reset, whose target is later than the start of that
  window, wipes it with the increment (`store.go:396`, `1733`, `504`), though the comment at
  `store.go:1730` says that a concurrent increment is never dropped. Run `usage_race`;
  `LostInRaceOnly` says that nothing else loses a call.
- Cleanup dumps before it stops the worker (`tracker.go:435`): an older snapshot of the worker may
  be written after the final one.
- Bumps reset calendar aligned budgets by their duration, without the calendar (`store.go:396`):
  in a month of 31 days a monthly budget is reset a day early.

Logs.
- An entry whose producer saw the plugin open is sent between the drain and the close of the
  queue: neither stored nor counted (`main.go:1194`). `Settled` is about entries queued before.
- An entry appended to a list `Inject` has already ranged over is lost (`main.go:1229`); it ends as
  `orphan`.
- Cleanup's deadline bounds neither the batch being stored nor an updater whose usage
  channel is never closed (`main.go:1172`): without the writer's or the updaters' fairness TLC
  refutes `CleanupReturns`.

Lock.
- Nobody in the repository calls `Extend`, so a job longer than its lease (30 s) runs beside the next
  one; `JobsDisjoint` says this is the only way.
- `Lock` makes 101 tries 100 ms apart, 10 s in all, and gives up while the 30 s lease of a crashed
  holder lasts, though `modelcatalog/main.go:429` says that it blocks until acquired.
  `GivesUpToTheLiving` is about `LockWithRetry`.

## 7. Not modelled

A short circuit that carries neither a response nor an error (`bifrost.go:4111`) goes on to the
send: the pre hooks behind it are skipped and, as `pluginCount` is that of the whole list, their
post hooks run. `Fallbacks` has only short circuits with one of the two, so `PostsMirror` says
nothing of it. The return for a missing tracer (`bifrost.go:4092`, `4846`) is left out: `Init`
stores one. So is the return without an end indicator when a response converter yields nothing at
the end of a stream (`openai.go:948`): no caller in the repository passes a converter there.

`PROJECT.json` lists every component. The adapters, the schemas, the databases' queries, the
HTTP handlers and the front end, nine tenths of the code, are data transformation and I/O; the
other parts without a module are in step 9 of the plan.
