# Flux: formal models of the serving engine

Flux (`src/src/flux`) serves a language model over HTTP. Requests wait in a
bounded queue; a scheduler admits them when their key/value (KV) cache fits a
pool of accounting blocks; a worker runs them together, one prefill at a time
and one batched decode step per iteration; a prefix cache lets requests with the
same leading tokens share blocks. What is hard in it is bookkeeping across
actors and not numerical work, and the bookkeeping is what these modules model.

All paths below are relative to the repository; `engine/` and `server/` stand
for `src/src/flux/engine/` and `src/src/flux/server/`.

## Inventory

| Component | State | Operations | Interacts with | Hard part | Correct when |
|---|---|---|---|---|---|
| Block pool, `engine/block_pool.py` | free deque, blocks per sequence | allocate, reserve, release, detach, free | scheduler, worker, prefix cache | ownership passes between sequences and the cache through `detach` and `release` | no block is used twice, none is lost, the reservation covers the tokens |
| Prefix cache, `engine/prefix_cache.py` | entries with block lists and reference counts, pins per block | peek, lookup, insert, adopt, release, evict | pool, scheduler, worker | entries share blocks with entries that extend them; eviction while others hold references | pins and references are exact, nothing in use is evicted |
| Scheduler and queue, `engine/scheduler.py` | waiting deque, its event | submit, admit (fcfs, memory_fit), pop, push_front, remove, wake | HTTP handlers, worker, pool, cache | the test for fitting and the allocation count differently; the event is cleared and set by different tasks | nobody is lost, overtaken (fcfs) or starved; limits are kept; no wakeup is lost |
| Continuous worker, `engine/worker.py` | `stats.running`, the list being admitted, the stop flag | run, prefill, decode step, drop, abort, finish, leftovers | all of the above; a thread for the model | the loop, its thread and the abort flags interleave; eight places end a sequence | every admitted sequence is released exactly once; what is over stays over; shutdown drains |
| Sequence, `engine/sequence.py` | status, output, abort flag, blocks, prefix key, token queue | created by a handler, then written by the worker | everybody | written by a thread, read by the loop | status only moves forward |
| HTTP handlers, `server/routes_openai.py`, `server/routes_admin.py` | `generate_lock`, job records | check, submit, wait, stream, generate under the lock, abort, statistics | scheduler, sequences, `stats.running`, engine, counters, control plane | `admin_abort` runs in a thread pool; a client leaves mid-stream; the engine raises | an abort reaches the sequence wherever it is; one generation at a time; records and counters agree with what took place |
| Shutdown, `server/app.py` | the task | request_stop, wait 10 s, cancel | worker | stop requested while the loop sleeps; time-out | accepted requests end |
| Queued worker, `engine/worker.py` | as above, one sequence | run | scheduler, cache | as above, with aborts between tokens | as above |
| Streams, `server/sse.py` | token queue, finished event | text deltas | worker's thread | queue and event are set in two steps | every token is delivered before the end |
| Control plane, `src/src/flux/redis_client.py` | counters and jobs in Redis | allow, put_job, get_job | HTTP handlers | two calls that are not atomic | the limit is enforced and expires |
| Engines, batching, `engine/cached_engine.py`, `naive_engine.py`, `batching.py`, `kv_utils.py` | KV tensors per sequence and per entry | prefill, prefill from a prefix, decode alone, decode a batch | workers, prefix cache, model | rows of different lengths in one batch, prefixes cut from other prompts, positions | every cache encodes its own text; tokens are those an engine without caches could give |
| Sampler, stop ids, `engine/sampler.py`, `engine/tokenizer.py` | none | greedy, nucleus, stop ids | workers | boundaries of the nucleus | the candidates are the likely tokens |
| Metrics, `src/src/flux/metrics/prometheus.py` | counters, gauges | observe | handlers, worker | fed from two sides | a request is counted once |
| Configuration, wiring, schemas, dashboards, load generator | views | | | | |

## Modules

| Module | Models |
|---|---|
| `BlockPool` | the pool: its operations as functions from pool to pool |
| `PrefixCache` | the cache: likewise, on a record `kv` that extends the pool's |
| `SequenceKv` | what scheduler and worker do to pool and cache for one sequence: admission that succeeds or is undone, late bind, release |
| `KvAccounting` | a state machine that applies these operations in any order the callers may; the invariants of the accounting |
| `BlockLedger` | abstract specification: for every block, who counts on it |
| `KvAccountingProofs` | the theorems about `KvAccounting` |
| `Scheduler` | the queue and the two admission policies, as operators |
| `WorkerCommon` | what both workers share: queue and event, the handlers that submit and abort, the shutdown, admission, insertion after a prefill, and the properties of both |
| `ContinuousWorker` | the continuous-batching loop and its thread; refines `KvAccounting` |
| `QueuedWorker` | the sequential loop and its thread; refines `KvAccounting` |
| `WorkerCommonProofs` | lemmas for both workers: the queue's operations, the handlers' steps, and that they keep to the accounting |
| `ContinuousWorkerProofs`, `QueuedWorkerProofs` | the theorems about each worker |
| `Delivery` | how tokens and outcome of one request reach its client: token queue, event, text deltas, the stream and the handler that waits |
| `DeliveryProofs` | the theorems about `Delivery` |
| `ControlPlane` | the rate limit of one client and the job record of one request |
| `Sampler` | which tokens may be drawn from a distribution, and the stop ids |
| `KvTensors` | KV caches as sequences of cells, each the text it encodes; slicing, padding, mask, extraction; the model's forward pass (external) |
| `NaiveDecoding` | abstract specification of generation, and `NaiveEngine`: every token from the whole text, nothing kept in between |
| `CachedDecoding` | `CachedEngine` as workers and handlers drive it, with the contents of the prefix cache; refines `NaiveDecoding` and, in what it does to pool and cache, `KvAccounting` |
| `CachedDecodingProofs` | the theorems about `CachedDecoding`, with the sampler's |
| `AdminAbort` | calls of `admin_abort` in threads against `run()`, admission and the handlers, at the grain at which CPython switches threads |
| `AdminAbortProofs` | the theorems about `AdminAbort` |
| `Requests` | the handlers of `/v1/completions` and `/v1/chat/completions`: checks, submission, `generate_lock`, answers, job records, counters |
| `RequestsProofs` | the theorems about `Requests`, and those about `ControlPlane`, which its handlers call |
| `MCKvAccounting`, `MCContinuousWorker`, `MCQueuedWorker`, `MCCachedDecoding`, `MCAdminAbort` | instances for TLC; `WorkerInstances` has the requests of the workers'; `Delivery`, `ControlPlane` and `Requests` need numbers and names only |

There are two chains of refinements:
`CachedDecoding` => `NaiveDecoding` (`NaiveSpec`, checked in `cached_decoding`), and
worker => `KvAccounting` => `BlockLedger`, for either worker. The links
of the second chain are `AccountingSpec` (checked in `worker_cache` and `queued_worker`): `held` is the set of
live sequences that are not in the queue, `done` those that are over; and
`LedgerSpec` (checked in `kv_accounting`): a block is claimed by the sequence
whose private block it is, or by all that hold an entry which lists it.
`CachedDecoding` joins the second chain at `KvAccounting`, too. All links are proved.

### How state and actions correspond to the code

`kv` gathers everything the accounting changes: `free`/`alloc` are `_free` and
`_alloc`; `stored`, `blocks`, `refs` are `_entries` and the fields of each entry;
`pins` is `_block_pins`; `older` is the order of `last_used` (time stamps
themselves are not kept); `key` is `prefix_key`. An operation that the code may
complete in several ways (which free blocks it gets, which entry it shares from)
returns the set of its results, and the action picks one.

In the workers, `queue` and `event` are the waiting deque and its asyncio
event, `running` is `stats.running`, `admitted` and `next` the list of one
iteration and the position in it (the sequential worker takes its first element
only), `pc` the place of `run()` or of the thread it
waits for. The labels of `pc` are of two kinds. At `LoopPcs` the loop executes
`run()` without an await, so no handler can run; the exception is
`request_abort()` from `admin_abort`, which FastAPI runs in a thread and
which may raise the flag of a running sequence at any time. At every other label
`run()` waits (for the event, for `sleep(0)`, for its thread) and the handlers
take their steps. A step of the thread ends where it reads an abort flag again.

`Delivery` looks at the end of a sequence, which the workers take as one step, in
the steps a client can tell apart. `prod` is the place of the worker's thread (or of
`admin_abort`'s) between two writes others can see; `client` is the place of the
coroutine in `_stream_chat`/`_stream_completion`, `iter_text_deltas` and
`_next_token`, or in `_wait_result`. `sched` holds the callbacks of
`call_soon_threadsafe` that have not run, `items` is `token_queue`, `finished` and
`waiter` are the two halves of the asyncio event. The client's awaits are `start`,
`get`, `check`, `send` and `blocked`; while it is anywhere else the loop runs nothing else
(`LoopFree`), but the thread goes on. `prev`, `sent` and `told` are the text made into
deltas, the text received, and the outcome the client was told. `dead` says that the task of
the worker has ended without a handler: a row of the batch raised
(`engine/worker.py:382-402`), or `aclose` cancelled it. A sequence is then `Stranded` if
nobody need ever signal it; a thread that was on its way may still do so.

`ControlPlane` has one action per command to Redis. `call` and `putting` are the places
between the two commands of `allow` and of `put_job`; each command may also raise,
before or after its effect. `get_job` runs in a thread and so between any two of them.
`granted`, `sticky`, `status`, `seen` and `failed` are history: the requests let pass in
this window, whether the EXPIRE of the key was lost, and what was written and read.

`CachedDecoding` uses the operators of `SequenceKv` for pool and entries and adds
what the tensors hold. `cache`, `bound` and `fresh` are `kv_cache` of a
sequence, its `prefix_kv` and `prefix_logits`, and what the engine has just returned;
`content` is `kv_cache` and `last_logits` of an entry. A cell is the text whose last
token it encodes, or `Nothing` when it was computed from padding, from a wrong
position or from cells of another text; the logits after a text are the text. The
forward pass (`NewCell`) is the only thing assumed of the model: it reads the cells
it attends to and its position, and is right exactly if those are the beginning of
one text. `engine` says who drives it: `continuous` decodes all admitted sequences in
a batch, `queued` one sequence, `cached` is `generate_ids` of the routes.

In `AdminAbort` a step ends where CPython (3.11 and later, with the GIL) may switch threads
between two things the code does to shared state: at a call and at the head of a
loop. `walk` and `iter` are the iterator of a thread over the deque: what it will see, and whether
the deque was changed since (then it raises) or replaced (then it does not notice).
`at` is the place of a call of `admin_abort`. `crossed` and `spurious` are history:
the requests that two removals, or a removal and an admission, acted on at a time, and whether
the last setting of the event came after an abort had emptied the queue. Both who append, `try_enqueue` and
`push_front`, set the event in a step of its own.

In `Requests` a request is at a place of its handler (`at`); `gen` is the
status of its sequence, or of the call of `engine.generate_ids`. `record` and
`seqRecord` are the job records under the two ids, `tokens` and `counted` how often
the counters were fed. The worker is reduced to what it does to a sequence: the
details are those of the other modules.

In the modules of the workers a tensor, a token's value and a text are abstracted: a sampled token is either
the last one or not, and must be the last when `max_tokens` are reached. The
tokens of a prompt matter only for which prefixes are equal. The failures
`PrefillFails` and `RowRaises` of the continuous worker and `Raise` of the
sequential one stand for any exception of the forward pass, the
sampler or the detokenizer.

## Runs

| Run | Question | Result |
|---|---|---|
| `kv_accounting` | do pins, references and free blocks stay exact under any order of operations, and does the whole implement `BlockLedger`? | holds, about 6.7 thousand states up to symmetry |
| `worker_cache` | does the continuous loop with the cache, under either policy, keep every request in one place, have blocks for each sequence (shared ones counted for every holder), add no token after an abort, leave what is over as it is, and use the accounting as `KvAccounting` allows? | holds, about 1.15 million states up to symmetry |
| `worker_policies` | without the cache, under either policy: does every request end, and does shutdown drain? | holds, about 530 thousand states |
| `queued_worker` | the sequential loop: one request at a time, its failure survived, the accounting refined, shutdown drained, nobody overtaken when an admission is refused and put back, and nothing but a request that an idle pool refuses in the way of the others? | holds, about 329 thousand states |
| `delivery` | tokens, None, event, timeout and disconnect in any order: is the text complete and in order at the end; does what the client is told follow from how the sequence ended; does an abandoned stream abort; does every stream end and every answer come, unless the worker has died? | holds, about 421 thousand states |
| `control_plane` | with failing commands and crashes between any two: is the limit kept and lifted, and does a poll never see a job go back? | holds, about 10 thousand states |
| `cached_decoding` | with reused prefixes, batches that change and sampling: does every cache hold its own text, every entry its key, and are the tokens those that an engine without any cache could give, and all of those? | holds, about 154 thousand states up to symmetry |
| `admin_abort` | two aborts in threads against the loop: is a waiting request in one place, is an abort that was confirmed kept, does the event tell the queue, and where can operations cross? | holds, about 2.2 million states up to symmetry |
| `requests` | refusals, failures, streams that are left, with a worker and under the lock: one generation at a time, the lock passed on, everything counted once, and records that are true? | holds, about 71 thousand states |
| `worker_starvation` | a request that needs its prefix's blocks and more than the rest of the pool | violated, see below |
| `worker_dies` | does the task survive a failing request? | violated |
| `delivery_split` | does a stream deliver the whole text when characters have two tokens? | violated |

The type invariants carry the limits that belong to a type: the capacity of the queue, the
size of the batch, admitted and running together (`ContinuousWorker`, `AdminAbort`), one request at a time (`QueuedWorker`) and one
generation at a time (`Requests`). Those of `KvAccounting` and `ControlPlane` are
proved and not checked again by a run; the others are checked and proved.

### Bounds

Requests, blocks, prompts and `max_tokens` are finite in each instance, and in the
modules of the workers nothing else is bounded: tokens stop at `max_tokens` and a
request is submitted once. The one counter that needs a cap is that of the rate limit
(`MaxCount`). The instances are chosen so that the interesting
cases happen:

* `kv_accounting`: five blocks of two tokens, four sequences, a cache of two
  entries. Two sequences send the same prompt of three tokens, one a prompt with
  the same first block, one a foreign prompt. So entries share blocks with a
  longer entry, entries are evicted (six prefixes compete for two places), hits
  find no block to reserve, and late binds and adoptions meet.
* `worker_cache`: four blocks of two tokens, three requests of two blocks each, a batch of two and a
  queue of two. Two requests have the same prompt of one token and generate three, so that one may join
  while the other decodes; the third has two prefixes to store. So the two are admitted
  together and the second finds the entry of the first only at its prefill (late bind), or
  the second comes later and shares the entry of the first, which still lives. With two blocks left behind the third, a
  hit passes `_fits` and is refused by `_try_allocate`. Blocks are adopted, and the
  entry evicted by the prefixes of the third. What this instance does not have is a prefix
  granted without blocks; that is in `kv_accounting`.
* `worker_policies`: three blocks and requests that need all of them, one, and two: the
  head of the queue blocks smaller ones under fcfs, `memory_fit` goes past it, and two run together.
* `worker_starvation`: a pool of two blocks, two
  requests with the same prompt of one token and a stranger. The stored prefix
  takes one block when it is used again, and the second request needs two more.
* `queued_worker`: the pool and requests of `worker_starvation`. Two of the requests
  would fit the pool together, so it is the loop that keeps them apart; and the
  one that is refused for ever makes the loop yield and try again.
* `delivery`, `delivery_split`: one request, whose client streams or waits, and up to
  four tokens: enough for items to pile up in the queue while the client decodes, and
  for a character of two tokens with text before and after. Sequences share nothing
  here, so one is enough.
* `control_plane`: a limit of 2, a counter that grows to 4 (`MaxCount`: two refusals)
  and is dropped any number of times, a record of two statuses (a handler writes
  `running` and `finished`), one poll at a time.
* `cached_decoding`: four requests; two have the same prompt, one continues it by a
  token, one is a stranger. Prefixes of a whole prompt exist with and without logits, rows of
  different lengths are decoded together, and members join and leave. Distributions over three tokens change
  with the text and have ties; one request has a `top_p` that a sum meets exactly.
  A sequence draws at most three tokens: enough to join a batch, stay in it while
  another leaves, and end.
* `admin_abort`: three requests, two calls of `admin_abort`, a queue and a batch of two.
  Any two removals of three (two calls, the loop) can meet, on one request or on
  two, with a third to be lost or to come back. A call acts once.
* `requests`: three requests, so that one is in the engine, one waits for the lock, and
  a third comes; a queue of two.

Two requests show every pairwise interaction of the cache; the third is needed
for a queue with an order and for an owner of blocks that is neither of the two.
Blocks are symmetric, and so are requests that ask for the same; symmetry is used
in runs without liveness properties only (the refinements of those runs are of
specifications without fairness). `worker_policies` explores both policies from two
initial states, as the policy is fixed when the server starts.

### Fairness and deadlock

`Spec` of either worker has weak fairness on `Work`, the steps of `run()`
and its thread. asyncio runs the ready tasks in turn and the thread waits for
nothing but processor time, so a step that stays possible is taken. Nothing is
assumed of the environment: requests, aborts and the shutdown may never come, and
failures may never happen. The task's steps are never in competition with each
other (there is one `pc`), so one fairness condition for all is enough.

Deadlock is checked in `control_plane`, and in all runs of the workers: `run()`
always has a step, or it sleeps and a handler has one, or it is over (`Ended`). `kv_accounting` sets
`CHECK_DEADLOCK FALSE`: every sequence of its finite population is admitted and
released once, and then nothing is left to do. So do the runs of `Delivery`,
`CachedDecoding`, `AdminAbort` and `Requests`, whose requests end, once each.

`Delivery` assumes weak fairness of the thread and of the client, for the same
reason, and strong fairness of the callbacks and of the admission: they run in the
loop, which a client that sleeps in `get()` and looks again leaves each time, so they
are possible again and again but not all the time. Nothing is asked for a sequence that is
`Stranded`: whoever should have signalled it is gone. `Fail` (a failure the worker
handles), `WorkerDies` (one it does not), the aborts and the disconnects are never forced. `ControlPlane` assumes that a call that was
begun goes on (weak) and that Redis drops a key whose time is over (strong,
since the model lets no window end within a call). `Requests` assumes that a handler
whose turn at the lock has come takes it and that `generate_ids`
returns or raises (it stops at `max_tokens`); nothing is assumed of clients or of the
worker. `CachedDecoding` and `AdminAbort` have safety properties only.

## Disagreements between the code and what is said of it

* **Starvation of a hit** (`worker_starvation`). `_fits` (`engine/scheduler.py:165`)
  counts the reservation minus the tokens of the hit. `_try_allocate` first lets
  the lookup reserve the blocks of the entry and then reserves the rest. If both
  together exceed the pool, the request is popped, refused and pushed back for
  ever, even with an empty pool, and under fcfs nobody behind it is served.
  `IMPLEMENTATION_PLAN.md:735`: "Tiny pool: a 3rd concurrent request waits until
  one finishes, then runs."
* **An exception on one row ends the worker** (`worker_dies`). The loop over rows
  (`engine/worker.py:382-402`) is in no `try`. `engine/worker.py:208`, of the
  other worker: "worker must not die on one request".
* **A character of several tokens is lost in a stream** (`delivery_split`).
  `decode_delta` (`engine/tokenizer.py:54`) compares the new text with what was sent.
  The first token of such a character decodes to U+FFFD, which is sent; the second
  replaces it, the text is no longer a continuation, and from then on the stream
  sends the last token alone, never the character. `engine/tokenizer.py:47` says it
  returns "(full_text, new_suffix)", and a test is named
  `test_decode_delta_is_prefix_stable` (`tests/test_streaming.py:53`). With whole
  characters the stream is right, also when it decodes tokens that it has not taken
  from the queue yet (`TextDelivered`).

Some properties have an exception, and each is something the code has no remedy for:

* `BlocksCoverSequence` is about each sequence, and counts its prefix as paid for. The sum of
  `IMPLEMENTATION_PLAN.md:288` ("`num_blocks * block_size >= sum(seq_lens)`") does not follow, for
  three reasons. The blocks of a shared prefix count for every holder: this is what sharing
  is for. A late bind gives back blocks for the whole of its prefix, the rest of whose last block then
  counts twice (`engine/worker.py:71`). And if the blocks of an entry cannot be
  reserved, `_acquire_blocks` (`engine/prefix_cache.py:213`) grants the reference all the same.
* `ToldTheOutcome` states what a stream is told of a sequence that failed: not that it failed. Its last
  chunk has the reason if one was set before the failure, or else "length" or
  "abort" (`server/routes_openai.py:208`, `:239`), as if the sequence had ended so; one that was aborted gets `[DONE]`
  alone. A handler that waits answers 500, 499 or the result, and so does tell the three apart.
* `EveryRequestEnds` excepts a task that died, `OnlyHitsStarve` a request that starves at the head.
* `OnePlace` and `AbortIsKept` of `AdminAbort` except crossed requests, and `CrossingsAreRare` says how
  a request gets crossed. Under fcfs it takes an abort of the very request that is
  between `peek_one` and `pop_one`: `pop_one` then takes the next request, whose
  result nobody looks at, so that one is lost and the aborted one admitted. Two aborts
  at a time, or `remove()` of `memory_fit` during an abort, each assign a copy of the
  deque that undoes what the other did: a request is lost, or comes back after its abort. An abort while
  the loop appends or pops answers 500 (`RuntimeError`), which is what keeps the list so short.
* `EventTellsTheQueue` excepts an event that `try_enqueue` or `push_front` sets on a queue which an abort
  has emptied since their append (`engine/scheduler.py:40-41`, `:58-59`):
  `run()` then spins through its loop without sleeping until the next request. It also excepts a
  queue in which operations crossed.
* `ClientIsServed` excepts a worker that has died: after an exception on a row (`worker_dies`), or when
  `aclose` cancels the task (`server/app.py:63-71`), a sequence that is queued, between two
  tokens, or whose `observe_finished` raised, gets neither a None nor its event,
  and its client waits until it leaves. For a handler that waits it excepts `admin_abort`, too: `asyncio.Event.set` from its thread may fall
  between the look of `_wait_result` at the flag and its future; then nothing wakes
  it. The worker's thread cannot do this to a handler that has just submitted, since
  the loop has not run the admission yet.
* `CountedOnce` states what is not counted at all: answers 404, 503, 499, 500 and 400 for a prompt
  that is too long are not in `flux_http_requests_total`, and a stream is counted as
  200 before its first token.
* `RecordTellsTheTruth` states what records do not tell. The record of a stream says
  `finished` when the last chunk was taken, whether its sequence finished, failed or was
  aborted; that of one which was
  left, or whose `[DONE]` was not taken, stays `running`; the one under the id of a sequence stays
  `waiting`, and `GET /v1/requests/{id}` prefers it to the live sequence it could look up.
* `LimitIsLifted` excepts a lost EXPIRE (`sticky`): the counter stays, and its client
  is refused for good once it is over the limit. `LimitHolds` counts only requests that
  were counted: those let pass because Redis raised come on top, by intent.
* `JobMovesForward` excepts failed commands: after a failed write the older record of
  Redis hides the newer one in memory.

## Proofs

Every module with a specification has its theorems, in eight modules of proofs. Each theorem holds for every value of the
constants that the assumptions next to their declarations allow:

* `BlockPool`, `PrefixCache`: blocks, sequences are finite sets; block size,
  `max_tokens`, the shortest prefix and the size of the cache are positive; prompts are
  sequences of tokens; the cache may be switched off.
* `Scheduler`: a batch holds one or more, the policies are those of the code.
* `CachedDecoding`: no prompt is empty (`encode` refuses it), `top_p` is positive (the schemas demand it), the
  vocabulary is finite, and the model has a distribution after every text a request can come to.
* `Delivery`, `Requests`, `ControlPlane`: limits are positive, or not negative.
* `AdminAbort`: queue and batch hold one or more, the loop is no thread of the pool. Requests and
  calls of `admin_abort` may be any number, infinitely many too.

### The accounting (`KvAccountingProofs`)

| Theorem | Statement |
|---|---|
| `InvAlways` | `Spec => []Inv`, the inductive invariant |
| `TypeCorrect` | `Spec => []TypeOK` |
| `NeverUsedTwice` | `Spec => []NoDoubleUse` |
| `PinsCountSharers` | `Spec => []PinsExact` |
| `NothingLeaks` | `Spec => []NoLeak` |
| `RefsCountHolders` | `Spec => []RefsExact` |
| `ImplementsLedger` | `Spec => LedgerSpec` |
| `ReservationsHold` | `Spec => []BlocksSuffice` |

The properties are not inductive one by one. That a release frees only blocks
nobody else uses needs that pins count sharers; that needs that references count
holders; that a reference taken on an unreferenced entry starts from no blocks
needs that an entry without references lists none; and that an eviction frees
nothing needs the same. `Inv` joins these: `Good(K, H)` states them for any
accounting record `K` and set `H` of admitted sequences (owners are disjoint, pins
and references are exact, entries are consistent).

An action of the model is a chain of operations (look up, acquire, touch,
allocate). Each operation has a lemma of the form "`Good` before, hence `Good`
after", with `H` growing or shrinking where a sequence joins or leaves. Two
lemmas carry the counting: `TakeReference` adds a holder to an entry, with its
pins, and `GiveReference` removes one. `NextInv` then has one step per action.

The same chains are followed three times more: for what each operation does to
the claims on a block (`ImplementsLedger`), for how many blocks a sequence can
count on (`ReservationsHold`), and for which entries are stored and to which of
them a sequence is bound, which is what `CachedDecodingProofs` needs.

### The workers (`ContinuousWorkerProofs`, `QueuedWorkerProofs`)

| Theorem | Continuous | Queued | Statement |
|---|---|---|---|
| `InvariantHolds` | x | x | `Spec => []IInv`, the inductive invariant |
| `ImplementsAccounting` | x | x | `Spec => AccountingSpec` |
| `TypeCorrect` | x | x | `Spec => []TypeOK` |
| `EndedStaysEnded` | x | x | `Spec => OverIsFinal` |
| `AlwaysInOnePlace` | x | | `Spec => []OnePlace` |
| `AbortedGetNoTokens` | x | | `Spec => AbortStopsTokens` |
| `BlocksAlwaysCover` | x | | `Spec => []BlocksCoverSequence` |
| `ImplementsLedger` | x | x | `Spec => Acc!LedgerSpec` |
| `IdlePoolIsFree` | x | x | `Spec => [](Active = {} => kv.free = Blocks)` |
| `AsleepIsIdle` | x | x | where `run()` sleeps the queue is empty, the event clear, no stop asked for, nobody live and the whole pool free |
| `StoppedIsDrained` | x | x | where `run()` has ended on a stop, nobody is queued or live and the whole pool is free |
| `SurvivesItsRequests` | | x | `Spec => []WorkerSurvives`: only a cancelled task dies |
| `NobodyOvertakes` | | x | `Spec => FirstComeFirstServed`, if the policy is fcfs |

That a sequence is released once, or gets nothing after its end, depends on where
`run()` is: the code ends sequences in eight places and trusts that whoever it
finds in a list is not over yet. So `IInv` states, for each value of `pc`, who is
in hand and in which status: those behind the position in the list of admitted sequences are as they left
the queue, the one at the position has the status of its place, all of
the batch are decoding between two decode steps, and in a loop that may end
sequences those that it has not reached still are. In `QueuedWorker` the loop has one
sequence at most, and `InHand` names it.

The pool and the cache are not in `IInv`. Each step is shown to keep `IInv`
and to be a step of `KvAccounting` or none (`GoodStep`); then everything
`KvAccountingProofs` says holds of the worker by composition (the instance `Acc` of
`WorkerCommonProofs`). So `BlocksAlwaysCover` is `ReservationsHold` seen by the
worker, `IdlePoolIsFree` is `NothingLeaks`, and `ImplementsLedger` the two
refinements in a row.

`AsleepIsIdle` and `StoppedIsDrained` are the safety halves of the liveness
properties: a worker that makes no step has nothing to do. They rest on a
second invariant, `LoopInv` of `WorkerCommonProofs` (with the empty batch
`RestInv` in the continuous worker): somebody in the queue means the event is set, and a set event
means somebody in the queue or a stop. It is kept through the appends of `submit`, the
removals of aborts and admissions, a push-back and the shutdown; `IInv` then says
that nobody is in hand there. The bound on the batch in `TypeCorrect` of the continuous
worker is a third one, `BatchInv`: the admission takes no more than the batch has room for, and a
sequence moves from the admitted to the running one by one. `SurvivesItsRequests` is the promise of a comment
(`engine/worker.py:208`) that the sequential worker keeps; the run
`worker_dies` shows that the continuous one does not.

### Delivery, requests, control plane

| Module | Theorem | Statement |
|---|---|---|
| `DeliveryProofs` | `InvariantHolds` | `Spec => []IInv` |
| | `TypeCorrect` | `Spec => []TypeOK` |
| | `ClientsAreToldTheOutcome` | `Spec => []ToldTheOutcome` |
| | `AbandonedAreAborted` | `Spec => []AbandonedIsAborted` |
| | `WholeTextDelivered` | `Spec => []TextDelivered` |
| `RequestsProofs` | `InvariantHolds` | `Spec => []IInv` |
| | `TypeCorrect` | `Spec => []TypeOK` |
| | `EveryRequestCountedOnce` | `Spec => []CountedOnce` |
| | `RecordsAreTrue` | `Spec => []RecordTellsTheTruth` |
| `RequestsProofs`, of `ControlPlane` | `ControlTypeCorrect` | `ControlSpec => []ControlTypeOK` |
| | `RateLimited` | `ControlSpec => []LimitHolds` |
| | `PollsMoveForward` | `ControlSpec => JobMovesForward` |

In `Delivery` what a client is told follows from the outcome of its sequence because that is written before it is
signalled (`Producing`), and a client comes to its end only behind the signal
(`Consuming`). For the text, `Sending` says that what was made into deltas is a
beginning of the text, and all of it once the end was seen. Its proof needs that a further token leaves
the text before it alone, which is an induction over the tokens: it uses that every set of
numbers with a member has a least one, and gives `FlattenSeq` its values one by one.

In `Requests` the truth of a record or a count depends on the way a handler took.
`Place` and `Outcome` say for each place of a handler what it has written until
then, `Counts` what was counted; `Lock` says that the line of waiters is exactly the
handlers that wait, each once, and that one is inside.

In `ControlPlane`, `LimitHolds` alone is not inductive: nothing keeps a decision from letting a late
request pass. `LimitInv` adds that a request waiting for its decision has the highest
number of the window and those let pass before it have lower ones. For the job
record, `JobInv` says that memory is up to date, that Redis is at most one write
behind, and that no poll has seen more than what Redis may still answer; it holds as
long as nothing has failed. Its proof uses that a record has at most two statuses,
as in the code (`StatusAssumption`); with three it would be false.

### Aborts in threads (`AdminAbortProofs`)

| Theorem | Statement |
|---|---|
| `TypeCorrect` | `Spec => []TypeOK`, with the bound on the batch |
| `AlwaysOnePlace` | `Spec => []OnePlace` |
| `AbortsAreKept` | `Spec => []AbortIsKept` |
| `EventAlwaysTells` | `Spec => []EventTellsTheQueue` |
| `CrossingsStayRare` | `Spec => CrossingsAreRare` |

`IInv` has a part for each thing the interleavings could spoil. `Iterators`: an iterator that has
not been invalidated goes over what the queue holds now, and one is there only while its thread
is in the loop of `remove()`. `Known`: whatever is in a list, a copy or a call was submitted, so
a new request meets no copy of itself. `Placed`: every request no operations crossed on is
`InPlace`, that is, once in each list and in each copy (`OnceEverywhere`), in one place only (`Apart`),
and with the status of that place (`StatusFits`). `OnePlace` alone says nothing of the batch, of
the copies and of who holds what was taken out; without these a removal could bring back
what another has removed, and `_abort_one` could abort what runs.
`Calls` says what a call of `admin_abort` knows of its target at each place.

`Crossing` is why crossings are rare under fcfs, for any number of calls: a call whose
assignment was overtaken has another call past its own (`Overtaken`), and what `pop_one` takes is
what `peek_one` has chosen, unless a call that is past it has that very target, or two
are past it (`Foreseen`). Calls past their assignment do not come back (`PastStays`), so this is
stable. `memory_fit` has no such invariant, and the property excepts it.

A step preserves `Placed` for each request by one lemma: `StaysInPlace` for whoever a step does
not touch, and `EnqueueKeepsPlace` to `AbortKeepsPlace` for the steps that move somebody. What
the operations on the deque do to a list is in the first lemmas (`AppendOnce`, `ConsOnce`, `TailOnce`,
`RemoveOnce`): what was there once still is, and nothing else is lost.

### What the caches hold (`CachedDecodingProofs`)

| Theorem | Statement |
|---|---|
| `InvariantHolds` | `Spec => []Inv`, the inductive invariant |
| `TypeCorrect` | `Spec => []TypeOK` |
| `CachesHoldText` | `Spec => []CacheHoldsText` |
| `DrawnTokensAreLikely` | `Spec => []DrawsTheLikely` |
| `ImplementsNaive` | `Spec => NaiveSpec` |
| `ImplementsAccounting` | `Spec => Acc!Spec`, the accounting of `KvAccounting` |
| `ImplementsLedger` | `Spec => Acc!LedgerSpec` |

`CacheHoldsText` speaks of finished results; `CacheInv` adds what they are made from.
A prefix that a sequence is bound to is the cache of a beginning of its prompt, and has
logits only if it is all of it (`IsPrefixOf`); an entry holds its key
(`IsEntryOf`); what a call has returned for a sequence has read its whole text, and
the prefixes still to be stored are those of a prompt just read (`CallInv`);
a sequence in service has a cache exactly if it has a token (`Serving`). That the entry a
sequence finds is one of its own prefixes, and still stored, is a fact of the
accounting, so both invariants are proved together (`Inv`).

The argument about the tensors is in lemmas of their own. `NewCellIsNext`: a cell
computed from a beginning of a text is the next of that text.
`ForwardReads`: a forward pass over several tokens reads them all, by
induction over the tokens. `BatchIsAlone`: a row of a padded, masked batch is what
decoding alone would give, whatever the other rows. `SliceIsBeginning`: a slice of a cache is the
cache of a beginning.

`NaiveDecoding` describes the nucleus without a ranking, the sampler with one. That
both are the same set (`SampledIsLikely`), for every distribution and with ties, needs
that a larger set has no smaller mass, for which the mass is written as the number of its units (`MassCountsUnits`),
and that every token is the first of its ties in some ranking, for which the tokens can be sorted
(`SortingWorks`).

### Only model-checked

* Liveness: `EveryRequestEnds`, `ShutdownDrains`, `OnlyHitsStarve`, `ClientIsServed`,
  `LimitIsLifted`, `LockIsPassedOn`. Fairness and ENABLED are out of the proof system's reach;
  of the first two `AsleepIsIdle` and `StoppedIsDrained` prove the safety half.
* That the code does not keep its promises in three cases (`worker_starvation`,
  `worker_dies`, `delivery_split`): these are counterexamples, found by TLC.

## Not modelled

* **The details of a client's leaving**: a stream that is left before its first step, a
  waiting client that leaves (its handler goes on), and halves of characters that are no halves of anything: the
  tokens of a character come together.
* **Numbers of tensors**: values, layers, heads, devices, dtypes; the temperature, the
  draw of `torch.multinomial`, rounding of the cumulative sum. That the
  model computes the same cell from the same text in a batch and alone is assumed,
  as are rotary positions given by the position ids.
* **Visibility of a prefill**: a request joins `stats.running` after its prefill
  (`engine/worker.py:282-288`). Until then the gauge "Sequences in prefill or decode"
  (`metrics/prometheus.py:60`) does not count it and `admin_abort` answers 404
  (`Find` in `AdminAbort`); no property is stated about it.
* **Statistics, gauges, histograms, admin views**: they read; `tokens_saved`, `hits` and
  `misses` are left out (a refused admission counts as a hit in the code).
* **More than one switch of threads in a place**: `AdminAbort` abstracts pool and engine; a
  request fits or not, and is allocated or not, at random. When a prefill ends its request,
  `run()` goes on without an await; the model lets handlers run there too.
* **The `stop` of a request**, which the schema accepts and no handler reads: stop ids are
  those of the tokenizer and of `SamplingParams`.
* **`finished_event`** is taken as set together with the final status in the workers;
  `Delivery` splits the two.
* **Start-up, configuration, schemas, sizing of the pool, `fake_lm`, dashboard, benchmarks**:
  they have no protocol, or validate by a library.
* A scheduler without a pool (`pool=None`), which the server never builds.

## Plan

1. Done: pool, cache, their accounting and abstract ledger; scheduler; continuous
   worker with abort, failure and shutdown; the invariant of the accounting proved.
2. Done: `QueuedWorker` on the same operators, refining `KvAccounting`; its error
   path catches what the continuous worker's does not.
3. Done: `Delivery`, the token queue, the event, text deltas and disconnects.
4. Done: `ControlPlane`, the window counter and the job record with failures and
   crashes between commands, with its theorems.
5. Done: `CachedDecoding` and what it implements; `AdminAbort`; `Requests`.
6. Done: theorems for every module: the safety invariants and action
   properties of the runs, every refinement, and what the workers' liveness rests on.
7. Next: liveness stays with TLC; the monitoring views (a sequence in its prefill is in no
   list they read) and the statistics are not modelled yet.
