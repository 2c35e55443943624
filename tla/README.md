# Verification of SHARK-Platform

TLA+ models of *shortfin* (the C++ runtime and its Python bindings), of the LLM
and stable diffusion servers built on it, of *sharktank* (dispatch, sharding,
quantization, paged generation, parameter archives) and of the *tuner*, checked
with TLC and in part proved with TLAPS. `PROJECT.json` has the exact
correspondence: `map` gives the lines each definition translates, `hazards` what
is hard to test at which line.

## 1. The system

| Component | State | Operations | What makes it correct |
|---|---|---|---|
| Page pool `page_pool.py` | `available_pages`, a stack | acquire, free, copy | a page is popped once and comes back once |
| Cache without sharing `base_attention_cache.py` | allocations: pages, released | acquire, extend, publish, release | no page lost or owned twice; room for the tokens |
| Cache with prefix sharing `trie_attention_cache.py` | trie, `ref_count`s, `leaves`, access times | acquire (match, evict), publish, extend, release | one home per page; what is in use stays; lookups find the right page |
| LLM service `llm/components/{service,generate,messages}.py` | boarding sets, flights, generators, response | read, board, strobe, invoke, return results, fail, stream, end | pages accounted for on every path; every client answered |
| SD service `sd/components/*.py` | queues, idle fibers, flights, images of clients | submit, sort, dispatch, five stages, respond | one batch per fiber; one complete response |
| Future `local/async.{h,cc}` | done, result, callbacks, references | set, add callback, copy, destroy, deliver | each callback once; state lives as long as referred to |
| Worker `local/worker.{h,cc}` | pending and taken thunks, event, kill | CallThreadsafe, Kill, loop | each thunk once, in order, no lost wakeup |
| Queue `local/messaging.{h,cc}` | backlog, pending readers, closed | write, close, read, destroy reader | each message once, in order; nobody waits in vain |
| Message `local/messaging.h`, `lib_ext.cc` | owner, native and Python counts, lock, GIL | retain, release, hand over, take back | freed exactly when nobody refers to it |
| Blocking executor `support/blocking_executor.{h,cc}` | free list, live count, threads | Schedule, Kill, thread loop | each task once; no forgotten thread |
| System, processes, fibers `local/{system,process,fiber}.*`, bindings, `_asyncio_bridge.py` | `lock_`, GIL, workers, process table, completion events | create worker/fiber, init_worker, launch, terminate, await, shutdown | calls return, awaiters resume, tables right, nothing runs after a shutdown |
| Scheduler, programs, storage `local/{scheduler,program}.*`, `array/storage.*` | accounts, timepoints, command buffers, barriers, contexts | append, flush, sync, transfer, invoke, fork | conflicting operations take effect in program order; contexts are exclusive |
| Dims `array/dims.{h,cc}` | a union of inline array and heap vector | construct, assign, resize, clear | behaves like a vector |
| Dispatcher `ops/_registry.py`, `ops/signatures.py` | overrides by salience, cache of targets | register, dispatch | the most salient match runs |
| Sharded tensors `types/tensors.py`, `ops/sharded_impls.py`, `types/sharding.py` | shards, split dimension | every operator on split/replicated/unreduced | gathered results equal the unsharded ones |
| Quantization `types/layouts.py`, `layout_utils.py`, `quantizers.py`, `gguf_interop`, `ops/q*_impls.py` | planes, scales, offsets | pack, quantize, dequantize, integer kernels | the result is that of the dequantized tensors |
| Generation `layers/kv_cache.py`, `paged_llama_attention_block.py`, `models/*`, `evaluate/*` | slab, page tables, masks, sequences | prefill, decode, score | a row of a batch gets what it would get alone |
| Parameters `types/theta.py`, `utils/io.py`, importers | trees of tensors, archives | flatten, pop, rename, save per rank, load, import | no parameter is lost, renamed or mixed up |
| Tuner loop `libtuner.py` | candidates, artefacts, pools, results | generate, compile, benchmark, rank | measured is what was compiled; ranked against the right baseline; ends |
| Tuner candidates `candidate_gen.py`, `dispatch_*.py`, `op_matchers.py`, `spec_builder.py` | problem, solver model, candidates | choose tuner, constrain, enumerate, apply | candidates distinct, complete, applicable |

How the parts meet. A generator submits its request to the batcher's infeed
(Queue) and awaits the request's `done` (Future). The batcher reads the infeed,
takes pages from the cache and launches an executor; the executor invokes the
model, publishes pages and completes the futures one by one; the generators wake
up and submit again or finish. All of these are coroutines of a worker (Worker),
which a system creates and joins (System) and whose loop runs the callbacks of
futures and the thunks of other threads. Device work is recorded in accounts
(Scheduler); blocking calls go to the blocking executor. sharktank produces the
models that the servers run and the archives they load; the tuner chooses their
kernels' configurations; neither shares state with a running server.

What is hard here: work handed between threads with events that are set outside
of the lock (Worker, BlockingExecutor, System); two locks of which one is Python's
(System, Message); callbacks whose delivery relies on a closure that someone else
has posted (Future); readers touched after the unlock (Queue); fences taken when
an operation is recorded and waited for when it runs (Scheduler); reference counts
that move (TrieCache, Message); exhausted pools and failures in the middle of a
batch (caches, services, tuner); caches and artefacts of an earlier state
(Registry, Tuner); index arithmetic at page, shard and block boundaries
(PagedLlm, ShardedOps, QuantOps, InlinedDims).

## 2. Modules

| Module | Models | Checked by |
|---|---|---|
| `PagePool`, `BaseCache` | page pool; cache without sharing | `MCSequential` |
| `PageLedger` | abstract: pages move between a free set and one holder; implemented by `BaseCache` | `MCSequential` |
| `TrieCache` | cache with sharing, on `PagePool` | `MCSequential` |
| `LlmService` | generator, batcher, executor, infeed, responder | itself |
| `SdRequests`, `SdService` | the requests of the image service as data; the service with its topology | `MCSdService` |
| `Future`, `Queue`, `Message` | the hand-over of results, messages and their ownership | `MCAsync` |
| `InlinedDims` | shapes | `MCSequential`, itself |
| `Worker`, `BlockingExecutor`, `System` | threads and their lifecycle | `MCThreads` |
| `Scheduler` | accounts, barriers, invocations, isolation | `MCScheduler` |
| `Registry` | override dispatch | `MCSharktank` |
| `Tensors`, `ShardedOps` | small integer tensors; operators on sharded ones | `MCSharktank` |
| `QuantOps` | layouts, packings, integer kernels, on `Tensors` | `MCSharktank` |
| `PagedLlm` | batched generation over paged and direct caches, perplexity tools | `MCSharktank` |
| `ThetaArchive` | parameter trees, archives, importers | `MCSharktank` |
| `Tuner` | the tuning loop | `MCAsync` |
| `CandidateGen` | what the tuner chooses from | `MCSequential` |
| `Lists` | filtering a list, as Python does; used by `Registry` and `Tuner` | with them |
| `CacheProofs`, `AsyncProofs`, `ThreadsProofs`, `SchedulerProofs`, `LlmServiceProofs`, `SdServiceProofs`, `OfflineProofs` | theorems, about the modules they are named for (`CacheProofs`: `BaseCache` and `TrieCache`; `OfflineProofs`: `Tuner` and `Registry`; `ThreadsProofs`: `Worker`, `BlockingExecutor` and `System`; `AsyncProofs`: `Future`, `Queue`, `Message` and `InlinedDims`) | TLAPS |
| `ProofLemmas` | what the proofs share: lists item by item, induction, recursion, sums | TLAPS |

An MC module that extends several components puts them side by side in one state
space. Its `part` is chosen in the initial state (from `Parts`, or `Units` in
`MCSharktank`), and the other components rest in theirs: the components of one MC
module do not interact, and a product would only multiply their states. What one
caller drives is in `MCSequential`; what several threads or processes drive, and
has liveness, is in `MCAsync` and `MCThreads`.

Granularity follows the code: where a method holds a lock from its first to its
last access it is one action; where it goes on after the unlock the rest is an
action of its own (`SetSignal`, `SignalFuture`, `CloseSignalsReader`,
`FinishDispatch`, ...). Coroutines are cut at their awaits. Exceptions are
outcomes of the action that raises them, with whatever it had changed by then.
Tensor programs and the tuner's generator are sequential; there a step is one
operator, one call or one question to the solver, and programs are all sequences
of steps up to a bound.

Conventions. Variables and actions keep the names of the source. An action that
a method splits into carries the method's name as prefix (`WriteToReader` of
`WriteNoDelay`). Every definition of the form *Mutant: ...* is a wrong variant
of the definition it precedes; it is not used by the model and exists to show
that the property it belongs to can fail.

Details worth knowing when reading the modules against the code:

* `TrieCache`. Nodes are numbered in the order of creation; `lru` is the list of
  nodes by `access_time`. A publication never replaces the allocation's list by a
  longer one (lines 156-157): no caller passes one. `_evict_pages` is a recursive function over the steps of
  its loop, with the set of leaves in use taken once, as the heap is. An allocation
  may keep the caller's own list (`same`): the server's `input_token_ids` grows in
  place, so the next `extend_allocation` compares the list with itself.
* `Future`. `lost` records that the loop refused a closure (its queue is full) or
  aborted one; `crashed` that an exception escaped into IREE's C loop, where the
  outcome is undefined: the model stops there.
* `Worker`. `armed` is the wait on `signal_transact_`. An error that reaches the
  loop aborts that wait, and `TransactLoop` returns without waiting again: the
  worker is `Deaf`, which the code permits and `WorkerServes` therefore excepts.
* `Queue`. A native `Close` goes back to a reader that may be destroyed by then;
  what it does to that memory is undefined and modelled as nothing.
* `Message`. `Retain` calls into Python with the message's lock held; with
  `RetainsHoldGil = FALSE` TLC finds the deadlock between a thread in `Retain` and
  one that comes from Python. All callers in the repository hold the GIL there.
* `System`. `lock_` and the GIL are variables; a Python caller waits for `lock_`
  with the GIL unless the binding releases it. `InitFirst` says that no other
  client enters before `init_worker` has returned (see section 5). A `Shutdown`
  between the listing and the start of a worker throws `logic_error`; a second
  concurrent `Shutdown` returns at once; both are outcomes of the model.
* `InlinedDims`. `spoilt` collects the objects whose elements a resize to exactly
  `MAX_INLINE_RANK` or an assignment to itself has lost, and copies of them: those two
  are actions of the model like any others, and what a reader then finds is chosen
  (zeros after the self-assignment of an inline array). `VectorAlike` makes no
  exception for them, `ElementsKept` does.
* `Scheduler`. An early return of `FlushWithStatus` on an error of the driver
  (`scheduler.cc:269-270`) is left out. Fences are the pairs (timeline, payload) of the code and time is
  the device's progress (`Advance`). An invocation without device arguments gets
  no fences; a failed one leaves its timepoint unsignalled, and a fork that fails
  leaves its isolate unusable: all as in the code, and the reason why the
  properties speak of operations that were recorded.
* `LlmService`. The iteration order of the boarding sets is arbitrary, so it is
  chosen. `Failures` says which awaits of an executor may raise. The cache is
  reduced to page counts (which page is the caches' business). `BoardPrefill` and
  `BoardDecode` are one turn of the loops of `board_prefills` and `board_decodes`;
  a prefill's allocation is assigned without freeing one, for there is none (the
  proof shows it).
* `SdRequests`, `SdService`. A body says for each argument whether it is a list, and
  what is in it: `post_init` turns a single prompt into a list of the type `str`
  instead of the prompt, so its batch fails when it is prepared (`_prepare`). A
  failed batch answers its requests with no image, and its fiber is not returned
  in `PER_FIBER` isolation; `MaxFaults` bounds the failures that the device chooses
  to have. An image is a pair of a client and a number up to `MaxImages`.
* `ShardedOps`. Whatever an override accepts is an action. Where it may compute
  something else than the operator means, `beyond` names the use, and the program
  ends there: `permute`, `attention` along the sequence, `uneven` splits of
  replicas, `negative` dimensions and indices that are not resolved. A view with a
  size of -1 is not modelled.
* `QuantOps`. `misfixed` names the corrections that were applied although they are
  wrong for the operands: `linear` for an activation with an offset in a linear
  layer, `padding` for one in a convolution that pads.
* `ShardedOps`, `QuantOps`. Tensors are functions from indices to small integers
  and operators are their index maps, so that "the same as torch" is equality.
  Scales are powers of two or exact fractions; rounding of floats is left out.
* `PagedLlm`. Arithmetic is uninterpreted: a hidden state is the set of
  (position, token) it was computed from. Elements that were never written are
  finite (a masked product with them is zero), which the code needs and the
  allocation of the cache does not guarantee.
* `ThetaArchive`. A save may be interrupted between the root file and a rank's.
* `CandidateGen`. The registry of tuners is a set, so which tuner is asked first
  is chosen. The solver's model is the set of solutions; each is blocked after it
  was found. Attributes of the MLIR text are fields of a record.

## 3. Runs

| Run | Configuration | Result |
|---|---|---|
| `sequential` | cache without sharing: 3 pages of 2 tokens, 2 allocations, up to 5 tokens; with sharing: also 4 nodes, prompts that are equal, share a page, or end inside one; all seven tuners on small shapes with up to 3 solutions; two shapes of rank up to 3 with 2 inline | 544 000 states. Pages conserved, allocations have room, `PageLedger` implemented; trie sound, lookups match tokens; candidates sound; elements of shapes kept |
| `async` | 3 callbacks, 2 handles; 3 readers, 3 messages, 4 reads, native and Python; 3 threads and 2 references on a message; both tuning scripts, 2 candidates, 2 devices, 2 times | 316 000 states. Callbacks once, scheduled, delivered; exact reference counts; messages once and in order, closes resolve reads; messages freed exactly once; current benchmarks, sound rankings, the scripts end |
| `threads` | 2 callers, 3 thunks; 3 threads, 2 schedulers, 2 killers, 3 tasks; 2 clients, a worker, a process, a failure | Order, no lost wakeup; tasks once, no forgotten thread; calls return, awaiters resume |
| `llm_service` | 2 requests of up to 3 tokens, 3 pages of 2, batches of 2 and 1, failing invocations, a shutdown, a batcher that may die | Pages accounted for, one place per request, complete responses, every client answered |
| `scheduler` | 2 queues, 2 allocated and 2 result arrays, 3 operations, one fault, one sync, both isolations, functions called with an array of queue 0, allocated or a result | Device order unless a function got arrays of two queues, exclusive contexts, syncs return |
| `sd_service` | 2 clients, of two images that cannot be batched and of one image (a list of prompts, a single prompt, or a wrong size), 2 devices, one failure | Batches sound, one response, clients answered |
| `sharktank` | 2 overrides registered between calls; programs of up to 4 operators on 2 shards; 2 rows of 1-7 tokens with pages of 2; 3 quantized operators, quantizers with and without offsets; 4 operations on a theta | 131 000 states. The five properties of sharktank |
| `trie_in_use` | the trie of `sequential` | violated: a page of a live allocation is evicted |
| `init_worker_deadlock` | as `threads`, `InitFirst = FALSE` | violated: `init_worker` and a second client wait for each other |
| `dims_resize` | as `sequential`, counts up to 4 | violated: a resize to exactly `MaxInlineRank` loses the elements |
| `sharded_permute` | the sharded programs of `sharktank` | violated: a permutation of order three records the wrong split dimension |
| `scheduler_queues` | as `scheduler`, functions called with arrays of both queues | violated: a transfer overtakes the invocation that reads its target |

What each property says, in a line:

* sequential. `PagesConserved`: every page is free or has one owner. `PagesHoldTokens`:
  an allocation has pages for its tokens. `TrieSound`: nodes that an allocation or a
  child needs are in the trie, and a page is in one of pool, trie, allocation.
  `LookupsMatchTokens`: the path of an allocation spells its tokens.
  `ImplementsLedger`: refinement of `PageLedger`. `CandidatesSound` (distinct, all
  solutions up to the limit, matchers match the dispatch they were made from).
  `ElementsKept`: a shape has the size of its vector, and its elements unless it is
  spoilt.
* async. `RefCountExact`, `CallbacksScheduled`, `CallbacksDelivered` (each once,
  eventually); `NoReaderWaitsInVain`, `DeliverySound` (each message once, in order,
  futures set once, readers alive when touched), `CloseResolvesReads`;
  `MessageOwned` (alive while referred to, freed once, no thread waits for a lock
  forever); `BenchmarksCurrent` (what is measured was compiled in this round),
  `RankingsSound` (against the baseline of the same device, best first),
  `TuningEnds`.
* threads. `ThunksInOrder`, `NoLostWakeup`, `WorkerServes` (thunks run, a kill
  ends); `PoolSound` (tasks once, threads accounted for, quiet after a kill),
  `EverybodyServed`; `SystemSound` (process table, completion events, nothing runs
  after a shutdown), `CallsReturn`, `AwaitersResume`.
* services. `PagesSound`, `OnePlace`, `ResponseComplete`, `RequestsAnswered`;
  `DispatchSound`, `RespondedOnce`, `ClientsAnswered`.
* scheduler. `DeviceOrder` (as long as no function was called with arrays of two
  queues, `SameQueue`: two operations on a buffer, one of them a write, run in the
  order in which they were recorded, `ConflictsInOrder`, and an awaited device is
  idle, `SyncMeansIdle`), `ContextsExclusive`, `SyncsReturn`.
* sharktank. `MostSalientRuns`; `ShardingTransparent` (gathering gives what one device
  computes, `GathersWhole`, unless `beyond`); `QuantTransparent` (dequantizing gives
  what the dequantized operands give, unless `misfixed`); `BatchedAsAlone`,
  `ParametersKept`.
* the violation runs. `InUsePagesNotEvicted`, `CallsReturn`, `VectorAlike`,
  `PermuteTransparent` and `ConflictsInOrder`: what the documentation says, without
  the exceptions.

Why the bounds are enough. The caches' hazards need two allocations that compete
and a pool smaller than what both ask for; three pages of two tokens give full and
partial pages, exhaustion and eviction of chains; four nodes allow a path of two,
its eviction and its republication. For futures, queues and workers the hazards are
orders between one more call and a delivery under way; three of each gives
"before, during and after". Three threads and three tasks let the executor reuse
a thread, create one and be killed while it does. One worker and one process with
two clients give every pair of concurrent calls of the system. Two requests and
three pages make prefills and decodes fail and leave one request behind a full
flight. Two queues and three operations give read-write, write-read and
write-write conflicts with a third operation in between. Functions are called
with arrays of one queue there; with `Arguments` = `{{"x"}, {"y"}, {"r"}}` or
`{{"x"}, {"x", "y"}, {"r"}}` the run passes as well, on 1.9 million states each. Two devices and two
candidates let results come in either order and fail on either side. Prompts of
1, 2, 3, 5 and 7 tokens with pages of two lie on both sides of page and block
boundaries. Rank three is the least in which a permutation is not its own
inverse. Shapes with two inline elements and counts up to three are resized below,
to, above and back across the boundary; a heap array that grows (from 3 to 4
elements) is in `dims_resize` and in the proof only. Bounds that only cap counters (`MaxNodes`, `MaxRefs`, `MaxTokens`,
`MaxGrown`, `MaxStrobes`, `MaxReads`, `MaxOps`, `Max*Ops`, `MaxSyncs`) are guards
of the actions that count; hitting one disables a call and changes no outcome.

Where the code does not do what a property says. Each such place is either an
exception that the property itself states, while the run and the theorem still
take the input, or an input that a run leaves out. Exceptions:

* `ElementsKept`: a resize to exactly `MAX_INLINE_RANK` (violated in `dims_resize`),
  and self-assignment (`dims.h:163`).
* `ShardingTransparent`: permutations that dims misplaces (violated in
  `sharded_permute`), attention split along the sequence (`sharded_impls.py:826`),
  uneven splits of replicas (`:1010`), unresolved negative dimensions and indices.
* `QuantTransparent`: activations with an offset in a linear layer
  (`qlinear_impls.py:103-121`) and in a convolution that pads
  (`qconv_impls.py:123`). Convolutions of such activations without padding, with
  their three corrections, are in the run and not excepted.
* `DeviceOrder`: functions called with arrays of two queues (violated in
  `scheduler_queues`).
* `ParametersKept`: what is loaded after a save that was not completed, which over an
  older archive is a mixture of two saves.
* `TrieSound` allows references that are left over and pages without a home, which
  failed acquires and releases leave behind (section 5).

Inputs left out:

* `llm_service`: failures while results are read (`Failures = {"invoke"}`), for which
  `PagesSound` and `OnePlace` fail.
* `threads`: a client that enters before `init_worker` has returned (`InitFirst`;
  violated in `init_worker_deadlock`).
* `async`: callers of `Retain` without the GIL (`RetainsHoldGil`); there are none.
* `scheduler`: errors of the driver at a submission.
* the trie: a longer list at a publication (`trie_attention_cache.py:156`); no caller
  passes one.

Deadlock is checked in `sequential`. Elsewhere the system may stop: a future whose
last handle is gone, an executor that was killed, a service that was shut down, a
script that ended, a tensor program at its bound.

Symmetry: allocations in `sequential`, which checks no liveness.

## 4. Fairness

* `Future`: the worker's loop runs whatever is posted to it (weak fairness of its
  steps). Nothing is assumed of clients.
* `Worker`: threads are scheduled, a worker is started. Strong fairness of
  `TransactLoop`: every drain polls its waits, and the loop drains again and
  again, so a wait that is ready again and again fires. Nothing is assumed of
  other operations in the loop; the quantum (`DrainReturns`) ends the drain.
* `Queue`: a write or a close that has begun finishes.
* `BlockingExecutor`: threads are scheduled and tasks return.
* `System`: threads run and return from calls, locks that are free are granted,
  coroutines that are ready resume. That a call is made is not assumed.
* `LlmService`, `SdService`: coroutines that are ready are run, sleeps and
  invocations end (with or without an error): weak fairness of the processes
  and clients (in `LlmService` of each `Generate(r)`, of `ClientEnds` and of the
  executions in flight; in `SdService` of `ProcessSteps`), of the strober and of the
  batcher (`BatcherReads \/ BatcherEnds`). No request need be made.
* `Scheduler`: the device executes what was submitted and whose fences are signalled
  (`Advance`). Nothing makes the program flush or sync.
* `Tuner`: processes end or time out, and the script goes on.

Calls from outside (`CallThreadsafe`, `Kill`, `Schedule`, `WriteNoDelay`, `Read`,
`Close`, `Shutdown`, an interrupt of the tuner) are never assumed to happen.
`ShardedOps`, `PagedLlm` and the other sequential modules state no liveness.

## 5. Disagreements between documentation and code

Each of these has a run that TLC finds violated; `PROJECT.json` quotes both sides.

* `trie_in_use`: "Reference counting prevents eviction of in-use pages". An
  allocation has one reference, on its last published node. Publishing again moves
  it down, while the upper node stays in `leaves` although it now has a child, so it
  can be evicted under the allocation that uses its page.
* `init_worker_deadlock`: a worker that "will be created on demand" is initialized
  with `lock_` held, in Python.
* `dims_resize`: "Vector-alike", except when resized to exactly `MAX_INLINE_RANK`.
* `sharded_permute`: "The semantics are the same as torch.permute", except for
  permutations that are not their own inverse.
* `scheduler_queues`: a fill "Must depend on all of this buffer's use dependencies",
  but an invocation is not recorded as a use of its arguments
  (`storage.cc:261-265`, although `scheduler.h:65` describes the use barrier as "Fence
  joined to all timepoints accessing the resource"). On one queue the account orders
  them all the same; an invocation with arrays of two queues runs on the lower one,
  and a transfer to the other array overtakes it.

The modules state further claims that are not among the runs; put into the
configuration of their module, TLC finds each of them violated:

* `OnlyDocumentedExceptions` (`TrieCache`): evicting a node before its child, which
  the stale entry in `leaves` permits, makes `acquire_pages_for_tokens` raise
  `AttributeError` (`trie_attention_cache.py:422`); after a duplicate publication
  it may be `KeyError` (line 82).
* `RefCountIsNumberOfReferences` (`TrieCache`): an acquire that fails keeps its
  reference (line 357).
* `PageZeroReserved` (`TrieCache`): page 0, called reserved in
  `trie_attention_cache.py:298` and the clobber page in `service.py:398`, is handed
  to requests.
* `ExtensionAccommodatesTokens` (`TrieCache`): with a list that grows in place only
  the first extension adds pages (lines 213, 264).
* `ReleasedPagesComeBack` (`TrieCache`): unpublished pages of a released allocation
  are neither cached nor free (line 209, `base_attention_cache.py:111`).
* `PagesHoldExtraSlots` (`BaseCache`): `acquire_pages_for_tokens` ignores
  `extra_token_slots`.
* `QueuedForDelivery` (`Future`): after the loop has refused a closure, a later
  `AddCallback` on the done future returns normally and posts nothing.
* `BatcherPersists` (`LlmService`): "The batcher is a persistent process"
  (`service.py:152`); it ends on a `CacheAllocationFailure` in `board_decodes`
  (line 287).
* `BaselineOnEachDevice` (`Tuner`, `libtuner.py:1492`): there is one baseline task per
  device, but a device may take two of them, and a candidate's device none.
* `EveryToolScoresPrompts` (`PagedLlm`): the perplexity tools align logits and
  tokens differently, and take token id 0 for padding.
* `LeavesTagged` (`ThetaArchive`, `gguf_interop/base.py:96`): not every leaf of a loaded
  dataset carries the annotation that external parameters are exported by.
* `SupportsWhatItHandles` (`CandidateGen`, `dispatch_parser.py:84`): the first tuner
  that claims the operation is taken, and may fail to parse it.

Other facts that reading the code for the models brought up, visible in them as
outcomes:

* `System`: a process that fails makes its worker deaf; thunks of a killed worker
  are dropped; `system.h:168-174` describes the locking of `Launch` and
  `Terminate` differently.
* `Queue`: two claims hold for Python callers only, because of the interpreter lock
  (a reader that `Close` still has to touch exists; one that refuses to read has a
  read outstanding). `WriteNoDelay` accepts messages after the close, although
  `messaging.h:188` says that it throws.
* `InlinedDims`: self-assignment loses the elements (`AssignSelf`); `rbegin` and `rend` are
  swapped (`dims.h:218-223`).
* `LlmService`: a failed item yields a truncated 200 response; requests in the
  boarding area at a shutdown are not answered; with `Failures = {"result"}` a
  failure of `await device0` after some requests were answered frees pages that
  may be in their next batch already, and `PagesSound` fails.
* `SdService`: requests pending at a shutdown are not answered; images of a failed
  batch are null in a 200 response; the number of steps is that of the first request.
* `Tuner`: a second-round baseline that fails to compile is measured with the
  artefact of the first; a timed-out baseline (infinity) ranks first; a failed
  benchmark ends the script by an assertion; no device gives `Pool(0)`.
* `CandidateGen`: compatible intrinsics of a batch matmul ignore the operand types
  that the attribute's construction requires; that construction searches all
  intrinsics, not the target's; one solution more than the limit is asked for.
* `ShardedOps`: the four uses of `beyond` (section 3); `layer_norm` dispatches on the
  bias twice. `PagedLlm`: pages are never released; padding rows write to page 0
  repeatedly. `QuantOps`: the quantized convolution pads with 0 whatever the offset, and the
  linear layer's corrections for an activation with an offset are wrong.
  `ThetaArchive`: `pop` compares string prefixes; an interrupted save over an older
  archive mixes root and rank files; a rename on a sub-theta renames the root's
  tensors.

## 6. Proofs

TLAPS proves these for every value of the constants that satisfies the named
assumption of the module (natural bounds, a positive page size).

| Theorem | Statement | Argument |
|---|---|---|
| `CacheProofs!TypeCorrect` | `TypeOK` | inductive as it is; popping and appending keep sequences of pages |
| `CacheProofs!Conservation` | `PagesConserved` | inductive with `TypeOK`. `PopSplits`: n pops split the stack into two lists that share nothing; `ConcatJoins`: what an extension or a return does to the sets |
| `CacheProofs!Room` | `PagesHoldTokens` | inductive with `TypeOK`; `PagesForEnough` is the arithmetic of the rounding |
| `CacheProofs!LedgerRefinement` | `Spec => ImplementsLedger` | each action is a `Grant`, a `Return` or a stutter under `free <- Range(available_pages)`, `held <- Holdings`; needs `PagesConserved` so that what leaves the stack leaves the set |
| `CacheProofs!TriePagesHaveOneHome` | `TrieSound` | `TrieInv` (below) |
| `CacheProofs!LookupsFindTheirTokens` | `LookupsMatchTokens` | `SpellInv`, with `TrieInv` (below) |
| `AsyncProofs!CountCorrect` | `TypeOK /\ RefCountExact` | inductive together: `IssueOutcomes` names the three outcomes of posting a closure |
| `AsyncProofs!Scheduled` | `CallbacksScheduled` | inductive with `TypeOK`: the list is only filled from empty with a closure posted, and only emptied by a closure |
| `ThreadsProofs!TypeCorrect` | `TypeOK /\ Swapped` | `Swapped`: `next_thunks_` is empty outside of its loop. `TypeOK` alone does not say what the swap leaves behind |
| `ThreadsProofs!Wakeups` | `NoLostWakeup` | the reset and the swap are one critical section |
| `ThreadsProofs!InOrder` | `ThunksInOrder` | `ran \o next \o pending` only grows at its end; needs `Swapped`, or the swap would drop thunks |
| `ThreadsProofs!PoolIsSound` | `PoolSound` | `PoolInv` (below) |
| `ThreadsProofs!SystemIsSound` | `SystemSound`, with and without `InitFirst` | `ClientInv` and `ProcessInv` (below) |
| `AsyncProofs!NoVainWait` | `NoReaderWaitsInVain` | inductive as it is, with and without the interpreter lock |
| `AsyncProofs!Delivery` | `DeliverySound` | `QueueInv` (below) |
| `AsyncProofs!MessageLifetime` | `RetainsHoldGil` implies `MessageOwned` | `MessageInv` (below) |
| `AsyncProofs!DimsAreVectors` | `ElementsKept` | `DimsInv` (below) |
| `SchedulerProofs!SchedulerTypes` | `TypeOK` | with `CallsLive`: arguments of invocations live, and an invocation that is scheduled has a submission |
| `SchedulerProofs!InProgramOrder` | `DeviceOrder` | `OrderInv` as long as `SameQueue` holds: `ProgramInv` (below) |
| `SchedulerProofs!ContextsApart` | `ContextsExclusive` | `Forked`: contexts are numbered as they are forked, none without an isolate; what is taken from the free list is the only one of its number there, and what is forked has a number nobody had |
| `LlmServiceProofs!PagesKept`, `Placed` | `"result" \notin Failures` implies `PagesSound` and `OnePlace` | `LlmInv` (below) |
| `LlmServiceProofs!Complete` | `ResponseComplete` | `PartsInv`: parts and steps of a stream are equal while its generator waits; nothing else of the service matters |
| `SdServiceProofs!SdTypes`, `Dispatches`, `Responds` | `SdTypeOK`, `DispatchSound`, `RespondedOnce` | `SdInv` (below) |
| `OfflineProofs!BenchmarksAreCurrent` | `BenchmarksCurrent` | `TunerInv` (below) |
| `OfflineProofs!RankingsAreSound` | `RankingsSound` | `RankInv`, with `TunerInv` (below) |
| `OfflineProofs!DispatchFindsMostSalient` | `MostSalientRuns` | `RegInv` (below) |

The inductive invariants, and why the properties alone are not inductive:

* `TrieInv`. `TrieSound` speaks of the nodes that a lookup reaches and of pages that
  allocations have not published. The invariant speaks of attached nodes, those
  with a parent, instead: `LinksIn` (a dict refers to a node from its parent only,
  under its block) makes what is reachable attached (`ReachableAttached`), and what
  `unlink` leaves without a parent unreachable. `RefsSound` and `HeldAttached`: each
  live allocation is counted by a node that is attached or the root, so a leaf that
  nobody uses is held by nobody. `NodesApart`, `FreeApart` and `PrivateApart`: free
  list, attached nodes and unpublished pages share no page. `EvictKeeps` proves of
  the whole eviction loop, by induction over its turns and with the exceptions that
  end it, that it only unlinks nodes without references and collects each of their
  pages once; `GetsKeep` is what acquire and extend then have in common. A publication
  turns pages that were private into new nodes (`MadeKeeps`) and moves the reference
  of its allocation (`HoldersMove`). TLC has checked `TrieInv` on all states of
  the trie's part of `sequential`.
* `SpellInv`. `LookupsMatchTokens` speaks of nodes that a lookup can find now; what a
  later lookup finds depends on nodes that are cut off today. The invariant
  follows an allocation's path by the nodes' own fields: from the root to the
  allocation's last node, as deep as it has published pages, each node has been
  made under the one before it with the next block of the allocation's tokens
  (`Spells`), and nothing but `unlink` ever changes a parent, to none
  (`ShapeKept`). `Fits` says why a publication continues the path where it ends: what is
  published is covered by tokens, and, until the caller's list grows unseen, tokens
  are covered by pages. `LinksIn` and the rooted walk (`ReachableAttached`) turn it
  into what `_match` finds: a last node that can be found at all is linked from the
  one before it, which can be found too, down to the root (`SpelledIsFound`,
  `WalkFinds`). TLC has checked `SpellInv` on the same states.
* `PoolInv`. `PoolSound` says that a task is held by one thread and that a waiting
  thread can be found. Whether that survives a step depends on who is about to
  signal whom: `DispatchesSound` (two callers never signal one thread, nor a
  signalled one), `FreeListSound` (the list holds exactly the unsignalled waiting
  threads, each once), `TasksHeld` (a task in hand means a signal in hand or on its
  way), `KillSound` (the live count is the number of live threads, and inhibition
  comes after the last one).
* `ClientInv`. That nothing runs after a `Shutdown` is decided by calls that are still
  on their way. `ClientSound` and `OneInitializer`: a client that is about to list a
  worker holds the GIL until it has, and nobody else starts the one that it
  initializes. `Listed`: a worker that exists is in `workers_`, which `Shutdown` copies.
  `WaitSound`: while a shutdown waits, no worker is listed and unstarted (`Kill` would
  have thrown), and every one that has not ended is still to be waited for. So the
  end of the wait finds all of them ended, and `shutdown_` lets no new one be made.
* `ProcessInv`. `ProcessesTracked` relates the table to pids; what a step does to them
  depends on where the process's coroutine is. `PlaceSound`: a process has a pid from
  `Launch` until the first half of `Terminate`, and `deallocate_pid` from there to the
  second. `TableSound`: each number in the table belongs to one process, and lies below
  `next_pid_`. `ThunksPosted`: a worker's lists hold coroutines that were posted to it
  and not started, each once; otherwise a thunk could start a process that has
  terminated and is no longer in the table. TLC has checked both on all
  states of an instance with two clients and without `InitFirst`.
* `QueueInv`. Order of delivery is a matter of futures: readers wait in the order
  of their reads (`PendingSound`), the backlog is later than anything given, a
  reader that `Close` has taken out of the list is told before it is reset
  (`ClosingSound`), and whoever waits on a live future is listed somewhere. One
  message each follows from messages being numbered in the order of the writes
  (`WrittenSound`).
* `MessageInv`. `CallsSound` says what a thread in the middle of `Retain`, `Release`
  or the hand-over holds: a reference, the message's lock, the GIL. Without it a
  count could be read, the ownership move, and the count be written. The
  hypothesis `RetainsHoldGil` is the callers' discipline (section 2); without it
  TLC finds the deadlock.
* `DimsInv`. `ElementsKept` says what a reader finds in an object, and nothing of what
  the object keeps beyond its size. `StandsFor`, of objects that are not spoilt: the
  member that `data()` takes was written last, an inline array has `MaxInlineRank`
  elements, a heap array at least as many as the object, also after a shrink that
  keeps it. `Sized`, of all objects: their size is their vector's, also when their
  elements are lost, which is what lets a later `set` make them sound again.
  `ResizeStands` takes all branches of `resize_impl`, for all counts; the one to
  `MaxInlineRank` spoils the object (section 5).
* `OrderInv`. `DeviceOrder` speaks of what is done; whether it will be done in order is
  settled when it is issued. `OpsSound` and `AccountsSound`: every submission has a
  timepoint of its account, waits for the one before it, and is done exactly when
  the semaphore has passed it, so the semaphore never goes back. `Serial`: an
  account's timepoints are taken in the order of the worker. `ConflictsWait`: a
  submission waits for all earlier ones that it conflicts with. The last follows
  from the barriers covering all earlier accesses: `WritesCovered` (whoever writes a
  buffer is on the buffer's queue and not later than its mutation barrier, or is
  the invocation that returns it, which is not imported yet) and `ReadsCovered`
  (whoever reads it is on its queue, or not later than its use barrier).
  `SyncsCover` is the same for waits. TLC has checked `OrderInv` on all states of
  `scheduler`. `SameQueue`, the condition in `DeviceOrder`, says of the invocations made
  so far that the arguments of each were on one queue; it holds for every fiber whose
  device has a single queue. `ProgramInv` is `OrderInv` under that condition, with
  `ResultsOwn`: a result is one invocation's and has no queue before it is imported,
  so a step gives no earlier invocation another queue (`KeptQueue`), and whoever
  satisfies `SameQueue` after a step did before. Without the condition `ReadsCovered`
  fails, as `scheduler_queues` shows: an invocation runs on the lowest queue of its
  arguments (`program.cc:412`) and is not recorded as a use of the others.
* `LlmInv`. `PlacesSound` has `OnePlace` with the places apart (fed, boarding, flown):
  a request asks exactly if it is in one. `FlightsSound`: a flight that has no
  results yet has answered nobody, which is what makes the handler's "all
  requests of the batch" the ones still aboard; `AllocationsSound`: a request that
  waits to be prefilled has no pages, so assigning an allocation loses none. With
  `"result" \in Failures` neither property holds (section 5), hence the hypothesis.
  `PrefillsBoarded` and `DecodesBoarded` prove what whole boarding loops do to the
  pool, by induction over their turns; TLC has checked `LlmInv` on all states of
  `llm_service`.
* `SdInv`. An image is fed, pending or aloft while it waits (`OnePlaceEach`); flights
  share no image and no fiber, and are uniform batches. `SortKeeps` proves that
  `sort_batches` files every request once whatever the order, `ProgramLoaded` that
  the worker of a fiber has the program for the fiber's device, which is the
  arithmetic of `get_worker_index` for every topology whose fibers are divided
  evenly among the workers (`service.py:70` raises otherwise).

* `TunerInv`. `BenchmarksCurrent` speaks of the moment of measuring. `WorkSound` says
  what each function works on before that: what `compile` returns has been compiled
  in this round, since a command that fails returns nothing, and whatever the
  collision handler (`KeptItems`) and the ranking (`BestIn`, `PermutedIn`) do, they
  return candidates that they were given. The other script has functions of its
  own and keeps it trivially. TLC has checked `TunerInv` on all states of
  the tuner's part of `async`.
* `RankInv`. `RankingsSound` compares candidates by their results, which it finds by
  their ids: it needs `CandidatesOnce`, each candidate is in one place of a round (to
  be measured, on a device, measured), once. With it the list that `benchmark` returns
  can be traced back to the sort. `SortedItems` proves that `Sorted` permutes,
  `SortedInOrder` that it puts a list into the order of its key if that is a weak
  order, and `SpeedupOrder` that the comparison of speedups, which are quotients,
  is one, infinite times included, when no key is NaN (candidate and baseline both
  infinite); NaN leaves the order to the algorithm, in the code and in `TopIsBest`.
  For the models, the pairing of devices with baselines by position needs
  `ModelsCounted`: there are never more baseline results than devices that have
  results, so if each of those has its baseline there is exactly one of each, and
  two sorts by device give the same devices.
  TLC has checked `RankInv` on the same states.
* `RegInv`. `MostSalientRuns` is about the last call. That it survives a
  registration and a cached answer needs `InOrder`, the list of overrides is sorted
  by salience, later registrations first among equals (insertion keeps it), and `CacheAgrees`:
  what the cache holds is what a search would find now, since a registration
  empties it. TLC has
  checked `RegInv` on 126 000 states of `sharktank`.

How the loops and sums are proved. Recursive functions and the sums of the
community modules are `CHOOSE`s of a fixed point. `ProofLemmas` shows that the
fixed points exist and behave: `LeastNat` and `BySubsets` take a counterexample
that is least (`WFMin` for `<` on `Nat` and for strict subsets of a finite set);
`UpTo` is induction up to a bound with a set for the induction hypothesis;
`Recursion` gives a function on `0 .. n` defined by iteration; `SumCounts` equates a
sum with the number of its units, from which `SumAt` and `SumSplits` say how sums
change. The library's induction theorems, which take an operator, are not used.

Assumptions. Besides bounds that are natural numbers: the sets of readers,
schedulers, killers, threads, requests and trie allocations that are counted or summed over are
finite where it matters (`MsgThreads`, `Threads`, `Requests`, `TrieAllocs`), and the value that
stands for nobody is not a thread (`Nobody`); Python's threads are not threads of
workers, and `__init__` and the coroutine of `run` have names of their own
(`SystemAssumption`). All of them are `ASSUME`s of the
modules, which TLC evaluates in every run.

The theorems are about each component's own specification; the run of the MC module
that extends it checks the same definitions with the same actions.

Only model-checked: all liveness (fairness and ENABLED are beyond the prover), what
the larger recursive definitions compute (the operators on tensors, the solver's
enumeration), the tuner's candidates (`CandidatesSound`), and of sharktank the tensors, decoding, quantization and archives
(`ShardingTransparent`, `BatchedAsAlone`, `QuantTransparent`, `ParametersKept`),
whose properties compare the values of such operators. `OnePlace` and `PagesSound` are
neither checked nor proved for failures while results are read: there they do not
hold.

## 7. Not modelled, and the plan

Not modelled: t5, punet, vae, clip and flux (straight-line tensor programs without
shared state, checked numerically by their tests), kernels and export (generators
of MLIR text), device enumeration and system builders, logging, configuration and
option parsing, tokenizers (a foreign library), the argument handling of the
server scripts, tests and packaging. Within the modelled parts: contents of pages,
logits and images; log and error texts; callers that break an interface
(`ValueError`s of the caches, `publish_incomplete_page`); `call_later` of the
asyncio bridge; rotary embeddings, interpolation and complex views of sharded
tensors; floating-point rounding.

Next, proofs: `CandidatesSound`, whose solver is an enumeration by a recursive
function; what is left of sharktank compares values that such functions compute.
