# TLA+ models of tessl's runtime protocols

tessl is a Rust library that encodes neural-network kernels onto Apple's
Metal 4 command buffers. Most of it is straight-line numerical code over one
object, the `GpuRuntime`; what is hard is what lies around that object: a GPU
that runs behind the host, command buffers whose memory must stay alive until
they finish, host threads that read the same bytes the GPU writes, several
runtimes that share one byte budget, and the errors, timeouts and drops that can
come at any moment. Around that core stand callers with protocols of their own: a
decode session that replays a recorded tape, sessions that keep a model's state between
tokens, a Go server that puts one worker behind a queue, a C ABI and a torch binding that
must not let memory go under the GPU. This directory models those protocols, checks them
with TLC on small instances, and proves their safety properties with TLAPS for every value of the constants.

Paths below are relative to the repository. `PROJECT.json` maps every definition
to the lines it models.

## 1. The system and what is modelled

### Inventory

| Component | State it keeps | Operations | Status |
|---|---|---|---|
| Shared buffers and the host fence (`src/shared_buf.rs`, `src/runtime/host_fence.rs`) | lease word, two stamps, the event's published and signalled value, timeout streak, poison latch | `read`/`write`/`acquire_*`, guard drop, `stamp_gpu`, `wait_stamp`, `wait` | `SharedBuffer.tla` |
| Runtime (`src/runtime.rs`) | open batch, two allocator slots, constant arena cursor, deferred releases, residency set, access lease | `with_binder*`, `commit`, `synchronize`, `host_access`, `alloc_*`, `reclaim`, drop | `GpuRuntime.tla`, in part |
| Buffer pool and ledger (`BufferPool` in `src/runtime.rs`, `src/pool_ledger.rs`) | free list, byte counters, cache cap; the host's two balances | `alloc`, `recycle`, `retire`, `trim_free_list`, `set_max_cache_bytes`, `release_pool_ledger` | `BufferPool.tla`, in part |
| Poison latch, commit clock, timeline (`src/shared.rs`) | latch with a cause, `next`, `event_value`, retained clocks | `poison`, `issue`, `Timeline::wait`/`reached` | in the two modules above, in part |
| Pooled buffers, tensors (`src/tensor.rs`) | handle, weak runtime, bytes charged | drop, host mapping, views | drop and mapping only |
| Binder (`src/dispatch.rs`) | argument table, hazards, arena cursor | `bind_*`, `dispatch*`, barriers | `HazardBinder.tla`; binds and cursor in `SharedBuffer`, `GpuRuntime` |
| ICB capture and replay (`src/decode_icb.rs`, `src/cb_replay.rs`) | the capture, the tape, two ledger slots, the encode-nop switch | record, replay, capture, guard | `DecodeTape.tla`, `CbReplay.tla`, in part |
| Parallel batch (`src/par_batch.rs`) | chunk plan, the shared first failure, the chunks' results | `plan`, `map_ordered` | `ParBatch.tla` |
| Go binding and server (`go/`) | worker, admission queue, close state | embed, close, serve | `EmbedModel.tla`, `EmbedServer.tla`, in part |
| Qwen3.5 sessions (`src/qwen35_model.rs`, `src/qwen35_params.rs`) | staged residual, per-layer kept state, parameter generation | `begin`, `advance_to`, `prefill`, `step`, writes | `Qwen35Session.tla`, in part |
| C ABI (`src/capi.rs`) | handles on their thread, the runtime each keeps alive | `guarded` calls, frees | `CApi.tla`, in part |
| Torch binding (`python/tessl_torch`) | the thread's runtime, the models bound to it | calls, exceptions, close | `TorchBinding.tla`, in part |
| Kernel launchers, other models, decoders, tokenizer, the embedding C ABI, flags, shaders, benchmarks | none between calls, or process-wide switches | | not modelled, see section 12 |

### How the components interact

* **One thread owns a runtime.** `GpuRuntime` is `!Send`; its calls are sequential
  and take the access lease, so a call made inside a closure or under a host
  mapping is refused. `SharedBuf`, its lease guards and `Timeline` are `Send`: they
  reach the runtime's atomics from other threads and take no lock.
* **The GPU runs behind.** A commit hands a command buffer to the queue, draws a
  value from the commit clock (which runtimes of one device may share, so a
  runtime's values have gaps), stores it in `event_value` and then tells the queue
  to signal the private lifetime event with it. Everything that must outlive a
  command is tied to such a value.
* **Memory is released late.** The last handle of a buffer pushes it, with a
  release point, onto a queue that the runtime drains when the event has passed it;
  the pool then parks or destroys it and moves its bytes between the ledger's two
  balances. Another thread can drop the last handle.
* **Errors are sticky.** A failed closure, a GPU fault, a dishonest event or the
  third timeout in a row poison the runtime for good. One or two timeouts are
  errors a caller may retry.
* **Callers of a thread-bound runtime.** The Go package and the server reach it through one worker
  thread and a queue; the C ABI's handles each hold the runtime alive, and a call waits for its
  work before it returns; the torch binding decides what to close when a call panics or poisons.
* **Work without encoding.** A decode session may replay the commands it recorded instead of encoding
  them again, with barriers only where the recording has them.

### Hard behaviours, and what must hold

The list with lines is `hazards` in `PROJECT.json`. In short: two sides that each
mark and then look (lease word and stamps); values read before a wait and used
after it; the order store-then-signal; releases decided on another thread while
commits go on; an arena that is rewound on several paths; timeouts that leave a
half-finished commit behind for the retry; a destructor in any of these states;
and ledger transfers another pool can get between. The properties:

* host and GPU never conflict on shared bytes, and a lease is never leaked;
* memory, arena space, allocator slots and residency outlive the commands that use
  them;
* a mapping excludes the GPU; the destructor frees nothing in use;
* bytes are charged once and given back once, and caps hold;
* a thread that waits is waiting for something that will come;
* a batch spread over threads is answered as a loop over it would be;
* a dispatch is ordered after the one before it whatever scopes, modes or tapes the two come from,
  and a replayed one has the arguments of the recorded one;
* kept state continues a sequence exactly: one decode step answers what a whole forward would, or
  the session ends for good;
* a request is answered whatever the worker does, a server whose model is gone exits, and a
  closed model is freed;
* a call that fails has either moved nothing or ended what it moved;
* work that goes on behind an exception is on a runtime that is closed and poisoned, and waits for its last holder.

### Modules

| Module | What it is |
|---|---|
| `HostGpuLock` | abstract: a reader-writer lock between host threads and GPU work |
| `SharedBuffer` | the fence protocol, one step per access to a shared word; implements `HostGpuLock` |
| `SharedBuffer_proof` | its inductive invariant and what follows: exclusion, lease word, honest event, the refinement, and what blocked and flushed calls rely on |
| `BufferLifetime` | abstract: memory is reclaimed only when it has no owner and no user |
| `GpuRuntime` | the runtime, one step per piece of a call up to the next wait; implements `BufferLifetime` |
| `GpuRuntime_proof` | its inductive invariant, its safety properties and the refinement |
| `BufferPool` | the pools of several runtimes that charge one ledger, one step per ledger decision |
| `BufferPool_proof` | sums over finite sets, the inductive invariant of pools and ledger, its properties |
| `ParBatch` | one batch of texts cut over threads, one step per text and per look at the shared failure |
| `ParBatch_proof` | what the plan computes, the inductive invariant of a batch, its properties |
| `HazardBinder` | binder scopes and their barriers on one command buffer |
| `DecodeTape` | extends it: capture, tape, replay, the switch that skips encoding |
| `CbReplay` | extends that: the two-slot ledger of a decode session; the whole specification |
| `CbReplay_proof` | its inductive invariant and its properties |
| `EmbedModel` | callers, the one worker and its model: the Go `Model` and the engine behind it |
| `EmbedServer` | extends it: `tessl-embed`, from its start to its exit |
| `EmbedServer_proof` | its inductive invariant and its safety properties |
| `DecodePromise` | abstract: a decode session is a sequence of tokens |
| `Qwen35Session` | staged prefills and decode sessions on kept state; implements `DecodePromise` |
| `Qwen35Session_proof` | what runs and kept state compute, the inductive invariant of the sessions, its properties and the refinement |
| `CApi` | handles, `guarded` and the frees |
| `TorchBinding` | extends it: what the torch binding does with a call that ended |
| `TorchBinding_proof` | its inductive invariant and its properties |
| `MC*` | instances for TLC: symmetry sets and bounds that are not plain values |

The components meet in shared state that each module carries the part of it needs:
`SharedBuffer` has the encoder's commits at the granularity of single stores and one
buffer; `GpuRuntime` has whole commits and all that hangs on them. `GpuRuntime`'s
"free" buffer is what `BufferPool` parks, destroys or hands out again. `ParBatch` stands alone:
it runs in the tokenizer, before anything reaches the GPU. `CbReplay`, `EmbedServer` and `TorchBinding`
are compositions: each adds its own variables to those of the module it extends, and its
actions take that module's actions as conjuncts. `Qwen35Session` stands above the runtime: one call runs at a time,
since the model lives on the runtime's thread, and a call that moves state before it can fail is taken half layer by half layer.

## 2. `SharedBuffer`: correspondence

State: `lease`, `lastUse`, `lastWrite` are the atomics of `SharedBufInner`;
`submitted` is `event_value`, `signaled` the private lifetime event, `streak` and `poisoned`
those of `Shared`. `enc` is where the encoding thread is, `bound` the roles this buffer has
in the open command buffer, `cbuf` the commit between `issue` and its signal, `queue`
the commits the queue was told to signal. Each host thread has a place in its call
(`pc`), the mode it asked for, the stamp it loaded, the event value it saw, and the reason
it fails.

* *Bind*: `StampUse`, `StampWrite`, `CheckLease` are `stamp_gpu`, in its order; a refusal
  goes to `AbortScope` (poison, then `abort_open_batch`). `ScopeFails` is any other failure
  of a closure. `DispatchOther` is a dispatch that leaves this buffer alone.
* *Commit*: `Commit` (on the queue, value drawn), `PublishValue` (`event_value`),
  `EnqueueSignal`; `Synchronize`, `SyncReached`, `SyncTimeout` are the waiting side.
* *Lease*: `Ask` (poison check), `TakeSlot`/`Busy` (the compare-exchange), `LoadStamp`,
  `WaitStamp`, `ReadSignaled`, `CheckSignaled`, `CheckSubmitted`, `EnterWait`, `WaitReached`,
  `WaitTimeout`, `Drop`. An error path keeps its slot until the guard is dropped, as in
  the code.
* *GPU*: `Finish` in queue order; `GpuFault` is the feedback callback.

Abstractions: the bytes are not there, only who may touch them; memory orders are taken as
sequentially consistent, which is what the code asks for on the stamp and lease pair;
a compare-exchange loop is one step; a wait is one state with three ways out.

## 3. `GpuRuntime`: correspondence

State: `batch` is `active_m4` (no batch, a closed one, an open command buffer), `slot` and
`inFlight` the two allocators, `cursor` the arena, `openBufs`/`openConsts` what the command
buffer being recorded uses, `queue` the same for commits not finished, `where`/`after` the
deferred-release queue (per handle: a pooled buffer has one `PooledBuffer`, a caller's buffer as many as it is wrapped), `resident`/`committed` the residency set and its dirty flag
(the two differ exactly when it is dirty), `mapped` the access lease of a host mapping. `pc` and
`call` place the owning thread inside its call.

* `Dispatch`, `CheckArena`, `Rewind`, `OpenOnFree`, `AwaitSlot`, `SlotReached`, `Encode`,
  `EncodeFails` are `with_binder` and its inner function, `CommitNoWait` also its mid-commit.
* `Synchronize`, `MapHost`, `CommitWait`, `CommitClosed`, `AllReached`, `NextReached`,
  `WaitTimeout` are `commit_m4(true)` on its paths: nothing open, a batch closed by an
  earlier commit, a command buffer open. The drains, the residency commit, the slot reset and
  the arena rewind are part of these actions.
* `Wrap` is `Tensor::from_mtl_buffer`, which asks neither the latch nor the lease. `external_wraps` is not a variable:
  it is the number of handles of a buffer that are not free, and `Unwrapped`, which a drain uses, is the buffers whose last
  handle is among those it takes; only these leave the residency set.
* `Alloc` includes `recycle_if_idle`; `DropBuffer` and `RemoteDrop`/`RemotePush` are
  `PooledBuffer::drop` on the owner's thread and on another one (pooled buffers only: no wrap leaves the thread), where other steps come
  between reading the release point and pushing.
* `ReleaseRuntime`, `Destroy`, `DropReached`, `FreeFields`, `DropTimeout` are the destructor, which may start on
  either thread. `FreeFields` is what Rust does after `drop`: the residency set, the free list and the queues go with the memory they alone hold;
  `DropTimeout` leaks them instead.
* `OrphanDrop` is `PooledBuffer::drop` once the destructor began, when the upgrade of the `Weak` fails: the handle lets go of its
  buffer at once, past the deferred queue (stage "dropped"). While the destructor waits, and for ever after it leaked, only the residency set holds
  that memory then, which is why the destructor may touch the set in `FreeFields` only.

Abstractions: a commit is one step here, since its inner order matters only to other
threads and `SharedBuffer` explores it; the event is honest here for the same reason
(`HonestEventPasses`); parked and destroyed buffers are both "free"; the closure's
commands are the set of buffers and the number of constants they use; the owner's own
handles are not dropped while another thread is inside a drop of the last runtime reference.
The feedback watches are left out: a wait looks for late feedback for a bounded time after the event, and the callback
sets the poison latch by itself, so a lost watch loses a delay and no fault; `GpuFault` may come at any time.

## 4. `BufferPool`: correspondence

State: the host's two balances; for each pool its free list, the handed-out and waiting
buffers as counts by bucket length, `cached_bytes`, `max_cache_bytes` and `live_bytes`. `alloc` is `Alloc`,
`CachedToLive` (the second half of the transfer), `ChargeFresh`, `Trim`/`TrimOne` (the
ladder: charge, trim everything, charge once more), `Create`/`CreateFails`. `recycle` is
`Recycle` and `Park` around the transfer; `Retire` destroys. `SetMaxCacheBytes`/`Shrink` evict the
largest first. `DropRuntime` either closes (`CloseWaiting`, `CloseCached`) or leaks; handles
that outlive the runtime give back their own charge (`DropHandle`). A step ends where the
ledger is called and another pool may change its answer.

The ledger itself is a trait a host implements; the model's one refuses what passes a cap over
both balances and is otherwise bookkeeping. Lengths are already bucketed.

## 5. `ParBatch`: correspondence

`Plan` is `plan`: chunk `k` ends at the first text at which it holds its share of the remaining bytes,
and early enough to leave a text for each chunk after it. `StartChunk` spawns the others in order
and then runs the caller's own chunk; `CheckFailure` is the loop head, `Encode` the call of `f` with its
`fetch_min`; `Join` is the loop over the results and the length check, `Serial` the path with one chunk.

What each text does when encoded is fixed in the initial state, so the answer can be compared with
`SerialAnswer`. `first_failure` is the set of values the atomic has had: a relaxed load returns any of them,
so a chunk may hear of a failure arbitrarily late.

## 6. `EmbedModel` and `EmbedServer`: correspondence

`EmbedModel` has each caller's place in `roundTrip` (`phase`), what it sends and gets, the worker's `job`, the
model in the worker's thread slot, the engine's `max_tokens` (`limit`) and the Go side's copy of it (`cached`),
and the `closed` and `dead` flags. `Call` is `Model.call`, which looks at the flags; `RoundTrip` is the path that does not
(`load`, the free of `Close`). `Take` and `Execute` are the worker; `Effects` lists how a job can end: `go/engine/src/ops.rs` maps an
error to a reply and decides whether the model stays, and a panic that reaches the handle replaces the worker and loses its
model. `Leave` is a context that ends in the queue or during the job, which the worker finishes for nobody.
The handle (`gusset`) is not in the repository; it is modelled by what the package relies on.

`EmbedServer` follows `embed` in `server.go` step by step: `Arrive` (the one look at `dead`), `TryWork`, `CountWaiter`, `GetWork`, `GiveUp`,
`Uncount` (`acquire`), then two model calls with `Tokenized` (`fit`) between them, and `Answered` or `Failed` (`modelError`, whose
first fatal error goes to `main` while the slot is still held). `main` is `StartCall`/`Started`, `Stop`, `ServeFails`,
`ShutdownEnds`, `Close`, `Freed`, `Exit`. An answer's status and body are left out, and so are inputs beyond
the length of the longest sequence.

## 7. `HazardBinder`, `DecodeTape`, `CbReplay`: correspondence

A runtime belongs to one thread, so scopes follow one another. `scope` is the binder of the open scope (hazard
mode, pending barrier), `batch` what the open command buffer carries to the next scope, `table` the runtime's argument table.
`bare` is a history: the last dispatch has nothing behind it that would order the next; a dispatch that starts while `bare` holds
and no barrier is pending is a fault. Replay looks at the same history, except where the tape's author said that two commands may
run side by side.

`DecodeTape` adds the capture (`BeginCapture` to `TakeCapture`, and what each dispatch and barrier of a scope adds to it), the
replay of a tape in one scope or one scope a command (`triage`), with prebuilt tables shared by fingerprint or by setting the addresses
that changed (`sticky`), and the guards of `BINDER_ENCODE_NOP`. `seen` remembers what each dispatch was recorded with, so
the arguments of a replayed command can be compared with it. `CbReplay` adds the slots A and B, `mark_live_step`, `on_gpu_complete` and
`try_replay_ready_icb`, with a failure before, between and inside the scopes of a replay (`ExecRefused`, `ExecFails`).

Arguments are buffers, constants and resources bound without an owner; the last are not captured, and a replay
leaves their slots as they are, so `ReplayedArguments` says nothing of them.

## 8. `Qwen35Session` and `DecodePromise`: correspondence

A number is abstracted to what made it: a residual row is the sequence of its contributions, each with the layer, the version of
the weights and the inputs the layer's state held. Two computations agree if these agree. `Half` is half a layer of a
prefill over all rows, `TokenHalf` the same for one token on the kept state: the conv's two sides (which one is read is the parity of the
step), the recurrent state, the prefix and suffix caches, and the add a fused projection defers to the next norm.
`Begin`, `Advance`, `AdvanceHalf`, `AdvanceReturns`, `EncodePart`, `Logits` are `Staged`; `Prefill`, `Step`, `StepBegins`, `StepHalf`, `StepReturns`, `SetFusion` are
`Decode`; `Write`, `WriteBegins`, `CopyParameter`, `WriteReturns` are `write_parameters` and `write_parameter_host`, which move `param_generation` before the first byte.

`at` is the call in progress: a step first passes its checks (`Step`), then allocates, launches the embedding and sets the latch (`StepBegins`), then moves the state one half layer at a
time, and clears the latch with its answer. `CallFails` is any `?` on that way: before `begun` it returns with the session as it was, after it the latch or the generation
that the call moved is all that keeps the session from being used again. A refusal is the same, at the first test. `advance_to` and the writes are split in the same way; `begin`,
`prefill` and `logits` are one action, since they build or read a session that no one else has while they run, and `encode_part` is one with both outcomes.
The relaxed switch moves between calls only: the runtime is `!Send` and `!Sync`, so its thread is inside the call.

`DecodePromise` knows none of this: tokens, how many may follow, whether the session is alive, and the row of a
whole forward as the answer. `KeepsPromise` is the refinement.

## 9. `CApi` and `TorchBinding`: correspondence

`CApi` keeps the handles and models, which runtime a model holds an `Arc` of, the poisoned runtimes, those that have committed work, and per runtime the caller's
storages that unfinished work uses. `Guarded` is `guarded()`: it waits after the body (`WaitEnds`), may find the fault of a commit when it has waited (`WaitFindsFault`) or run out of budget
(`WaitRunsOut`, the third in a row poisons), and does not wait on a poisoned runtime (`NoWait`). `GpuFault` is the feedback block of a commit, which may latch the poison
at any time after the commit: between calls, and after a call that returned Ok. `Free` drops `Arc`s, and the last one runs the destructor, which waits, poisoned or not (`FinalWait`);
`LeakModel` is a free on another thread. `TorchBinding` is the Python side:
`NewRuntime` (`_runtime`), the calls, and then `Succeeds`, `Panics`, `Poisons`, `Refuses`, which look at the returned status in a step of their
own: between the return and that look the GPU goes on and a finalizer may run on another thread (`FinalizedElsewhere`).

## 10. What is checked

Each property of a passing run has a mutant in `PROJECT.json`: a plausible bug, kept in the
module as a "faulty variant" beside the definition it replaces, under which TLC finds the
property violated. Every run also checks its module's `TypeOK`.

| Run | Instance | Shows |
|---|---|---|
| `fence` | 2 threads, clock to 3, 3 timeouts, 2.1 M states | in all interleavings of two host threads, the encoder and the GPU: `HostGpuExclusion`, `LeaseWordCounts`, `WaitsAreBacked`, `HonestEventPasses`, `FlushSettlesStamps`, and the refinement `LockSpec` |
| `fence_live` | 2 threads, clock to 2, one reader at most, no timeouts | `BlockedIsGranted`: a thread that blocks gets its lease |
| `runtime` | one pooled buffer and one of the caller's with two wraps, clock to 3, arena of 2 with reserve 1, 4.7 M states | `RecordingExclusive` (the open command buffer shares neither arena space nor its allocator slot with one in flight), `ResidentWhileRunning`, `MappingExcludesGpu`, `BatchTracksWork`, and the refinement `LifetimeSpec` (nothing is reclaimed or destroyed while a command uses it, the destructor and drops behind its back included) |
| `runtime_live` | 1 buffer, clock to 4 with gaps of 1, no timeouts, 0.5 M states | `CallsReturn` |
| `pool` | 2 pools, lengths 1..3, cap 5, caches 1 and 4, 3 buffers a pool | `LedgerBalanced` (the host's balances and every pool's counters are the sums of what there is), `CacheWithinCap`, `RefusedWithNothingCached` |
| `batch` | up to 4 texts of 0, 1 or 3 bytes, each encoded, failing or panicking; up to 3 threads; chunks of 2 bytes on average | `AnswersSerially`, `NoPartialBatch` |
| `embed` | 3 requests and `main`, one working slot, a queue of one, sequences of up to 2 tokens and a limit of 1 | `SlotsBalanced`, `DeadIsFinal`, `FittedIdsFit`, `ClosedIsFreed`, and under fairness `RequestsAnswered`, `FatalExits` |
| `replay` | 2 argument slots, 2 buffers, a constant and an unowned resource; 3 live dispatches, 3 commands, 2 guards, one replay, 2.7 M states | `NeighboursOrdered`, `ReplayedArguments`, `NopUnderGuard`, `LedgerHonest` |
| `session` | a recurrent and an attention layer, prompts of 1 and 2 tokens, sessions of up to 2 steps, a conv tail of 2, 2 writes, 0.4 M states | `StagedIsForward`, `FailuresAreSettled` (a call that fails leaves sessions and weights as it found them, or no session of before is usable), and the refinement `KeepsPromise` |
| `capi` | 2 runtimes, 2 models, 2 storages, 0.2 M states | `UnsettledIsHeld` (work that goes on behind an exception, no wait having run out, is on a poisoned and closed runtime that a model handle still holds), and in `TypeOK` that only a destructor whose wait ran out leaves work behind it |
| `fence_adopted`, `capi_idle` | as `fence` and `capi` | end in a counterexample, see below |

Why the bounds are enough for these cases to happen. Fence: one thread can hold while another
asks, with a commit finished, one running and one being recorded; three is both the
timeout limit and the number of commits. Runtime: two slots in flight and a third command
buffer waiting for one of them need three commits; an arena of two with reserve one
fills within a batch, is rewound, and refuses an overlong scope; the pooled buffer is dropped, drained and allocated again while
commands on the caller's run, and of two wraps one goes while the other's commands run. Pool: two pools and a cap of five force a refusal in the
second half of a transfer, three lengths give a larger buffer to evict for a smaller one, and
the small cache shrinks a full one. Batch: three chunks with a failure in each, in every order, next to
empty texts and one that outweighs a chunk; the instance is all batches within the bounds, and a fourth text gives
a chunk of two. Embed: three requests fill the slot, the queue and one place behind it; a limit below the longest sequence
makes `fit` cut, refuse and let through. Replay: three commands have a middle one whose barrier is decided from both sides, two of them
share a fingerprint or differ in one bind, and a tape built by hand has two commands with the same arguments; two guards nest; one replay fails or
succeeds with live steps before and after it, which is all the ledger remembers. Session: two
steps read and write either side of the conv, a prompt shorter than the conv's tail leaves zeros in it, and two writes fall before and between
the parts of a prefill and the steps of a session. C ABI: one runtime poisoned with its model while another is opened, a model that still holds a closed runtime beside one that made the call, or a model leaked.

`CHECK_DEADLOCK FALSE` except in `session`, where a call is always possible: the other systems stop. A poisoned runtime admits no
call, a destroyed one has no thread, a pool may be gone, a batch is answered, the server exits, the bounded
dispatches, replays and writes are used up, and the bounded clock runs out.

Fairness of the two runs on the runtime. Steps inside a call that began are taken (a
running thread keeps running, and each such step is enabled until it is taken); a commit that
drew its value is published and signalled, since nothing between may block; the GPU
finishes what it was given; another thread's drop completes. The caller owes nothing: no commit,
no lease drop, no unmap is assumed. A wait that runs out of budget is an error, not a
grant, so the liveness runs switch timeouts off (`Timeouts = FALSE`); `fence` and `runtime` have them on.
Neither liveness property holds for a GPU that never answers, nor is it meant to.

Fairness of `embed`. Goroutines run and deadlines pass, so a request's steps and `main`'s are weakly fair: each stays
enabled until it or the step it races with is taken. `main`'s own call is taken by an idle worker, in its turn. Nothing is assumed of the
worker for `RequestsAnswered`, which a job that never ends does not break; `FatalExits` does assume
that the jobs end, since the server's exit frees the model on the worker.

### Where the code and its documentation disagree

Each of these is a run that TLC ends with a counterexample, under the property that states the
documentation.

* `fence_adopted` / `HostGpuExclusion`: with `AdoptedBinds = TRUE` a caller also binds the handle
  `SharedBuf::to_gpu_buffer` returns. `bind_owned` neither stamps nor reads the lease, so a
  host lease is granted beside a command that uses the bytes. `src/shared_buf.rs:30` and `:57` say no
  route puts the allocation on a tape without a stamp.
* `capi_idle` / `RaisedIsIdle`: `python/tessl_torch/__init__.py:24` says that every call returns after tessl's queue is idle, on failure as well as
  success, and that "a buffer torch recycles after an exception is never still in use"; `python/README.md:304` calls a poisoned runtime the exception and says that
  the binding handles it by freeing that runtime first. A free waits only when it drops the last `Arc`. TLC loads a model, lets a call on the thread's
  runtime panic and poison it while its kernels run, and `_runtime_status` closes the runtime's handle: the loaded model still holds the `GpuRuntime`, nothing waits, and
  `TesslPanic` reaches the caller with its storage in use. The same counterexample exists for `TesslError` of a model whose runtime was closed before (`is_poisoned` is false
  of a closed one), and for `TesslPoisoned` when a finalizer on another thread leaked one of the models (against `:390`, "need keep nothing alive").
  `UnsettledIsHeld` is what remains true in all these cases.

One more disagreement is read off two fixed texts, so no run is spent on it: `map_host_access_error` (`src/shared_buf.rs:544`) classifies errors by words, "poisoned" before
"timeout", and the text of a retryable timeout says "not poisoned" (`src/runtime.rs:3061`), so it is reported as `FenceError::Poisoned` although the runtime is not poisoned
(`src/runtime.rs:1521`). `Timeline::wait` has the same test (`src/runtime/host_fence.rs:175`).

The models also show behaviours that a reader of the code may not expect and no run is spent on:

* a bind is refused, and the runtime poisoned, by a call that has taken its slot and is not yet granted, or is about to
  be refused (`src/shared_buf.rs:396` speaks of a live lease);
* the thread that drops the last handle of a shared buffer holds a strong reference to the runtime for a moment; if the owner
  lets go in that moment, `GpuRuntime::drop` runs there (`src/tensor.rs:83`), though the runtime is `!Send`. `ReleaseRuntime` allows it;
* a replay whose last commit fails gives its slot back as Ready although its tape was encoded (`src/cb_replay.rs:317`); a
  failed commit poisons the runtime, so it is never replayed.

## 11. What is proved

Each theorem holds for every value of the constants that the modules' assumptions admit. `PROJECT.json` lists them with the
property each states.

| Module | Theorems |
|---|---|
| `SharedBuffer_proof` | `TypeCorrect`, `Inductive`, `LeaseWordCorrect`, `ExclusionCorrect`, `HonestEventCorrect`, `WaitsBacked`, `FlushSettles`, and `ImplementsLock`: `Spec => LockSpec` |
| `GpuRuntime_proof` | `Inductive`, `TypeCorrect`, `RecordingCorrect`, `ResidencyCorrect`, `MappingCorrect`, `BatchCorrect`, and `ImplementsLifetime`: `Spec => LifetimeSpec` |
| `BufferPool_proof` | `Inductive`, `TypeCorrect`, `LedgerCorrect`, `CacheCorrect`, and the action property `RefusalCorrect` |
| `ParBatch_proof` | `Inductive`, `TypeCorrect`, `SerialCorrect`, `WholeCorrect` |
| `CbReplay_proof` | `Inductive`, `TypeCorrect`, `OrderCorrect`, `ArgumentsCorrect`, `NopCorrect`, `LedgerCorrect` |
| `EmbedServer_proof` | `Inductive`, `TypeCorrect`, `SlotsCorrect`, `DeadCorrect`, `FittedCorrect`, `ClosedCorrect` |
| `Qwen35Session_proof` | `Inductive`, `TypeCorrect`, `StagedCorrect`, the action property `FailuresSettled`, and `ImplementsPromise`: `Spec => KeepsPromise` |
| `TorchBinding_proof` | `Inductive`, `TypeCorrect`, `UnsettledCorrect` |

The assumptions are on constants only, and TLC evaluates each of them on some run. Those that say more than what kind of value a constant
is: sets of threads, requests, pools, bucket lengths and cache caps are finite, since they are counted, summed over or searched for the largest; in `GpuRuntime` a pooled buffer has exactly one handle and a
caller's any number, and a wait budget is at least one timeout; a tape may have two commands (`MaxCommands`), the hand-built one has
so many; a dispatch has arguments (`Args` is not empty); the engine's default limit lies in `1 .. MaxLen`; `None` is none of the records it
stands in for.

### The fence

`TypeCorrect`, `WaitsBacked` and `FlushSettles` hold as they stand; the others assume `~AdoptedBinds`, which is exactly the way in that `fence_adopted` shows to be
open: the proof says that every other interleaving is safe.

`HostGpuExclusion` is not inductive: it speaks of the moment a lease is held, and is true then
because of what was true when the stamp was loaded. The inductive invariant `IInv` has five parts:

* `TypeOK`;
* `LeaseInv`: the lease word counts the owners of a slot (this is `LeaseWordCounts`). It is why the bind that
  comes second sees the lease that came first;
* `TimelineInv`: commits lie one after another, each starting at the value the one before it
  published, and all unfinished ones lie above the event. The commit that is drawn but not
  published carries what was bound;
* `StampInv`: each stamp lies above the value every unfinished command in its role started from,
  and a bind between its two stamps and its check has already raised them. It is why the lease that comes
  second sees the bind that came first;
* `ThreadInv`: the stamp a call loaded still lies above every conflicting command, although
  the stamps moved on since: a bind that raises them after the load finds the slot taken and
  is refused. A value seen on the event is not above the event, and a granted lease has a stamp
  the event reached.

With the last part a conflicting command would have to start below the event and be unfinished, which
`TimelineInv` excludes; that is `ExclusionFromIInv`. The step proof follows the actors: the encoder and the
GPU (`CoversStep`, `CallsHoldAgainstGpu`), and the host threads (`CallsHoldAgainstThreads`), after frame lemmas that
say which words each of them writes.

`ImplementsLock` takes this invariant step by step: a lease is granted by the step that reaches "held", where no conflicting
command is left, and GPU work is added by the bind's look at the lease word, where `LeaseInv` says that no conflicting lease is held.
`WaitsBacked` and `FlushSettles` have an invariant of their own (`WaitInv`): the last published value is on the event, on the queue or about to
be enqueued, and a stamp is at most one above it.

### The runtime

The properties of `GpuRuntime` say what must not overlap; none of them is inductive, since what a call does at once
when nothing is in flight depends on how the call knows that nothing is. `IInv` has, beside `TypeOK`:

* `GpuInv`: the event lies below every unfinished commit, and no two share a value;
* `PlaceInv`: where the thread is in its call says what the batch is;
* `SlotInv`: every unfinished commit's slot is marked with its value, and the open one's with zero. It is why a wait for a slot's mark
  is a wait for its commit;
* `ArenaInv`: constants in use lie below the cursor, each in one place, so the next one is nobody's;
* `BatchInv`: no batch means nothing in flight and a rewound arena, a closed one means something to wait for. It holds for a call that
  has begun even if a fault poisons the runtime under it, which is what lets the error paths be as careless as they are;
* `AnchorInv`: a buffer in use has a handle that is live, or whose release point lies above the event and above every commit before the one
  that uses it. For a pooled buffer it is always the same handle; for a caller's buffer the handle may change, which is why the invariant speaks of some
  handle and not of the one that was bound. A handle dropped behind the destructor's back counts too: its buffer stays in the residency set
  until the runtime's fields go.

`ImplementsLifetime` follows from `AnchorInv`: what a drain takes has no user, and when the fields go nothing is in flight (`BatchInv`).

### The pool

`LedgerBalanced` sums over all pools, but a step moves one of them. So the step lemmas speak of that pool alone: `Moves(p)` says that no other pool
changed, that the ledger changed by what `p` gained or lost, and that `p` is in order afterwards; `MoveKeeps` turns that into the invariant, since a sum
changes by what one of its terms changes (`SumChange`). What one pool needs beside types is `PoolInv`: its counters are the
bytes of its own buffers wherever they are not being changed, a buffer on its way into the cache has its place there (the one larger buffer that was evicted made room
enough), a pool that asks the ledger again has nothing parked, and a dropped one still counts what waits for the GPU. `Owed` says what the ledger holds for a
pool in the middle of a transfer. The ledger's cap plays no part: a charge may be refused at any time.

The sums are the community modules' folds. What a fold computes is found without induction over data: its recursive function is a `CHOOSE`, so
a function that satisfies its equation has to be shown to exist, cardinality by cardinality (`AddsExists`), and then unfolds element by element (`SumUnfolds`).
A statement about every number holds because the set of its counterexamples would have a least element (`NatSetInduction`). `ParBatch_proof` and
`Qwen35Session_proof` reason about their recursive functions in the same way.

### The parallel batch

`PlanCuts` is a fact about `plan` alone: for texts of any lengths, empty ones included, and any number of threads, the bounds rise strictly from 0 to the
number of texts. Then the invariant goes chunk by chunk (`ChunkInv`): what a chunk passed was encoded, and it stopped at its end, at its own failure or panic, or
behind another chunk's failure that lies before its place. `FailureInv` is why it may believe what it loads, however stale: `first_failure` never held anything but
texts that failed. From there the first failing text of the batch is always reported by its own chunk: only a failure before it could
stop that chunk, and there is none. `TogetherSerial` draws this conclusion, `JoinedWhole` the one for a batch without a failure.

### Capture and replay

`CbReplay_proof` has one invariant for three questions, because the order of two dispatches depends on the tape, and what is on the tape
on what the scopes left pending when it was captured. `OrderInv` says where the word is kept that a dispatch still needs a barrier behind it: in the
open scope, in the batch, or in the tape being replayed, whose captured commands all have their barrier except the last (`TapeInv`, `LastOwed`). `ArgsInv` says that
what the capture, a sticky table and the tape believe to be in the argument table is there; a table shared by fingerprint is that of the first
command with the same one (`FirstExists`). `ClaimInv` and `GuardInv` tie the ledger's claim to the replay that runs, and every
guard to the state it found.

### The server

A job may belong to a caller that left, so `EmbedServer_proof` follows the jobs: `AsksInv` says what may be asked of the worker, and by whom; `ModelInv`
what the flags, the replies not yet looked at and `main`'s place say of the worker's model; `PlacesInv` where a call may be out. That the limit Go caches is
at most the engine's holds only after the start, and only because no request is admitted before it (`StartInv`).

### The sessions

`Qwen35Session_proof` shows for any stack of layers that the state a session keeps is a function of its tokens. Three facts about runs over all rows carry it: a run
in two parts is the run (`RunJoins`), which is all a staged prefill needs; the row at a position depends on the rows up to it alone (`RunCausal`); so when a
token is appended each layer's inputs grow by one (`InputsGrow`). `CarryIs` says what a layer keeps of the tokens so far: the last inputs of the conv, on the side the
step's parity names, and one window per token; or the prefix and as many suffix entries as steps. A prefill establishes it (`PrefillKeeps`), and one token keeps it half layer by half
layer (`TokenHalfKeeps`): after `h` halves its residual with the deferred add is the last row of the run of `h` halves over all the tokens, whether each
projection was fused or not. At the last half that row is what `Forward` answers (`StepKeeps`).

The invariant adds when this may be used: `StagedInv` and `DecodeInv` hold what a session keeps while it is not broken, under the weights it began with, which are
the present ones as long as its generation is. A write moves the generation, so both sessions end (`StagedRests`, `DecodeRests`); a failure past the latch breaks the session, of which
nothing more is claimed. `CallInv` says where a call in progress stands: until it begins, every session and the weights are as it found them (`CallFrame`); a step that began holds the
activations and the state of `at.half` half layers of its token (`StepInv`), an advance the rows of a run of so many (`AdvanceInv`), a write has ended both sessions (`WriteInv`).
`NextKeeps` shows for each action that it keeps the invariant and is a step of `DecodePromise` or none; `FailuresSettled` follows from `CallFrame` and `BegunFails`.

### The torch binding

`CallInv` is what `guarded` promises for a call that returned and was not looked at: its runtime is poisoned, or its work was
waited for, or a wait ran out, and a status of Ok means that the work is over. A fault reported in between can only poison. `UnsettledIsHeld` then needs that no runtime is let go of
with its work going on (`FreeSettles`, `StillHeld`): what an exception leaves running has a holder, which is a model, since the runtime's own handle was closed.

### Only model-checked

* Liveness: `BlockedIsGranted`, `CallsReturn`, `RequestsAnswered`, `FatalExits`. Fairness and `ENABLED` are out of the proof system's reach.
* The two runs that end in a counterexample.
* The composition of the models: that `GpuRuntime`'s events are honest is `SharedBuffer`'s theorem, and that a free buffer may be handed out again is
  `GpuRuntime`'s; that the modules agree where they meet is read off the code.

## 12. What is not modelled, and why

Most lines of the repository are not protocol. The mapped lines are a few per cent of them, and most of what has state between
calls.

* Kernel launchers (`gemm.rs`, `nn.rs`, `ew.rs`, `cross_entropy.rs`): checks of shapes and a choice of kernel before one dispatch. They keep
  nothing, and what they compute is numbers; their protocol is the binder's and the runtime's.
* Models without sessions (`qwen35.rs`, `embedgemma2*.rs`, `bert.rs`) and loaders: straight-line code over the runtime on one thread. Their errors are
  `ScopeFails` and `EncodeFails`.
* Decoders and tokenizer: functions of one input; the part of the tokenizer that spreads over threads is `ParBatch`.
* `mtl_tensor.rs`: its release goes through the same queue as a buffer's.
* The C ABI of the embedding model: the same handles and guard as `CApi` over a model that keeps nothing between calls; texts that were cut are fetched by a second call, as results.
* Flags, traces, shaders, benchmarks and scripts: process-wide switches read at the start, counters, GPU arithmetic and tooling.
* A batch's answer when threads panic: `AnswersSerially` excepts it, since the code reports the panic even if an
  earlier text failed, and a loop would have stopped at that text.
* Within the runtime: the feedback watches (section 3), the params and bump arenas, pipeline caches, library loading. Within the pool:
  the bucket arithmetic and `set_pool_ledger`'s refusal.
* Within capture and replay: the switches that turn it on, and the counters of what it saved. `mark_torn` has no caller, so no action.
* Within the server: the listing and version endpoints and the media calls, which take the same path as the others.
* Within the sessions: loading, the working-set estimate, and the views of the logits, which only read.

## 13. Plan

In order of weight:

1. **Buckets** (`bucket_len` and the cap on idle bytes): as operators against their definition, with the width of the integers.
2. **Feedback** (the feedback slot and its condvar in `runtime.rs`): armed watches, late callbacks, requeue and replacement, if a wait's promise to report a fault
   at once is ever to be relied on.
3. **Embedding C ABI**: as another client of `CApi`, once its calls keep state.
