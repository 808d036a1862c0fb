# Formal model of EmbodiInfer's serving and rollout runtime

EmbodiInfer (`src/embodiinfer`) runs vision-language-action policies for robots. Most of its
55,000 lines of Python are network numerics and device kernels. What this project specifies is
the part around them that has state, threads and failures: the store of recurrent session
memory, the engine and the rollout backend that write it, weight updates, the service that
gives clients ordered and idempotent steps, the servers and the cross-session batching in
front of a model, the memory that the model adapters keep of each session, data parallelism
over replicas, the continuous-batching loop, StreamVLN's batched runtime with its shared
key/value arena, and the compile cache that processes share on disk.

The modules are TLA+, model-checked with TLC (`tlc -config X.cfg M.tla`) and, where noted,
proved with TLAPS (`tlapm M.tla`). `PROJECT.json` lists the runs, maps every definition to the
lines it models, and names the hazards with the properties that cover them.

## 1. The system: components, state, interactions

| Component (source below `src/embodiinfer/`) | State it keeps | Operations | Hard behaviour | What makes it correct |
|---|---|---|---|---|
| Session store `engine/session.py` | `_slots`: committed memory, epoch, active lease per session; lease ids | checkout, checkout_many, commit, commit_many, rollback, reset, cancel, reset_all | late commits after a reset, group commits, partial checkouts | no lost update, one unbroken episode, stale leases stay stale |
| Recurrent engine `engine/core.py`, `engine/rollout/generation_backend.py` | a call's leases and results | `_execute_recurrent`, `_sample_recurrent_group`, generate | failures anywhere in a call, sessions reset under it | no lease outlives its call, groups take effect whole |
| Refit `engine/rollout/refit.py`, `weight_sync.py` | live tensors, policy version | refit, refit_module, commit_refit | copies that fail half way, a guard read in two parts | no old memory under new weights, published means installed |
| Policy service `engine/serve/service.py` | sessions with revision, next step and three bounded caches | open_session, step, reset, close | duplicates, reordering, adapter failures, close racing step, eviction | the adapter executes steps 0, 1, 2, ..; retries get the first answer |
| Batching `engine/serve/batching.py` | queue of requests and futures, one worker, closed flag | infer, reset, shutdown | wake-ups, windows cut short by shutdown | one answer per request, shutdown ends |
| Data parallel engine `engine/parallel/data_parallel.py` | pins, gates, per-replica lock and failure flag | execute, reset_sessions, cancel_sessions, shutdown | overlapping calls, failures with queued work, retries | memory only at the pin, no two calls on a session, no deadlock, no replay |
| Async engine `engine/async_engine.py` | queue, window, staged window, futures | generate, start, stop, the loops | pipelining with failures, givers-up, stop | every request answered once, with its own actions |
| Transports `engine/serve/{http,wireless}_server.py`, `contracts.py` | receive loops, request tasks, in-flight permits | receive, handle, respond, serve_forever, shutdown | permits lost on an error path, a peer that starves another, shutdown under running requests | permits come back, accepted requests are served, every loop is read again |
| Model adapters `policies/{dm05,pi05,streamvln}/serving.py`, `engine/async_inference/*` | per session: frames, the last action chunk, recurrent memory | infer, infer_batch, reset | failures between computing and keeping, retries, resets, closes | the memory is that of the committed steps of this episode |
| StreamVLN runtime `policies/streamvln/{batching,processing,tree}.py` | arena rows, resident memories, storages, frame history | infer: prepare, encode, plan, load, prefill, decode, commit | rows not reloaded, storage appended in place, forks and replays, draft trees at a limit | a memory keeps its text, a row holds its context, no selected frame is missing |
| Compile cache `models/qwen25_vl/compile_cache.py` | manifests and blobs on disk, a file lock | compilation_lifecycle: load, quarantine, publish | processes that die or lose power between two files | a manifest names a whole blob, what is published stays |
| ActiveVLN runtime `policies/activevln/*` | KV-cache views, row batching | prefill, decode, verify | like StreamVLN's rows, without its sharing of storage | not modelled |
| Image history and shape buckets `models/qwen25_vl/{history_image_cache,shape_buckets}.py` | a bounded list, none | append, resolve | none a test would miss | not modelled |
| Serving assembly `engine/serve/{factory,api,server}.py` | none | construction | none | not modelled |
| Configuration and graphs `engine/{config,graph}.py` | captured device graphs | resolve_bucket, capture, replay | none a model reaches | not modelled |
| Tensor parallelism `engine/parallel/{tensor_parallel,pi05,qwen25_vl}.py` | none of its own | sharding, collectives | none a model reaches | not modelled |
| Models, layers, kernels, decoders | none beyond a call | forward, encode, decode | numerics | not modelled |

How they interact:

    HTTP / wireless server --> PolicyService --(session lock held)--> ServingAdapter
                                                                          |
              BatchedServingAdapter (one worker) --> DM0.5, pi0.5, StreamVLN adapter
                                                                          |
    StreamVLNBatchedRuntime (arena, memories) <---------------------------+

    Qwen2.5-VL models --(compilation_lifecycle)--> compile cache on disk <-- other processes

    DataParallelEngine --(gates, pins, per-replica execution lock)--> EngineCore
    AsyncEngine -------(executor thread per window)-----------------> EngineCore
    GenerationBackend --(checkout_sessions / commit_sessions)-------> EngineCore --> SessionStore
            `--(refit, guarded by has_session_state)--> refit_module --> the policy's weights

## 2. Modules, and how they correspond to the code

* `SessionStore`: `slots` is the dictionary `_slots`, `leases` every `SessionLease` object at
  its id. Each method of the class holds the lock throughout and is one action. Memory is
  represented by the sequence of leases it was computed from, which is what lets a property
  say that an update was lost. `SessionRegister` is the abstract specification: a register
  per session with at most one open turn, and no epochs, lease objects or captured memories.
  `SessionStore` implements it under the mapping at its end.
* `RecurrentEngine` EXTENDS `SessionStore` with the threads that call it: a turn
  (`_execute_recurrent`) or a group (`_sample_recurrent_group`). Leases are taken one at a
  time, as `checkout_many` does, and every point inside a try block where the code may raise is
  an action that leads to the exception handler. One is outside: a turn makes its stage timer
  between the checkout and the try block, and on a CUDA device (`EventsFail`) that can raise
  (`TimerFails`), which ends the call with its lease still active. `lost` is a history variable
  with these leases.
* `RecurrentRefit` EXTENDS `RecurrentEngine` with one weight update at a time: the two
  questions of the guard, validation, one action per copied tensor, hook, publication.
  `made` and `reads` record which versions a turn was computed from.
* `PolicyService`: handler threads with program counters; `lock` is a session's lock, held
  across the adapter's call. `adapter` and `history` record what was executed and answered.
  `ServedSessions` EXTENDS it with the adapter that is served (`model`) and the `memory` it
  keeps: frames of DM0.5, the last chunk of pi0.5, the turns of StreamVLN. Every step of the
  composition is a step of the service (`ServedIsAService`). `MCServedSessions` gives the step
  numbers of the request ids.
* `BatchedAdapter`: the worker's program counter distinguishes waiting for a first request
  (`asleep`) from waiting within the window (`dozing`), because only a notification, or for
  the second a timeout, lets it run again. `Transports` EXTENDS it with the server in front,
  chosen in the initial state: the wireless server's receive loops (`loop`), its semaphore
  (`permits`, with `waiters` in their order), the request tasks (`stage`), the draining of
  `serve_forever`; or the HTTP server's threads, which nothing limits or waits for. `Submit`,
  `Refuse`, `Close` and `Join` are the adapter's actions as the servers call them.
* `StreamHistory` has the arithmetic of StreamVLN's frame history: the frames that a window's
  slow memory selects, those that keep their features, and the next request's history.
  `StreamBatch` EXTENDS it with `StreamVLNBatchedRuntime.infer`, one action per phase between
  which it may fail. A cell of the arena or of a storage is named by the turn and the token it
  was computed for; `text` is what a memory would hold without the shortcuts (resident rows,
  storage appended in place). `previous` is the table of residents that `_plan_rows` hands to
  the call, so a failure leaves no row trusted.
* `CompileCache`: `manifest` and `blob` are the files as processes see them, `manifestMay` and
  `blobMay` what a loss of power may leave of each, reset to a single value by a sync of the
  directory. `faults`, chosen in the initial state, says which kinds of fault a behavior has.
* `SessionGates`: `_hold_session_lifecycle` alone; what the call does inside is open.
  `DataParallel` EXTENDS it with routing, tasks, replicas, retries, reset and cancel; the mode
  (`is_recurrent`, `retry_on_healthy`) is chosen in the initial state as the constructor
  allows it. Every step of `DataParallel` is a step of the gates or leaves them alone, so it
  implements `SessionGates` (`EngineKeepsGates`). `MCDataParallel` adds the symmetry of callers, sessions and replicas.
* `AsyncEngine`: one action per stretch of code between two awaits. The mode (`pipeline`) and
  the kind of core (`graphs`) are chosen in the initial state. A stop cancels the loop's await
  of the executor, not the run in it: `left` counts the decoding runs that go on, and a run
  that decodes with captured graphs beside one of them shares their static buffers and may
  answer any of its rows with a mixture (`Mixed`). `raced` is a history variable with the
  requests of such runs. A run that only prefills touches no static buffer (`Decoding`).

Definitions marked `Mutant:` are wrong variants of the definition that follows them. They are
used by no specification; substituting one for the definition must make the property named
with it in `PROJECT.json` fail.

### Abstractions

* Data: observations, actions, tensors and fingerprints are names. A model call is the points
  where it may fail and the memory it hands back.
* `PolicyService` and `BatchedAdapter` take the inner adapter as external: a call that raises
  leaves it unchanged, and `infer_batch` raises Exceptions only. That a failed call leaves the
  memory of DM0.5, pi0.5 and StreamVLN unchanged is read off their code (`ServeFails`).
* `Transports`: parsing, tokens, size limits and routing are the choice between a request that
  reaches the model and one that is answered before; `PolicyService` between the server and
  the adapter is a module of its own.
* `StreamBatch`: sampled tokens are the length of the answer and the path of the draft that
  agrees with it. `tree_width = 1` stands for decoding without trees. The decode paths of a
  batch of one, `incremental_kv_commit` off, CUDA graphs with their prewarming, the check that
  the weights have not moved and the drafter's statistics are left out.
* `CompileCache`: one compilation at a time per process (`_PROCESS_COMPILE_LOCK`), an
  artifact's identity as a name, no counters. Its two properties are stated for one kind of
  crash at a time (`OneKindOfCrash`), see section 5.
* `DataParallel`: a replica's health is read at one instant where `_assign_replicas` asks one
  replica after another; an answer of a core with the wrong number of chunks or wrong request
  ids is not modelled; gate orders restart when no gate exists, since only the order of
  existing gates is ever compared.
* `RecurrentRefit`: `strict=True`, one update at a time, no name map.
* `AsyncEngine`: a window runs with its first request's number of steps (the code says that
  batches are assumed to agree, `async_engine.py:101`); the model does not carry step numbers.

## 3. Runs

| Run | Checks | Bounds, and why they are enough |
|---|---|---|
| `RecurrentEngine` | of the store: `ActiveLeaseIsCurrent`, `CommittedIsOneEpisode`, `StaleStaysStale`, `ImplementsRegister`; of its callers: `NoOrphanLease`, `GroupsCommitWhole`, `SessionsBecomeFree` | `EventsFail = TRUE`, 2 threads, 2 sessions, 3 leases, 1 reset or cancel each: a group racing a turn, half-taken groups, a late lease with a newer one in its place, a reset of one branch. The theorems cover all other values, for the safety properties. |
| `RecurrentRefit` | `MemoryIsOfThisPolicy`, `PublishedVersionIsInstalled` | 1 session, 2 tensors, versions up to 2: failed updates followed by good ones. `SerialRefit = TRUE`: the caller keeps updates and turns apart in time, which is what the code relies on (`refit` takes no lock). |
| `RefitGuard` (violated) | `GuardSeesSessionState` | The smallest instance with `SerialRefit = FALSE`. |
| `ServedSessions` | `AdapterFollowsSession`, `ClosedLeavesNothing`, `NoEarlyRepeat`, `MemoryFollowsEpisode`, `AnswersAreCommitted`, `AnswersAreOfThisEpisode` | 3 adapters, 2 handlers, 1 session, 3 step ids (two for step 0, in different episodes or competing, one for step 1), 2 reset ids, 2 contents (one continues a chunk), caches of 1, a history of 1 frame, 5 committed operations: every cache and the history overflow, retries cross resets. Handlers and reset ids are interchangeable (`SYMMETRY`; no liveness is checked here). Sessions share only the session limit. |
| `Transports` | `OwedOnce`, `PermitsAreKept`, `WirelessDrains`, `EveryRequestIsAnswered`, `ShutdownEnds`, `EveryReceiverGoesOn` | 3 requests, batches and queue of 2, 2 peers with 1 permit: full and partial windows, a full queue, a request that arrives while a batch runs, both loops waiting for the permit, a shutdown at any of these moments. |
| `CompileCache` | `NoDanglingManifest`, `PublicationsLast` | 2 processes, 2 fingerprints, 2 blobs that they may share; processes that die, or losses of power, or rotten files with failing loaders. |
| `StreamBatch` | `MemoriesKeepTheirText`, `RowsHoldTheirContext`, `SlowMemoryIsComplete`, `DecodeStaysInBounds` | 3 calls of up to 2 turns, 4 memories, 2 failures: fork, replay and reorder after a failure. Windows of 4 frames with 2 selected, 2 frames a request: a request jumps over the start of a window. Prompts of 4 tokens, rows of at most 10 cells in a pool of 17, pages of 8: the pool is laid out anew in pages, tightly where the pages do not fit, or is too small for two long rows. An end token after 1, 2 or 3 tokens of answers cut at 2, trees of 3 nodes: an answer ends before the limit, at it or by being cut, and the last block of a draft is cut. |
| `DataParallel` | `MemoryIsAtPin`, `RoutedIsPinned`, `ResetIsComplete`, `OneCallPerSession`, `GatesAreThoseInUse`, `WaitsClimb`, `NoReplay` | 2 callers, 2 sessions, 2 replicas; calls follow each other without a bound, only chains of overlapping calls end at gate order 3. |
| `DataParallelLive` | `SomeCallEnters`, `SomeCallLeaves` | The same with 1 replica, where every turn contends for one lock; no symmetry, since it checks liveness. |
| `ReplicaFence` (violated) | `FailedReplicaStops` | 1 replica. |
| `AsyncEngine` | `OwedOnce`, `OwnAnswer`, `EveryRequestIsAnswered` | 4 requests in windows of 2: one window staged, one collected, one stop and restart, so that one run is left in the executor beside a later one, callers that give up at any time; with and without graphs. |
| `AsyncEngineCollate` (violated) | `EveryRequestIsAnswered` | 2 requests, `CollateFails = TRUE`. |

The type invariants of the modules are part of the inductive invariants of section 4, where
they are needed, and are not checked by runs of their own.

Deadlock checking is off where a bound ends the behaviour or a system that has answered
everybody may stop; each configuration says which.

### Fairness

* `RecurrentEngine`: each thread's steps are weakly fair. A thread inside a call never waits
  for another (a busy session raises), so the operating system's scheduling is enough.
* `Transports`: the steps of each request task or thread, a loop that was granted a permit, the
  worker, the draining and the shutdown once begun are weakly fair: the event loop runs whatever
  is ready, the worker's timed wait ends and `infer_batch` returns. A semaphore of asyncio
  hands its permits over in order, which is in the actions and not in the fairness. That
  requests arrive, and that the server is stopped, is owed by nobody.
* `DataParallel`: weak fairness of each call's threads and the assumption that a model call
  returns. `threading.Lock` promises no order of its waiters, so strong fairness of a lock
  would be unjustified: the properties promise that *some* call enters and *some* call ends.
  A particular reset can wait for ever while turns of other sessions keep taking the
  execution lock (a model with `SF` is not what CPython gives).
* `AsyncEngine`: the event loop runs the loop task, and the core returns; a stopped engine is
  started again.

## 4. What is proved

`Recurrent_proofs` proves of the session store, for all values of `Keys`, `MaxLeases` and
`MaxEpoch`, with no assumption but that the two bounds are natural numbers:

| Theorem | Statement |
|---|---|
| `TypeCorrect` | `Spec => []TypeOK` |
| `LeasesAreCurrent` | `Spec => []ActiveLeaseIsCurrent` |
| `EpisodesAreUnbroken` | `Spec => []CommittedIsOneEpisode` |
| `StaleLeasesStayStale` | `Spec => StaleStaysStale` |
| `StoreImplementsRegister` | `Spec => ImplementsRegister` |

The argument rests on the inductive invariant `StoreInv`. `ActiveLeaseIsCurrent` alone is not
inductive: that a lease named by a slot has captured the committed memory only survives a
checkout because lease ids are never used again, and only survives a group commit because the
leases of a group that pass the test lie on different sessions (a slot names one lease). And
`CommittedIsOneEpisode` needs that a turn's captured memory is itself such a chain, which
holds for the lease that is committed because it equals the committed memory at that moment.
`StaleStaysStale` adds that epochs of a slot only grow and that a slot never names an older
lease again. The refinement has one case per action: checkout is `Begin`, commit and
commit_many are `Extend`, reset and reset_all `Forget`, cancel `Abandon`, and a rollback is
`Abandon` or a stutter.

It goes on to the callers, for any finite set of sessions (`EngineAssumption`) and any threads,
and to updates of any set of tensors that is not empty (`RefitAssumption`):

| Theorem | Statement |
|---|---|
| `EngineInvariant`, `RefitInvariant` | `EngineSpec => []EngineInv`, `RefitSpec => [](RefitInv /\ EngineInv)` |
| `EngineUsesStore` | `EngineSpec => Spec` (of `SessionStore`) |
| `NoLeaseIsOrphaned`, `GroupsAreCommittedWhole` | `EngineSpec => []NoOrphanLease`, `EngineSpec => GroupsCommitWhole` |
| `CpuCallsRollBack` | `EngineSpec => [](~EventsFail => EveryCallRollsBack)` |
| `PublicationIsWhole` | `RefitSpec => PublishedVersionIsInstalled` |
| `MemoryIsOfTheLivePolicy` | `RefitSpec => []MemoryIsOfThisPolicy`, assuming `SerialRefit` |

`NoOrphanLease` needs that no two calls hold one lease and that a call that returns has either
committed or rolled back each of its own, unless it raised in its stage timer; a slot only ever
becomes busy with the lease handed out in that step. `CpuCallsRollBack` is the same without the
exception, for a device whose timer has no events. `GroupsCommitWhole` follows from the store's
invariant: only a publication extends an episode (`OnlyPublishExtends`), it extends it by a
lease of the group, and every other lease of the group passed the same test, so it was open and
in no memory yet (`CommitAddsItself`). `MemoryIsOfThisPolicy` is not inductive, since a copy
that fails half way leaves mixed weights: `SerialInv` says that whatever is committed was read
from the weights that are live, mixed or not, and that there is nothing committed while they
change.

`SessionGates_proofs` proves of the gates, and `DataParallel_proofs` of the engine that uses
them, for any finite sets of callers and sessions, any set of replicas and any `MaxGates`:

| Theorem | Statement |
|---|---|
| `GatesInvariant` | `GatesSpec => []GatesInv` |
| `CallsExclude`, `GatesFollowUse`, `WaitsNeverCircle` | `GatesSpec => []OneCallPerSession`, `[]GatesAreThoseInUse`, `[]WaitsClimb` |
| `EngineKeepsGates` | `Spec => GatesSpec` |
| `TurnsExclude`, `GatesAreKept`, `TurnsNeverCircle` | the same three of `DataParallel`'s `Spec` |
| `EngineInvariant` | `Spec => []EngineInv` |
| `MemoryStaysAtPin`, `RoutedStaysPinned`, `ResetLeavesNothing` | `Spec => []MemoryIsAtPin`, `[]RoutedIsPinned`, `[]ResetIsComplete` |
| `RetriesReplayNothing` | `Spec => NoReplay` |
| `SomeCallGoesOn` | `Spec => []SomeCallCanGo` |

The assumptions are `GatesAssumption` (finite sets; `Nobody` is no caller) and
`ReplicasAssumption` (`Nobody` is no replica).

`OneCallPerSession` is not inductive: two calls could pass each other at different gates of one
session if a gate were dropped while somebody still counts on it. `GatesInv` therefore says
that `users` is the true number of calls counted in a gate, that no two sessions share a gate,
and that only a call counted in a gate owns it; and, for `WaitsClimb`, that a call that
acquires owns the lowest of its gates. Dropping a gate at the count of 0 is then dropping it
when no other call needs it, which takes the arithmetic of finite cardinalities; that the new
gates of one call differ is the lemma `PlacesDiffer` about how they are counted.

`EngineInv` rests on these. `RoutedIsPinned` is preserved by another call's routing or reset
because only a call at work changes pins, only those of its own sessions, and
`OneCallPerSession` keeps these apart from the sessions of any other call at work.
`MemoryIsAtPin` follows from it when a row succeeds; when a pin is given up for a retry, from
the constructor's rule that only stateless engines retry (`ModesFit`); and when it is
released, because the replica has forgotten the session before, and no turn can have brought
it back in between. `ResetIsComplete` needs the list of owners looked up at the start to stay
complete, again by exclusion.

`SomeCallCanGo` is that the engine has no deadlock: while a call is under way, the guards of a
step of some call hold. Of the calls that wait for gates, look at the highest gate waited for:
its owner cannot wait, since by `WaitsClimb` it would wait for a higher one
(`SomeHolderIsFree`). Inside, a call waits only for execution locks; `LocksInv` says that one is
held only by a call with a row that runs there (`HeldByRow`) and that a call has open rows only
while it gathers, so of the rows of a gathering call the first open one can start, or the
holder of its lock can finish (`GathererCanGo`, `HolderCanGo`).

`StreamBatch_proofs` proves, for any batch, arena, window, page, answer length and draft width
that the constructors accept (`ProfileAssumption`, `BatchAssumption`):

| Theorem | Statement |
|---|---|
| `BatchInvariant` | `Spec => []Inv` |
| `SlowMemoryAlwaysComplete` | `Spec => []SlowMemoryIsComplete` |
| `DecodeNeverFull` | `Spec => []DecodeStaysInBounds` |
| `TextInvariant` | `Spec => [](Inv /\ TextInv)` |
| `MemoriesHoldTheirText` | `Spec => []MemoriesKeepTheirText` |
| `RowsHoldTheirText` | `Spec => []RowsHoldTheirContext` |

`SlowMemoryIsComplete` is arithmetic: a selected frame is a multiple of the stride, the stride
of every later boundary is a multiple of `window_size \div num_history` when that division is
exact, and where it is not every frame is retained (`SelectedIsRetained`); it becomes inductive
with the history written out (`WellKept`). That no step writes into the prefix of a memory
(`PrefixStep`) needs to know when a turn may append to a storage: only in the row whose resident
is the *longest* user of it (`Latest`), and no two rows may have residents in one storage, or
two turns of one call would write the same cells.

`TextInv` says what the cells hold: the rows lie one behind another in the pool (`LayoutOK`),
the storage of a memory holds its text, a row holds the text of its resident, of the memory
that was in it before it is imported, or of its turn, and a turn that is committed left its
text in its storage. That a new layout keeps the rows apart is a statement about sums: the
start of a row is the sum of the capacities before it, whether they are rounded up to pages or
not (`PrefixSums`). The sum is a fold, so what it is for every number of rows is an induction;
the library's induction theorems cannot be instantiated, but a set of numbers that is not empty
has a least one (`WFMin` of `WellFoundedInduction`), and the induction is on that set
(`Induction`). Everything the steps write goes through one function, `Written`; the lemma about
it (`WrittenIs`) says that cells are in their places and what lies before them in a row is as it
was, because rows share no cell (`RowsApart`). The path of a draft tree is moved up to the
cells behind the context before the rest of the draft is dropped: that what then lies there is
the accepted text needs that the branches of a path increase (`PathIsCompacted`).

`CompileCache_proofs` proves for any processes, fingerprints, blobs and fault plans
(`CacheAssumption`): `CacheInvariant` (`Spec => []CacheInv`), `ManifestsNeverDangle`
(`[]NoDanglingManifest`) and `PublishedStaysLoadable` (`[]PublicationsLast`). The invariant
speaks of the files a loss of power could still leave, not only of those that are there: any
blob that any version of a manifest may name is synced (`PowerInv`), and a blob that is there
and not synced is in the hands of the process that syncs it next.

`Transports_proofs` proves of either server with its worker, for any finite sets of callers and
peers and any limits (`BatchAssumption`, `TransportAssumption`): `ServersInvariant`
(`TransportSpec => []TransportInv`), `RequestsAreOwedOnce` (`[]OwedOnce`), `PermitsNeverLeak`
(`[]PermitsAreKept`) and `AcceptedAreServed` (`[]WirelessDrains`). `OwedOnce` needs that queue
and batch repeat nobody and share nobody; the permits need that a waiting or granted loop holds
exactly one request, since handing a permit over trades a handled request for a granted loop;
`WirelessDrains` needs that a future is only pending while its request is being handled, so that
after the draining nothing is left for the closing adapter to refuse.

`ServersGoOn` (`TransportSpec => []NobodyIsStuck`) excludes a lost wake-up: the worker sleeps
only over an open queue that is empty and dozes only over one that does not fill its window
(`WakeInv`); the loops wait in line only when no permit is free (`LineInv`), and then, by
`PermitsAreKept`, the requests or granted loops that hold the permits are ahead of them.

`AsyncEngine_proofs` proves for any requests, window size, number of stops, and with or without
a failing collate (`AsyncAssumption`): `AsyncInvariant`, `EachIsOwedOnce` (`[]OwedOnce`) and
`AnswersAreOwn` (`[]OwnAnswer`). The invariant says that queue, window and staged futures are
disjoint and repeat nobody, and that the staged futures are those of the staged window.
`OwnAnswer` has one exception, which needs a core with graphs and a stop (`RacedInv`): an engine
that is never stopped, or whose core is eager, gives everybody their own answer.
`LoopGoesOn` (`[]LoopIsNotStuck`) concludes that the loop never waits for good over somebody it
owes an answer: when it awaits a first request, whoever is owed is in the queue, or in the
staged window, which can be flushed. Its exception, a `collate` that raises in the loop task, is
what the run `AsyncEngineCollate` shows.

`ServedSessions_proofs` proves for any handlers, sessions, request ids, cache sizes and history
lengths (`ServiceAssumption`, `ServedAssumption`):

| Theorem | Statement |
|---|---|
| `ServedIsAService` | `ServedSpec => Spec` (of `PolicyService`) |
| `ServiceInvariant` | `Spec => []ServiceInv` |
| `AdapterInStep`, `NothingIsLeft` | `ServedSpec => []AdapterFollowsSession`, `[]ClosedLeavesNothing` |
| `MemoryFollows` | `ServedSpec => []MemoryFollowsEpisode` |
| `CachesInvariant` | `Spec => [](ServiceInv /\ CacheInv)` |
| `NoEarlyRepeats` | `ServedSpec => []NoEarlyRepeat` |
| `AnswersCommitted` | `ServedSpec => AnswersAreCommitted` |
| `AnswersInEpisode` | `ServedSpec => AnswersAreOfThisEpisode` |

`ServiceInv` says what a handler that holds a session's lock still knows when the adapter comes
back: a step in it is the next one, a close has marked the session before. A lock is held by a
handler at work on that session only, so no other handler changes it meanwhile (`OwnSessionOnly`).
`MemoryFollowsEpisode` adds that the history is at least as long as the episode, and lemmas about
the last `n` of a sequence: a history cut at every step is the cut of the whole one
(`LastOfRolling`).

`CacheInv` says what the three caches of a session remember of the operations executed.
`seen_requests` is a queue across resets: a step is found in it, with no more entries behind it
than steps were executed since, or as many steps were executed since as it holds (`SeenOrLate`).
`reset_requests` is reordered by replays, so of it only this is invariant: it repeats no id, and
if a reset that was executed is not in it, it is full, of resets that were executed
(`CachedOrFull`). An operation on its way to the adapter is in none of the caches (`Admitted`),
which holds because the lock is held from the lookup to the commit. Every cached response is
one that was committed, and every cached step is one of the current episode, since a reset
empties `responses`: a replay therefore answers with what was committed.

Only model-checked: liveness under fairness and ENABLED, which are beyond the prover
(`SessionsBecomeFree`, `EveryRequestIsAnswered`, `ShutdownEnds`, `EveryReceiverGoesOn`,
`SomeCallEnters`, `SomeCallLeaves`), and the three violations of section 5. Every other
property of the runs is proved. `SomeCallGoesOn`, `ServersGoOn` and `LoopGoesOn` are the safety
halves of the liveness properties: they state the guards of the steps that fairness is assumed
of, in place of ENABLED; that fair steps then end what is owed is left to TLC. No module uses a RECURSIVE operator.

## 5. Where the code does not do what it says

* **The refit guard can miss session state** (`RefitGuard`). `has_session_state` asks for
  committed memory and for leases under two separate locks (`engine/core.py:353`); a turn
  that commits in between is seen by neither, and its memory is continued by new weights.
* **A failed replica can run one more call** (`ReplicaFence`). `_failed` is set after the
  execution lock is released (`engine/parallel/data_parallel.py:187-189`), so the second health
  check at 163 does not see the failure it is there for.
* **An exception of collate ends the async engine** (`AsyncEngineCollate`). `policy.collate`
  runs outside the try block (`engine/async_engine.py:102` and `133`).

Known limits that the code leaves open, and no run refutes:

* Within an episode a committed step is rejected even after its answer was evicted
  (`step_id_too_old`), but after a reset an evicted request id of an earlier revision may be
  executed again (`NoEarlyRepeat` states how early: a step after `idempotency_cache_size` other
  steps, a reset once as many other resets were executed, since replays reorder that cache), although `docs/en/serving.md`
  says without that limit that such ids are refused.
* A turn whose stage timer raises leaves its session busy until somebody resets or cancels it:
  `_StageTimer` is made after the checkout and before the try block (`engine/core.py:253-255`),
  and on a CUDA device it creates and records events (`engine/core.py:54-57`).
  `docs/proposals/0004-vln-activevln-adapter.md:345` asks for a rollback on every exception.
  `EveryCallRollsBack`, which holds on a CPU only (`CpuCallsRollBack`), says so;
  `NoOrphanLease` and `SessionsBecomeFree` say that nothing else orphans a lease.
* `stop` of the async engine drops the futures of the window it interrupts, and leaves its run
  in the executor (`engine/async_engine.py:67`, where the await of lines 104, 135 and 155 is
  cancelled). After a restart the next run can decode on the same core beside it. Captured
  graphs have static buffers that nothing guards (`engine/graph.py:131-144`), so rows of the two
  runs can mix; the data-parallel engine takes a lock for this reason, so that "concurrent
  callers can never race one replica's graph inputs"
  (`engine/parallel/data_parallel.py:119-121`). `OwnAnswer` is stated with this exception.
* A window runs with the first request's steps.
* After a copy or a hook that fails, the previous version stays visible over tensors of which
  some are new, as `docs/en/api.md:300` and `docs/en/architecture.md:155` say; the caller has to
  repair the policy, and nothing in the code marks it until then. `PublishedVersionIsInstalled`
  is about the versions that are published after it.
* In one batch of pi0.5, requests that disagree on their delay or on what is left of their
  chunk fail together (`engine/async_inference/serving.py:66`), although
  `engine/async_inference/contracts.py` and `infer_batch` ask for one outcome per request
  ("Return an exception in a row for invalid input without failing its peers",
  `engine/serve/contracts.py:95`).
* A chunk of pi0.5 whose tail is not finite is answered and not kept: an offset the client then
  sends is taken from the chunk before (`policies/pi05/serving.py:265`).
* The compile cache releases its lock between a failed read and the quarantine, so an entry that
  another process has published anew in between is moved away, although
  quarantine is for "entries whose blob no longer matches"
  (`models/qwen25_vl/compile_cache.py:248`). It is compiled again.
* A process that dies between the rename of a blob and the sync of its directory, followed by
  another that finds the blob and only syncs its own manifest, followed by a loss of power, can
  leave a manifest without its blob; the next load quarantines it. Either kind of crash alone
  cannot (`OneKindOfCrash`).
* The StreamVLN adapter validates the returned actions after its turn is committed
  (`policies/streamvln/serving.py`); the parser it uses returns only valid ones.

## 6. Plan

Done, in this order: the session store with its register and proofs; its callers; refit; the
policy service; batching; gates and data parallelism with their proofs; the async engine; the
transports over batching; StreamVLN's history and runtime; the compile cache; the service with
its adapters' memory; proofs of the last five, of the store's callers and of refit; the
idempotency caches, the layout of the pool and the text in its rows; that the engine, the
servers and the async loop never get stuck.

Next, the most valuable first:

1. `DataParallel`: shutdown of the pool under running calls, and calls without sessions.
2. Concurrent weight updates (`SerialRefit` for several callers of `refit`).
3. ActiveVLN's row batching, in the way of `StreamBatch`.

### Not modelled

Network numerics, kernels, decoders, log-probabilities and tensor parallelism (layers, models,
backend and `policies/*/modeling_*.py`, by far the most lines of the repository) keep no state
whose orders a model could explore: what could be wrong in them is a number. Graph capture and
its configuration are device state. Serving assembly and the FastAPI front end construct
objects. Image history and shape buckets are a bounded list of one caller and arithmetic
without interleavings or failures. `NCCLBroadcastSync` is documented as a sketch.
