# Tenzor in TLA+

Tenzor is a C++23 tensor library in the style of PyTorch: tensors and operators
over several backends, automatic differentiation, neural-network modules, data
loading, distributed training, and an inference server.  Most of it is
numerical, and its own tests check that part well.  This project is about the
rest: the bookkeeping whose mistakes show only in some order of calls, some
shape of graph, or some interleaving of threads.

Every module is translated from the C++ source.  `PROJECT.json` gives, for each
definition, the lines it models.

## 1. Inventory

### Components, their state and their operations

| component | state | operations | hard because |
|---|---|---|---|
| **Backward engine** `src/autograd/engine.cpp` | thread-local `grad_accumulators_`; per call: `sorted`, `unshared`, scope guards | `execute`, `execute_multi`, `topological_sort`, `compute_unshared_functions` | graph shapes (diamonds, shared sub-graphs, several roots); calls nested by checkpoints; exceptions half-way; teardown of a graph that others share |
| **Variable and Function** `src/autograd/variable.cpp`, `function_base.cpp` | `grad_`, `grad_fn_`, hooks, `retain_grad_`; `next_functions_`, `input_variables_`, `parent_count_`, saved tensors and their versions | operators, `zero_grad`, `retain_grad`, `register_hook`, `set_next_functions`, `save_for_backward`, `validate_saved_tensors` | handles share one `VariableImpl`; `parent_count_` is kept by hand |
| **Dynamic batcher** `src/serving/server.cpp` | queue, `running_`, promises, batch thread | `submit`, `start`, `stop`, `batch_loop`, `execute_batch` | submitters against the loop against `stop()`; a flag stored without the mutex; a batched attempt that falls back |
| **Data loader** `src/data/dataloader.cpp` | `batch_queue_`, `reorder_buffer_`, `next_batch_idx_`, `active_workers_`, `epoch_done_`, `epoch_generation_`, `worker_exception_` | `worker_thread`, `get_next_batch_multi_threaded`, `reset`, `stop_workers`, the iterator | backpressure against reordering; epochs abandoned half-way; workers that outlive an epoch; exceptions |
| **Model repository and server** `src/serving/server.cpp` | map of entries with state and batcher, `mutex_`; `running_`, the HTTP handle, the serve thread | load, replace, unload, predict; `start`, `stop`, `wait` | a model replaced or unloaded between lookup and submit; a join under the mutex; `stop()` before the server listens |
| **Elastic training** `src/distributed/elastic/` | the store's keys (round, slots, world size, guards, members); rank, world, restart budget | `join`, `leave`, `run`, `check_and_recover` | every command is a separate message; coordinators crash; live peers are taken for dead |
| **RPC agent** `src/distributed/rpc/rpc_agent.cpp` | connections by peer, write mutexes, pending calls, threads | `send`, `send_async`, `accept_loop`, `recv_loop`, `shutdown` | three kinds of lock; late answers; shutdown at any point; peers that connect twice |
| **Distributed data parallel** `src/distributed/ddp.cpp` | buckets, pending counts, overrides, flat buffers in flight | `forward`, the gradient hooks, `synchronize_gradients`, `no_sync`, `reset_buckets` | ranks must issue the same collectives in the same order; a hook runs before its gradient is stored |
| Task queues: `ThreadPool`, `WorkerPool`, `WorkExecutor`, futures | queue, stop flag, pending count | submit, wait, shut down | lost wakeups, tasks after shutdown |
| Pipeline schedule, distributed checkpoints | micro-batch queues; files | send, receive; write, rename | order differing between ranks; crash while writing |
| Allocators, offload and transfer engines | free lists, events, staging buffers | allocate, free, transfer | reuse before a stream is done |
| Gradient checkpointing, graph optimizer | recompute closures; rewritten graphs | recompute; rewrite | nested backward; sharing |
| Tensor core, kernels, JIT, lazy, lite, ONNX, modules, models, bindings | – | – | numerical or sequential; not modelled |

The components in bold are modelled.

How they interact: an operator builds a `Function` that holds its inputs'
handles and their `grad_fn`s; `backward()` enters the calling thread's engine,
which walks `next_functions`, writes the leaves' `grad_` and tears the graph
down; a checkpoint's `backward()` enters the same engine again.  A request
handler looks up a model, calls `submit()` and blocks on the future that the
batch thread fulfils; unloading calls `stop()`.  A training loop's `begin()`
resets the loader, whose workers communicate with the consumer only through the
fields guarded by `queue_mutex_` and a few atomics.  DDP's hooks are called by
the engine during `backward()`, before it stores the gradient, and meet the other
ranks only in collectives.  An elastic worker meets the others only through the
store's keys; an RPC agent meets its peers only through its sockets.

### What correctness means

* Sort: a post-order of exactly the reachable Functions, or a true report of a cycle.
* Engine: every leaf gets the sum over all paths, whatever was called before;
  a call that throws leaves nothing behind; teardown frees what is exclusive and
  spares what is shared; every call ends.
* Batcher: each accepted request gets one answer, its own; one handed in too late is
  turned away; `stop()` returns and strands nobody; batching is invisible.
* Loader: each epoch yields batches 0, 1, 2, … once, from its own permutation;
  the end means all of them; fetch, reset and destruction return.

* Server: a model that is offered serves; replacing one turns nobody away; no batch
  thread outlives its model; unload and stop return.
* Elastic: those who joined a round agree on its size and have different ranks in
  it; a failed join leaves nothing; every `run()` ends, whoever crashes.
* RPC: a callback gets the answer to its own request or an error; every call ends;
  a map never leads to a descriptor that is closed or somebody else's; after
  `shutdown()` nobody works on the agent.
* DDP: all ranks issue matching collectives and end with the same gradient, the
  average where no compressor drops a part of it.

The list of hazards, each at its line and with the properties aimed at it, is
in `PROJECT.json`.  Others that were found and are not pursued: two threads that
accumulate into one leaf with `create_graph` (`engine.cpp` 748) or share Functions
(374); a Function that dies without teardown and stays counted (`function.hpp`
167); `indices_` shuffled while old workers run (`dataloader.cpp` 459); the
executor's pending count (`work_executor.hpp` 65); a task submitted to a pool
that shuts down (`worker_pool.cpp` 73).

## 2. Plan

In order of importance; all stages but the eighth are done.

1. **Engine**: `GraphOps` (vocabulary) → `TopoSort`, which implements
   `SortContract` → `BackwardEngine`, which uses exactly what the contract
   offers.  Proofs of the sort.
2. **Batcher**: `DynamicBatcher`, which implements `BatcherContract`.  Proofs of
   the invariant and of the refinement.
3. **Loader**: `DataLoader`, with and without persistent workers.
4. **Server**: `ModelRepository` over `BatcherContract`, and `InferenceServer`
   around it.
5. **Elastic training**: `Rendezvous`, and `ElasticTrainer` around it.
6. **RPC**: `RpcAgent`.
7. **DDP**: `DistributedDataParallel`.
8. Next modules: one for the task queues (`WorkerPool`, `WorkExecutor`); the
   caching allocators; the pipeline schedule; threads that accumulate into
   shared leaves.
9. **Proofs** of the modules above, in `...Proofs` modules; section 5 says which
   properties they cover.  What is left: for DDP, the programs for which ranks
   that deliver in different orders inside a bucket still match, and those for
   which `RanksAgree` holds.  Neither checked nor proved is what the batcher
   answers with a model that returns a fixed number of rows (`FixedRows` is 0 in
   the run and in the proof).

## 3. Modules

### GraphOps, TopoSort, SortContract

`TopoSort` is the loop of `topological_sort` and of `execute_multi`, one
iteration per step: `TakeRoot` (outer loop), `SkipChild`, `DetectCycle`,
`DescendChild` (the three ways to treat `children[child_idx++]`), `EmitNode`
(post-order append and pop), `Return`.  `on_stack` is `recursion_stack`.  The
graph and the roots are chosen in `Init` and never change; cyclic graphs are
among them, since the code has a branch for them.  `SortContract` is the same
in one step.  `GraphOps` defines reachability as membership in every closed
set, without recursion, for TLC and the provers alike.

### BackwardEngine

One thread's program.  `Apply` builds the graph (any operator; `Edges` says how
`set_next_functions` counts); `ZeroGrad`, `RetainGrad`, `RegisterHook`,
`ModifyInPlace`, `DropHandle` are its other calls; `Execute` is the beginning of
`execute`/`execute_multi` up to the loop; `SkipFunction`, `EnterFunction`,
`DeliverGradients` are the loop, cut where a Function's `backward()` may call
the engine again; `Return` and `Throw` run the scope guards (`CleanupGraph`,
`RestoreAccumulators`).

Abstractions.  A gradient is the number of paths it came along: every local
derivative is 1 and a hook doubles, so a lost, doubled or misdirected
contribution changes the count.  Function `f` is the f-th operation and its
output is Variable `f`.  Saved tensors are held, modified or released.  `built`,
`expected` and `tainted` are history: what was applied, what the gradients
should be, and whether some call threw or began on a graph that was not intact
(then no promise is made about values).  Left out: `create_graph`, dtypes,
`requires_grad = false`, shape errors of the seed (thrown before any change
that matters here), other threads, memory management.  Since destruction is
left out, an edge of a Function that nothing refers to any more stays in
`next`, as it stays counted in `parent_count_`.

### DynamicBatcher, BatcherContract

`batch_loop` is cut at the lock (`Lock`), the predicate (`TestPredicate`), the
release of the lock (`Block`), the ways a wait ends (`Deadline`, a notification,
`SpuriousWake`) and the two exits of the critical section (`Exit`, `TakeBatch`);
`stop()` at its store, its notification, its join and its drain, because
`running_` is stored and the notification sent without the mutex.
`execute_batch` is `ExecuteSingle`, `ExecuteBatched`, `FallBack` followed by one
`RunPerRequest` per request, and `LastResort`.  An input is its number of rows
(or scalar), its group of compatible inputs, and whether the model rejects it;
rows carry the name of their request, so an answer shows whose rows it was made
of.  `Forward` is what can be seen of a compiled module from outside: it maps rows
to rows, or (with `FixedRows`, which the run leaves at 0) emits a fixed number of
rows.

`BatcherContract` is what handlers and unload rely on: a gate that is open,
closing or shut, and one answer per request.

### DataLoader

A worker is at `new`, `loop`, `load`, `push`, `blocked` (on `worker_cv_`),
`retire`, `signal`, `after`, `parked` (on `epoch_start_cv_`), `catch` or
`exited`; the program's thread is between calls, in a fetch, in `reset()` or in
the destructor.  A batch is its index and the permutation it was loaded under.
Critical sections are single steps.  `reset()` with persistent workers takes
one step per store, since the workers run meanwhile.  Left out: the
single-threaded path, collation, spurious wakeups, torn reads of `indices_`,
an empty dataset, a program that goes on with an iterator that has thrown, and a
batch whose inputs have an empty shape, which a `collate_fn` of the program's own
may return: `fetch_next()` takes it for the end of the epoch (`dataloader.cpp`
528), so that `EndMeansComplete` says nothing of such loaders.

### ModelRepository, InferenceServer

A `ModelEntry` is named by the load call that made it.  A predict call goes
through `GetModel`, `CheckReady`, `Parse`, `Submit`, `Answer`, `Leave`; a load
through `Build` (or `BuildFails`), `Publish` and, when it drops the last
reference to the entry it replaced, `DestroyOld`; an unload through
`MarkUnloading`, `StopBatcher`, `Erase`, holding `mutex_` from the first to the
last.  Who refers to an entry is computed from the map and the calls, and
whoever drops the last reference runs the batcher's destructor.  The batcher
itself is the gate and the answers of `BatcherContract`, so what the proofs
establish of `DynamicBatcher` is what this module relies on;
`BatchersAreUsedAsAgreed` is the converse: every entry's gate and requests take
only steps of that contract.  `InferenceServer` adds `start`, `stop`, `wait` and
the serve thread, cut at the places where `stop()` may look at the handle.
`httplib` is external.  Left out: gRPC, the read-only handlers, and `wait` and
`stop` that join the serve thread at the same time.

### Rendezvous, ElasticTrainer

`Rendezvous` has one action per command that `join()` and `leave()` send to the
store, and per loop exit: read the round, claim a slot, look whether the round is
closed, barrier, freeze (the coordinator's `SET world_size`), wait for
`world_size` or give up, and the three commands that open the next round.
Deadlines may strike at any time.  `ElasticTrainer` adds `run()`, the calls of
`check_and_recover()` that do something, the monitor's verdicts (any peer, right
or wrong) and crashes between any two commands.  The store and its server are
external and outlive the workers.

### RpcAgent

One agent with all its threads.  A call is `Call` (at any time, also after
`shutdown()`, as in `send_async()`), `Send`, `Register`, then a frame written to a
connection that is found or dialled (`Find`, `Dial`, `Publish`, `Spawn`,
`LookUpMutex`, `LockWriter`, `SendFramed`), then `Return` or `Timeout`, which run
the callback and count the thread out, and `Notify`, the `notify_all()` that comes
after the mutex is released.  A receive thread uses the same steps to answer.
`RegisterInbound` and `CloseSuperseded` are the accept thread's critical section,
cut where it waits for a write mutex; `Collect` to `JoinWorkers` are `shutdown()`,
which sleeps (`asleep`) until it is notified.  Peers are the environment: they
connect, ask, answer late or never, and drop connections.  A frame is its kind,
its id and whose answer it is.

A connection is one thing, the number of its descriptor another.  The maps, the
write mutexes and the threads know only numbers; `desc.holder` says which
connection a number stands for now, and `NewConn` takes the lowest free one, as
`socket()` and `accept()` do.  `Close`, a read, a write and the cleanup of a receive
thread go by number and hit whatever connection has it by then; two threads that
read from one connection may tear a frame.  `desc.aliased` is history: the
numbers that were last given out while some thread, map or list still had them
in hand.  A connection closed without `::shutdown()` leaves a thread that is
blocked in a read where it is; `PeerGivesUp` is the other side's timeout.

### DistributedDataParallel

Every rank runs one program over its replica.  `HookPasses`, `HookCounts`,
`HookReduces`, `HookLaunches` are the four ways through a gradient hook;
`AllReduce`, `AllReduceReturns`, `BucketReduced` the blocking reduction of one
bucket; `SweepSkips`, `SweepReduces`, `SweepLaunches`, `SyncComm` the loop of
`synchronize_gradients()`, which `EndNoSync` shares.  A gradient is the vector of
its shares of each rank's backward passes, so that an average, a sum, a stale or a
doubled gradient are all different.  Of a collective only the matching is modelled:
the n-th calls of the ranks meet, buffers of different layout block, equal ones
are summed.  `Kept` is the loop of `pack_bucket_flat()` that passes over
parameters without a gradient.  With a compressor there is one collective per
parameter; `Compressed` and `Dropped` are `TopKCompressor::compress()` for one
element of the gradient: it adds what was dropped before, if it still finds that
under the gradient's storage, and then keeps the element or drops it into
`residual`, each rank for itself.  Left out: the rounding of the half-precision
compressors, and a residual found under a storage that has become another
parameter's.  Assumed: only parameters of the module have hooks, and `None` is no
gradient.

### The MC modules

`TopoSort` takes its graphs from a constant.  `BackwardEngine`, `DataLoader`,
`RpcAgent` and `DistributedDataParallel` have a variable, and `Rendezvous` its
`config`, that is chosen in `Init` from a constant set and does not change
(`RpcAgent` counts its peers' requests down in it): one run then covers several
configurations of different size.  The MC modules define those sets.

## 4. Runs

| run | checks | result |
|---|---|---|
| `topo_sort` | all 3-Function graphs with up to 2 inputs, lists of up to 2 roots: `SortedIsPostOrder`, `SortsExactlyReachable`, `CycleReportIsTrue`, `SortTerminates`, `SortContract` | holds |
| `backward` | graphs of up to 3 operations with 1 or 2 roots, and up to 3 calls that nest and throw on smaller graphs, with hooks, in-place modification and dropped handles: `GradientsMatchPaths`, `ConsumersRunFirst`, `ParentCountMatchesEdges`, `NoLeftoverGradients`, `DirectlySharedSurvives`, `ExclusiveWalkIsFreed`, `EveryCallEnds` | holds |
| `shared_graph` | `SharedGraphSurvives` | **violated** |
| `batcher` | 3 requests, batches of 2, mixed inputs, two starts, stops at any time: `AnswersAreOwn`, `NobodyStranded`, `EveryCallReturns`, `BatcherContract` | holds |
| `server` | 2 predict calls, 2 loads, 1 unload of one name, start and stop: `OfferedModelsServe`, `ReplacementIsSeamless`, `NoBatchThreadIsLost`, `BatchersAreUsedAsAgreed`, `EveryCallReturns` | holds |
| `loader` | 2 workers, 2 epochs, an exception, abandoned epochs, persistent workers: `DeliveredInOrder`, `EndMeansComplete`, `NoEpochIsMissed`, `EveryCallReturns` | holds |
| `loader_persistent_stop` | persistent workers: `PersistentStopReturns` | **violated** |
| `elastic` | teams of 2 and 3, one crash, one restart: `MembershipIsConsistent`, `NoOrphanMembers`, `JoinsWithinBudget`, `RoundNeverGoesBack`, `EveryRunEnds` | holds |
| `rpc` | 2 calls, 2 peers, up to 3 connections on numbers that are used again, drops, late answers, shutdown: `AnswersMatch`, `MapsHoldOpenSockets`, `NoWorkAfterShutdown`, `EveryCallReturns` | holds |
| `rpc_lock_order` | `NoLockCycle` | **violated** |
| `ddp` | 2 ranks, 3 parameters in 1 to 3 buckets, up to 3 backward passes, with and without a compressor: `CollectivesMatch`, `RanksAgree`, `AverageElsewhere` (without a compressor), `EveryRankFinishes` | holds |
| `ddp_average` | `GradIsAverage` | **violated** |

Bounds.  Three Functions are the least with a diamond, a cycle longer than one
and a shared Function with something below it; two inputs give duplicate edges.
Two calls show what one leaves for the next; nesting two deep shows what an
inner call does to an outer one.  Requests outnumber the batch size, so that a
batch is full and a rest is left when `stop()` comes.  Three batches exceed the
queue's limit of two, so that backpressure happens; two epochs show left-overs;
with persistent workers there is one batch per epoch, which keeps the many
interleavings of `reset()` small.  Two loads make one replacement and an unload
may fall before, between and after them.  Two workers with room for one and for
two, and three that compete for two places, make full, overfull and underfull
rounds; one crash may hit the coordinator at any command; `MaxRound` is never
reached by as many restarts as the configurations allow.  Two connections are
the least with one superseded by another or a race of two dials; with a third the
number of the first is given out again while its receive thread still runs
(`Reconnects`).  Two ranks are the least that can disagree; buckets of one, two
and all three parameters make the filling parameter the only, the last and a
middle one; with a compressor, two parameters in one bucket are kept or dropped
independently on each rank over two synchronisations.  Ranks that deliver in
different orders do so inside one bucket and on streams only (`Reordered`).  The
runs have between 70 thousand (`ddp`) and 770 thousand (`loader`) states; each
takes at most a few minutes.  Deadlock is not checked where the program may simply stop
calling (engine, loader, server, elastic, RPC) or has ended (sort).

Every passing property is broken by a mutated definition, named `Mut…` and
standing just before the definition it replaces: a dropped check, a missing
wake-up, an off-by-one, a forgotten reset.  A type invariant is stated in every
module; it is a run's property where it says something of the code (no null
Function on the stack of the sort, no batch above its limit).

Fairness.  The sort and an engine call are one thread's loops: weak fairness of
their steps says the thread keeps running; whether the program calls again is
left open.  The batch thread and `stop()` are threads as well, and `wait_for`
really ends at its deadline; nobody has to submit, start or stop.  Each loader
worker and a running call of the consumer are threads; the program need not
begin, go on or end, and `dataset_->get()` is taken to return or throw.  In the
server the handlers that have begun, the serve thread and a running `stop()` go on,
and the batch threads answer (the batcher's own liveness).  An elastic worker's
`join()` goes on because its polls have deadlines; `train_fn` is taken to return
or throw; the monitor need not say anything and nobody has to crash.  The RPC
agent's threads go on, timeouts strike, and a write to a socket returns; the
peers need do nothing, except that one whose connection was closed before its
HELLO was read drops it at its own timeout (it runs the same `accept_loop()`,
`rpc_agent.cpp` 992-1009).  Every rank of DDP goes on with its program; a
collective waits for all of them.

### What the violated runs show

* `shared_graph`: teardown spares a Function with a parent outside the walk,
  but not what is below it.  With `y = f(g(x))`, `a = h(y)`, `b = h(y)`,
  `a.backward()` keeps `f` and takes `g`'s edges away; `b`'s graph is cut.
* `loader_persistent_stop`: `stop_workers()` does not notify `epoch_start_cv_`;
  the destructor waits for a parked worker for ever.
* `rpc_lock_order`: a peer connects again while its old connection is being
  written to.  `accept_loop()` waits for the write mutex with
  `connections_mutex_` held (1050), the writer waits for `connections_mutex_`
  (841-846): the deadlock that `shutdown()` takes care to avoid (587-591).
* `ddp_average`: on the blocking path the hook that fills a bucket returns the
  reduced gradient, which has already been stored; the engine adds the two, so
  that this parameter ends with twice the average.

### Remarks that do not hold, without a run

Met while modelling; the runs leave these cases out, or the properties do not
speak of them.

* Engine: teardown clears `grad_fn` on intermediate Variables (`engine.cpp` 395),
  which `is_leaf()` (`variable.cpp` 105) then takes for leaves: a later backward
  stores a gradient there.
* Batcher: equal row counts do not show that an output is row-wise
  (`server.cpp` 296-302).  The loop does not wait "until batch is full or
  deadline expires" (`server.hpp` 133): its predicate is a non-empty queue.
* Loader: with persistent workers `reset()` does not wait for the old epoch, and
  a worker late with it is counted in the new one, which may end early
  (`dataloader.cpp` 480); after an exception such a worker is gone for good
  (309), and a fetch may wait for ever.  Going on with an iterator that has
  thrown can spin (432).  Only `batch_queue_` is bounded; `reorder_buffer_` is
  not (400).
* Server: `wait()` or `wait_for()` and `stop()` may both join the serve thread
  (`server.cpp` 566, 573, 592); after a failed bind `wait_for()` is never true.
* Rendezvous: a slot claimed before the freeze may be told that the round is
  closed although it is below `world_size` (`rendezvous.cpp` 151-155): that world
  is a member short.  A crash between guard and set leaves the round where it
  is, and later joins find it closed (91-96).
* Trainer: `run()`'s own rejoin keeps the monitor of the old world
  (`elastic_trainer.cpp` 193-195); the first `check_and_recover()` only creates
  the monitor.
* RPC: `shutdown()` joins the receive threads with `threads_mutex_` held
  (`rpc_agent.cpp` 655-658), which one that has to dial for its answer needs
  (936). The rule that whoever erases the write mutex owns the close, so that a
  "possibly-reused fd" is never closed (1092-1095), does not hold across reuse
  of its number: a connection is superseded and closed, the next one gets the
  number and registers it, and the receive thread of the old one, which looks
  the mutex up by number, erases and closes the new connection, which a map goes
  on to hold when it is another peer's (1108-1122). TLC finds
  `MapsHoldOpenSockets` violated when it also speaks of the numbers in
  `desc.aliased`. A descriptor may be closed twice, the second time as somebody
  else's (1092-1095, 926-932). A detached thread counts itself out under
  `async_mutex_` (543) and notifies after it (545), so that `shutdown()` may
  return in between and the thread then uses the `async_cv_` of an agent that
  may be gone; and `send_async()` does not look at `running_`, so that a call
  made after `shutdown()` runs a thread that only `send()` refuses. TLC reaches
  both, which is why `NoWorkAfterShutdown` allows a thread to be at its
  notification or before that refusal. A frame may overtake the HELLO of a fresh
  connection and be taken for it (908-926, 1005-1010). A peer that does not read
  blocks the writer, and `shutdown()` with it (610-618).
* DDP: buckets are reset by `forward()` under auto-sync only, so that `no_sync()`
  after such a step and a second step in manual mode synchronise nothing.  With
  a compressor and auto-sync the filling parameter's gradient is not reduced.
  With a compressor the result is the average of what the ranks kept, not of their
  gradients; TLC finds `AverageElsewhere` violated when it is not restricted.
  Ranks whose engines fill the buckets in different orders reduce them in different
  orders (269): no scenario has this, for the collectives then do not match.
  A parameter used twice in one pass counts twice.  Accumulation over passes
  without `zero_grad()` loses the earlier passes.  Ranks that use different
  parameters issue different collectives.  On the blocking path, ranks that
  deliver in different orders inside a bucket double different parameters.

## 5. Proofs

Checked by TLAPS for all values of the constants that satisfy the `ASSUME`s of
the modules: finite sets of Functions, workers and requests; `Null` and `None`
that are nothing else; bounds that are numbers; well-formed scenarios.  Each
proof rests on an inductive invariant (`IInv`, where it has no other name),
checked by TLC on the instance of the component's run before it was proved.  The
lemmas go action by action; the invariant's parts are named in the module.

Sums and concatenations are folds of the community modules, which are recursive
functions over the subsets of a finite set.  The library's induction theorems
cannot be used here, for their parameter is an operator.  The proofs go by the
least-number principle instead (`LeastNat`): the set of sizes at which a claim
fails has no least member.  From it come the few facts about folds that are
needed: that there is one (`FoldExists`), what it computes one member at a
time, that it is typed, and that a sum splits over disjoint sets.

**TopoSortProofs.**  The inductive invariant `IInv` says, besides types: the
stack is a path, each frame's node a child of the one below it at the index just
passed; `on_stack` is the set of nodes on the stack; `visited` is what is on the
stack or sorted; everything passed over in a frame is visited; the part sorted
is closed under children and a post-order; and everything visited is reachable.
None of the stated properties is inductive without it: that a child is sorted
when its parent is emitted follows from the frame's indices having been passed,
and that a passed child is sorted rather than still open follows from the stack
being a path.  From it: `TypeCorrect`, `PostOrder`, `ExactlyReachable` (when the
stack is empty, the sorted set is closed and contains the roots) and
`CycleTruth` (the stack from the repeated node upward is a set in which each
member has a child).  `ImplementsContract`: the sort implements `SortContract`,
the specification `BackwardEngine` builds on.  Everything but the last step is
a stutter; at the return, `sorted` is a bijection from its positions to the
reachable Functions, hence one of the topological orders.

**BackwardEngineProofs.**  `parent_count_` is exactly the number of edges into a
Function (`CountsAreExact`); the lemmas on `Edges` say that edges add up over
disjoint sets of Functions, so an operation adds its own and a teardown
subtracts what it removes.  Hence the classification at the start of a call is
exact: unshared means no parent outside the walk.  `IInv` says that it stays
exact until the call ends, which is not obvious, for the counts are not looked
at again: edges are only added while no call runs, and a nested call that tears
its graph down removes no edge into an outer walk, because walks are disjoint
and closed under `next_functions()`.  `SharedSurvive` and `WalkIsFreed` (with:
what the loop has passed and may release is released) follow, and
`GradientIsComplete` from the order being children-first in a graph that only
loses edges.  `NothingLeftOver` needs that what the outermost call has set aside
is empty.

The second half is about values.  `GradientsAreExact`: between calls every
gradient is the sum over all paths from the roots (`GradientsMatchPaths`).  The
invariant is one of conservation: `Owed` is what the calls in progress hold in
their accumulators, each entry weighted by the derivative of its Function, and

    grad[t] + Owed = expected[t]

for every leaf and every Variable that retains its gradient (`Conserved`).  A
call that begins adds its roots' derivatives to both sides; applying a Function
takes its entry out and puts the products with its inputs' derivatives in, which
by the recursion of the derivative is the same amount; storing into a leaf moves
one part of the sum to the other.  It holds because the derivative is taken in
the graph as it was built (`BuiltNext`), while a walk sees that graph unless it
was cut before (`WalksIntact`), in which case `tainted` is set.  When no call is
in progress nothing is owed.

**DynamicBatcherProofs.**  `IInv`: types; who waits is in the queue or the batch
in hand, who is there waits, and nobody is there twice; the batch is non-empty
exactly while it is executed; when the loop has exited or there is none, the
queue is empty and `running_` is false; while `running_` is true no `stop()` is
under way; and the drain only starts once the loop has been joined.
`NoneStranded` follows from who-waits-is-kept and the two conditions on the
exited loop.  `ImplementsContract` maps the gate to `running`, `loop` and
`stopper` and each request's promise to its answer; every step is a contract
step or a stutter: the submitting steps are `Submit`, a step of `execute_batch`
is `Answer` of a set of requests, `start()` is `Open`, the store in `stop()` is
`Close`.  The drain at the end of `stop()` is `Shut`: the invariant shows that
the queue is already empty there, so the code's drain is purely defensive and
answers nobody.  `OwnAnswers`: an answered request has exactly its own rows
(`AnswersAreOwn`).  The rows of a batch are the requests' rows one after the
other; the split starts each request at the sum of the sizes before it, and the
lemmas say that the rows from there are the request's.  Assumed there and nowhere
else: `FixedRows = 0`, a model that works row by row.

**DataLoaderProofs.**  While an epoch is iterated, each index the workers have
claimed is in one place: with a worker, in the queue, in the reorder buffer, or
delivered.  None is there twice, all were loaded under the current permutation,
and none is lost unless a worker failed.  `active_workers_` counts the workers
that have not retired, so the end is signalled only when no worker has a batch
any more.  `Deterministic` (`DeliveredInOrder`) and `NothingMissing`
(`EndMeansComplete`), both for loaders without persistent workers, follow by comparing the next index to deliver with what has
been claimed.  For persistent workers the invariant only keeps what
`EpochStarts` (`NoEpochIsMissed`) needs, a worker's generation, which is all the
stated properties say of them.  Assumed: finitely many workers, well-formed
scenarios.

**InferenceServerProofs.**  The invariant follows the life of an entry: unknown
to the map until its load publishes it, serving as long as the map offers it,
and destroyed by one thread at most, the one that dropped the last reference.
Who is between locking and unlocking is the holder of `mutex_`.  From it
`TypeCorrect`, `Offers`, `Seamless` and `NoneLost`; and `UsedAsAgreed`, the
refinement: seen through any one entry, every step of the server is a step of
that entry's `BatcherContract` or a stutter.  Together with
`DynamicBatcherProofs!ImplementsContract` this is why the server may be checked
over the contract instead of the batcher.

**ElasticTrainerProofs.**  The rendezvous is a protocol of single commands
against a store.  `IInv`: the slots drawn in a round are distinct and below the
round's counter; the holder of slot 0 closes a round once; a worker that has
joined is settled under its round's world size; one worker per round is past the
guard, and between its comparison and its publication `current_round` is its
own round; every member key has an owner.  From it `Membership`, `NoOrphans` and
`RoundIsMonotonic`; `Budget` from the count of restarts; and `TypeCorrect`.

**RpcAgentProofs.**  Request ids are unique, so a late answer finds its own
entry or none (`OwnAnswer`).  `NoClosedSocket` (`MapsHoldOpenSockets`) is about
numbers that are used again.  The invariant's part `NumbersAreKept` says of every
number that was last given out with nobody having it in hand: only the connection
that holds it has threads that use it; until it is published it is open, in no map
and in nobody's list to close; and while a map has it, it is open, registered with
its own write mutex, under its own peer, and nobody is about to close it.  Being
in nobody's hand when it is given out is what makes this true again at the start
of each life of a number.  `inflight`
counts the detached threads that are not yet past their decrement, and
`running_` is false from the start of `shutdown()`; so when `shutdown()`, which waits
for zero and joins the others, has returned, a detached thread is before the
refusal in `send()` or past its work (`ShutdownWaits`, `QuietAfterShutdown`).
Assumed: callers and connections are different threads, and `None` is neither a
connection nor an answer.

**DistributedDataParallelProofs.**  `SameCollectives`: ranks whose engines deliver
the gradients of each pass in one order (`UsesAgree`) make the same collectives
with the same buffers in the same order (`CollectivesMatch`), for every program,
backend, bucket layout, number of ranks and interleaving.  No invariant on
two ranks' states says this, for they are seldom at the same place.  What a rank
does next does not depend on the values of its gradients, only on which exist:
`Erase` forgets the values, and one lemma per action shows that the step on what is
left, together with the parameters of the calls made (`View`), is a function
`Follow` that is the same for all ranks.  The invariant `InStep` then says that there
is one chain of views, each `Follow` of the one before it, on which every rank
stands somewhere; a step moves a rank along the chain or makes it longer.
(TLC cannot evaluate `InStep`, which quantifies over all chains; it checked the
types and that every step of a rank is `Follow` on the instance of the run.)
Calls are only added on the way, so what a rank has called is a prefix of what
one further on has.  `UsesAgree` is a premise because without it the statement is
false.  `RanksAreTyped`, needed for it and of interest without: what a rank waits
for has been called, with a place for each parameter that will be unpacked; that
every parameter with a hook has a bucket is a property of `build_buckets()`.

**Only model-checked.**  Everything that needs fairness (`SortTerminates`,
`EveryCallEnds`, every `EveryCallReturns`, `EveryRunEnds`, `EveryRankFinishes`),
which is out of the prover's reach.  `CollectivesMatch` where ranks deliver in different orders inside a
bucket.  `RanksAgree` and `AverageElsewhere`: they hold for the disciplined
programs of the run and not for every program (a hook that comes after its bucket
was reduced adds a gradient of this rank alone), so there is nothing to prove for
every scenario.  Neither checked nor proved: `AnswersAreOwn` for a model that returns
a fixed number of rows (it fails when that number is the batch's by coincidence).

## 6. Not modelled

Kernels, tensor values, dtypes and devices; the JIT and export formats; neural
network modules and the bindings: by far most of the repository's lines.  They are
numerical or sequential, and a model of them would only restate them, so the
modules here cover a small share of the lines and most of what runs
concurrently or fails half-way.  Also left out: the second-order (`create_graph`)
accumulators; threads that share leaves; the components of the plan's stage 8;
and what section 3 names as left out.  `PROJECT.json` lists each part with its
reason.
