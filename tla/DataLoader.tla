----------------------------- MODULE DataLoader -----------------------------
(***************************************************************************)
(* data::DataLoader with num_workers > 0: the worker threads, and the      *)
(* program's thread that iterates epochs and at last destroys the loader.  *)
(*                                                                         *)
(* A batch is its index together with the permutation of indices_ it was   *)
(* loaded under, named by how often indices_ has been shuffled.  Sections  *)
(* under queue_mutex_ are single steps: both notifications of stop() and   *)
(* all pushes take the mutex, so none falls between a waiter's test of its *)
(* predicate and its blocking.  Spurious wakeups are left out; a thread    *)
(* they alone could save counts as stuck.                                  *)
(***************************************************************************)
EXTENDS Integers, Sequences, FiniteSets

CONSTANTS Worker,          \* config_.num_workers threads
          PrefetchFactor,  \* config_.prefetch_factor
          Scenarios        \* the loaders and programs explored

(* config_.persistent_workers and num_batches_; the calls of begin() the   *)
(* program makes, and the exceptions dataset_->get() or collate_fn throws. *)
Scenario == [persistent : BOOLEAN, batches : Nat \ {0}, epochs : Nat, faults : Nat]

ASSUME WorkerAssumption == IsFiniteSet(Worker) /\ Worker # {}
ASSUME PrefetchAssumption == PrefetchFactor \in Nat \ {0}
ASSUME ScenariosAssumption == Scenarios \subseteq Scenario

NumWorkers == Cardinality(Worker)
MaxQueueSize == NumWorkers * PrefetchFactor

VARIABLES
    scenario,        \* which loader and program this is; never written
    work,            \* where every worker thread is
    claimed,         \* batch_idx of every worker
    loaded,          \* the permutation its batch was loaded under
    seen,            \* last_seen_generation of every worker
    order,           \* how often indices_ has been shuffled
    batch_queue, reorder_buffer, next_output_idx, next_batch_idx,
    stop_workers, epoch_done, active_workers, worker_exception, epoch_generation,
    main,            \* where the program's thread is
    delivered,       \* the batches this epoch's iterator has yielded
    faults           \* exceptions thrown so far

workers == <<work, claimed, loaded, seen>>
buffers == <<batch_queue, reorder_buffer, next_output_idx>>
vars == <<workers, order, buffers, next_batch_idx, stop_workers, epoch_done, active_workers,
          worker_exception, epoch_generation, main, delivered, faults>>

Persistent == scenario.persistent
NumBatches == scenario.batches

(* Only a consumer that spins in get_next_batch keeps the mutex. *)
MutexFree == main # "spin"

(* Threads blocked on a condition variable that a notify_all wakes. *)
WakeAll(w, from, to) == IF w = from THEN to ELSE w
WakeConsumer(m) == WakeAll(m, "waiting", "get")

Init ==
    /\ scenario \in Scenarios
    /\ work = [w \in Worker |-> "new"]
    /\ claimed = [w \in Worker |-> 0]
    /\ loaded = [w \in Worker |-> 0]
    /\ seen = [w \in Worker |-> 0]
    /\ order = 0
    /\ batch_queue = <<>>
    /\ reorder_buffer = {}
    /\ next_output_idx = 0
    /\ next_batch_idx = 0
    /\ stop_workers = FALSE
    /\ epoch_done = FALSE
    /\ active_workers = NumWorkers
    /\ worker_exception = FALSE
    /\ epoch_generation = 0
    /\ main = "ready"
    /\ delivered = <<>>
    /\ faults = 0
-----------------------------------------------------------------------------
(* worker_thread(). *)
Goto(w, from, to) == work[w] = from /\ work' = [work EXCEPT ![w] = to]

ReadGeneration(w) ==
    /\ MutexFree
    /\ Goto(w, "new", "loop")
    /\ seen' = [seen EXCEPT ![w] = epoch_generation]
    /\ UNCHANGED <<claimed, loaded, order, buffers, next_batch_idx, stop_workers, epoch_done,
                   active_workers, worker_exception, epoch_generation, main, delivered, faults>>

(* The loop's test of stop_workers_, then next_batch_idx_.fetch_add. *)
Claim(w) ==
    /\ work[w] = "loop"
    /\ \/ /\ stop_workers
          /\ work' = [work EXCEPT ![w] = "after"]
          /\ UNCHANGED <<claimed, next_batch_idx>>
       \/ /\ ~stop_workers /\ next_batch_idx < NumBatches
          /\ work' = [work EXCEPT ![w] = "load"]
          /\ claimed' = [claimed EXCEPT ![w] = next_batch_idx]
          /\ next_batch_idx' = next_batch_idx + 1
       \/ /\ ~stop_workers /\ next_batch_idx >= NumBatches
          /\ work' = [work EXCEPT ![w] = "retire"]
          /\ next_batch_idx' = next_batch_idx + 1
          /\ UNCHANGED claimed
    /\ UNCHANGED <<loaded, seen, order, buffers, stop_workers, epoch_done, active_workers,
                   worker_exception, epoch_generation, main, delivered, faults>>

(* Mutant: the first worker to finish signals the end of the epoch. *)
MutLastWorker == active_workers >= 1

(* remaining == 0 after active_workers_.fetch_sub(1). *)
LastWorker == active_workers = 1

Retire(w) ==
    /\ Goto(w, "retire", IF LastWorker THEN "signal" ELSE "after")
    /\ active_workers' = active_workers - 1
    /\ UNCHANGED <<claimed, loaded, seen, order, buffers, next_batch_idx, stop_workers,
                   epoch_done, worker_exception, epoch_generation, main, delivered, faults>>

Signal(w) ==
    /\ MutexFree
    /\ Goto(w, "signal", "after")
    /\ epoch_done' = TRUE
    /\ main' = WakeConsumer(main)
    /\ UNCHANGED <<claimed, loaded, seen, order, buffers, next_batch_idx, stop_workers,
                   active_workers, worker_exception, epoch_generation, delivered, faults>>

(* Reads indices_ and the dataset, and collates. *)
Load(w) ==
    /\ Goto(w, "load", "push")
    /\ loaded' = [loaded EXCEPT ![w] = order]
    /\ UNCHANGED <<claimed, seen, order, buffers, next_batch_idx, stop_workers, epoch_done,
                   active_workers, worker_exception, epoch_generation, main, delivered, faults>>

LoadThrows(w) ==
    /\ faults < scenario.faults
    /\ Goto(w, "load", "catch")
    /\ faults' = faults + 1
    /\ UNCHANGED <<claimed, loaded, seen, order, buffers, next_batch_idx, stop_workers,
                   epoch_done, active_workers, worker_exception, epoch_generation, main, delivered>>

HasRoom == Len(batch_queue) < MaxQueueSize

(* Backpressure: wait on worker_cv_, leave on stop, or push and notify. *)
Push(w) ==
    /\ MutexFree
    /\ work[w] = "push"
    /\ \/ /\ stop_workers
          /\ work' = [work EXCEPT ![w] = "after"]
          /\ UNCHANGED <<batch_queue, main>>
       \/ /\ ~stop_workers /\ HasRoom
          /\ batch_queue' = Append(batch_queue, <<claimed[w], loaded[w]>>)
          /\ work' = [work EXCEPT ![w] = "loop"]
          /\ main' = WakeConsumer(main)
       \/ /\ ~stop_workers /\ ~HasRoom
          /\ work' = [work EXCEPT ![w] = "blocked"]
          /\ UNCHANGED <<batch_queue, main>>
    /\ UNCHANGED <<claimed, loaded, seen, order, reorder_buffer, next_output_idx, next_batch_idx,
                   stop_workers, epoch_done, active_workers, worker_exception,
                   epoch_generation, delivered, faults>>

(* The inner loop is left: exit, or park on epoch_start_cv_ until reset()  *)
(* starts an epoch this worker has not seen.                               *)
After(w) ==
    /\ MutexFree
    /\ work[w] = "after"
    /\ \/ /\ stop_workers \/ ~Persistent
          /\ work' = [work EXCEPT ![w] = "exited"]
          /\ UNCHANGED seen
       \/ /\ ~stop_workers /\ Persistent
          /\ work' = [work EXCEPT ![w] = IF epoch_generation = seen[w] THEN "parked" ELSE "loop"]
          /\ seen' = [seen EXCEPT ![w] = epoch_generation]
    /\ UNCHANGED <<claimed, loaded, order, buffers, next_batch_idx, stop_workers, epoch_done,
                   active_workers, worker_exception, epoch_generation, main, delivered, faults>>

(* The first exception is kept for the consumer; the thread ends. *)
Catch(w) ==
    /\ MutexFree
    /\ Goto(w, "catch", "exited")
    /\ worker_exception' = TRUE
    /\ epoch_done' = TRUE
    /\ main' = WakeConsumer(main)
    /\ UNCHANGED <<claimed, loaded, seen, order, buffers, next_batch_idx, stop_workers,
                   active_workers, epoch_generation, delivered, faults>>

WorkerStep(w) ==
    \/ ReadGeneration(w) \/ Claim(w) \/ Retire(w) \/ Signal(w) \/ Load(w) \/ LoadThrows(w)
    \/ Push(w) \/ After(w) \/ Catch(w)
-----------------------------------------------------------------------------
(* The program's thread.  begin() is reset() and the first fetch; the      *)
(* program may begin again at any point between two fetches.               *)
BetweenCalls == main \in {"ready", "holding", "end", "error"}

(* indices_ are shuffled first, while the workers still run. *)
Begin ==
    /\ BetweenCalls
    /\ order < scenario.epochs
    /\ order' = order + 1
    /\ delivered' = <<>>
    /\ \/ /\ ~Persistent
          /\ stop_workers' = TRUE
          /\ main' = "reset_notify"
          /\ UNCHANGED worker_exception
       \/ /\ Persistent
          /\ worker_exception' = FALSE
          /\ main' = "reset_clear"
          /\ UNCHANGED stop_workers
    /\ UNCHANGED <<workers, buffers, next_batch_idx, epoch_done, active_workers,
                   epoch_generation, faults>>

(* ~DataLoader() *)
Destroy ==
    /\ BetweenCalls
    /\ stop_workers' = TRUE
    /\ main' = "stop_notify"
    /\ UNCHANGED <<workers, order, buffers, next_batch_idx, epoch_done, active_workers,
                   worker_exception, epoch_generation, delivered, faults>>

(* Mutant: worker_cv_ is forgotten. *)
MutWakeWorker(w) == work[w]

(* notify_all on worker_cv_. *)
WakeWorker(w) == WakeAll(work[w], "blocked", "push")

(* stop_workers(): notify queue_cv_ and worker_cv_, then join everyone. *)
StopNotify ==
    /\ main \in {"reset_notify", "stop_notify"}
    /\ work' = [w \in Worker |-> WakeWorker(w)]
    /\ main' = IF main = "reset_notify" THEN "reset_join" ELSE "stop_join"
    /\ UNCHANGED <<claimed, loaded, seen, order, buffers, next_batch_idx, stop_workers,
                   epoch_done, active_workers, worker_exception, epoch_generation, delivered,
                   faults>>

StopJoin ==
    /\ main = "stop_join"
    /\ \A w \in Worker : work[w] = "exited"
    /\ main' = "destroyed"
    /\ UNCHANGED <<workers, order, buffers, next_batch_idx, stop_workers, epoch_done,
                   active_workers, worker_exception, epoch_generation, delivered, faults>>

ClearBuffers == batch_queue' = <<>> /\ reorder_buffer' = {} /\ next_output_idx' = 0

(* Mutant: what the old epoch left in the queue is kept. *)
MutRestart ==
    /\ main = "reset_join"
    /\ \A w \in Worker : work[w] = "exited"
    /\ main' = "get"
    /\ worker_exception' = FALSE
    /\ next_output_idx' = 0
    /\ stop_workers' = FALSE /\ epoch_done' = FALSE
    /\ next_batch_idx' = 0 /\ active_workers' = NumWorkers
    /\ work' = [w \in Worker |-> "new"]
    /\ UNCHANGED <<batch_queue, reorder_buffer, claimed, loaded, seen, order, epoch_generation,
                   delivered, faults>>

(* reset() without persistent workers, once they are joined: start_workers(). *)
Restart ==
    /\ main = "reset_join"
    /\ \A w \in Worker : work[w] = "exited"
    /\ main' = "get"
    /\ worker_exception' = FALSE
    /\ ClearBuffers
    /\ stop_workers' = FALSE /\ epoch_done' = FALSE
    /\ next_batch_idx' = 0 /\ active_workers' = NumWorkers
    /\ work' = [w \in Worker |-> "new"]
    /\ UNCHANGED <<claimed, loaded, seen, order, epoch_generation, delivered, faults>>

(* Mutant: a one-shot flag is consumed by the first worker it wakes. *)
MutRelease(w) == IF work[w] = "parked" /\ \A v \in Worker \ {w} : work[v] # "parked"
                 THEN "after" ELSE work[w]

(* epoch_start_cv_.notify_all() *)
Release(w) == WakeAll(work[w], "parked", "after")

(* reset() with persistent workers: one store after the other, the workers *)
(* running.                                                                *)
ResetPersistent ==
    /\ \/ /\ main = "reset_clear" /\ main' = "reset_done"
          /\ ClearBuffers
          /\ UNCHANGED <<work, epoch_done, next_batch_idx, active_workers, epoch_generation>>
       \/ /\ main = "reset_done" /\ main' = "reset_idx"
          /\ epoch_done' = FALSE
          /\ UNCHANGED <<work, buffers, next_batch_idx, active_workers, epoch_generation>>
       \/ /\ main = "reset_idx" /\ main' = "reset_active"
          /\ next_batch_idx' = 0
          /\ UNCHANGED <<work, buffers, epoch_done, active_workers, epoch_generation>>
       \/ /\ main = "reset_active" /\ main' = "reset_bump"
          /\ active_workers' = NumWorkers
          /\ UNCHANGED <<work, buffers, epoch_done, next_batch_idx, epoch_generation>>
       \/ /\ main = "reset_bump" /\ main' = "get"
          /\ epoch_generation' = epoch_generation + 1
          /\ work' = [w \in Worker |-> Release(w)]
          /\ UNCHANGED <<buffers, epoch_done, next_batch_idx, active_workers>>
    /\ UNCHANGED <<claimed, loaded, seen, order, stop_workers, worker_exception, delivered, faults>>

(* Iterator::operator++: fetch unless this was the last batch. *)
Advance ==
    /\ main = "holding"
    /\ main' = IF Len(delivered) < NumBatches THEN "get" ELSE "end"
    /\ UNCHANGED <<workers, order, buffers, next_batch_idx, stop_workers, epoch_done,
                   active_workers, worker_exception, epoch_generation, delivered, faults>>
-----------------------------------------------------------------------------
(* get_next_batch_multi_threaded(), one pass of its loop.  emplace() keeps *)
(* a batch already buffered under the same index.  fetch_next() ends the   *)
(* epoch at a batch whose inputs have an empty shape (528), which a        *)
(* collate_fn of the program's own may return; such a batch is left out.   *)
Buffered(i) == \E b \in reorder_buffer : b[1] = i
FirstOf(q) == {q[p] : p \in {p \in DOMAIN q : \A o \in 1 .. p - 1 : q[o][1] # q[p][1]}}
Drained == reorder_buffer \cup {b \in FirstOf(batch_queue) : ~Buffered(b[1])}

(* reorder_buffer_.find(next_output_idx_) *)
IsNext(b) == b[1] = next_output_idx

Get ==
    /\ main = "get"
    /\ batch_queue' = <<>>
    /\ work' = [w \in Worker |-> IF batch_queue # <<>> THEN WakeWorker(w) ELSE work[w]]
    /\ \/ /\ worker_exception
          /\ worker_exception' = FALSE
          /\ main' = "error"
          /\ reorder_buffer' = Drained
          /\ UNCHANGED <<next_output_idx, delivered>>
       \/ /\ ~worker_exception
          /\ \E b \in Drained :
                /\ IsNext(b)
                /\ reorder_buffer' = Drained \ {b}
                /\ delivered' = Append(delivered, b)
          /\ next_output_idx' = next_output_idx + 1
          /\ main' = "holding"
          /\ UNCHANGED worker_exception
       \/ /\ ~worker_exception
          /\ \A b \in Drained : ~IsNext(b)
          /\ main' = IF ~epoch_done THEN "waiting" ELSE IF Drained = {} THEN "end" ELSE "spin"
          /\ reorder_buffer' = Drained
          /\ UNCHANGED <<next_output_idx, delivered, worker_exception>>
    /\ UNCHANGED <<claimed, loaded, seen, order, next_batch_idx, stop_workers, epoch_done,
                   active_workers, epoch_generation, faults>>

(* Nothing changes in the loop of a consumer that spins. *)
MainStep == StopNotify \/ StopJoin \/ Restart \/ ResetPersistent \/ Get

Next == Begin \/ Destroy \/ Advance \/ MainStep \/ \E w \in Worker : WorkerStep(w)

Spec == Init /\ [][Next /\ UNCHANGED scenario]_<<vars, scenario>>

(* Threads that can run do; the program need not begin, go on or end. *)
FairSpec == /\ Spec
            /\ WF_vars(MainStep)
            /\ \A w \in Worker : WF_vars(WorkerStep(w))
-----------------------------------------------------------------------------
Batches == (0 .. NumBatches - 1) \X (0 .. scenario.epochs)

(* No counter leaves its range: neither the queue its limit nor, with      *)
(* workers that are joined between epochs, active_workers_ (a size_t) zero *)
(* (dataloader.cpp 229-232, 272-276).                                               *)
TypeOK ==
    /\ work \in [Worker -> {"new", "loop", "load", "push", "blocked", "retire", "signal",
                            "after", "parked", "catch", "exited"}]
    /\ claimed \in [Worker -> 0 .. NumBatches - 1]
    /\ loaded \in [Worker -> 0 .. scenario.epochs]
    /\ seen \in [Worker -> 0 .. scenario.epochs]
    /\ order \in 0 .. scenario.epochs
    /\ batch_queue \in Seq(Batches) /\ Len(batch_queue) <= MaxQueueSize
    /\ reorder_buffer \subseteq Batches
    /\ next_output_idx \in 0 .. NumBatches
    /\ ~Persistent => /\ next_batch_idx \in 0 .. NumBatches + NumWorkers
                       /\ active_workers \in 0 .. NumWorkers
    /\ {stop_workers, epoch_done, worker_exception} \subseteq BOOLEAN
    /\ epoch_generation \in 0 .. scenario.epochs
    /\ main \in {"ready", "holding", "end", "error", "get", "waiting", "spin", "destroyed",
                 "reset_notify", "reset_join", "stop_notify", "stop_join", "reset_clear",
                 "reset_done", "reset_idx", "reset_active", "reset_bump"}
    /\ delivered \in Seq(Batches)
    /\ faults \in 0 .. scenario.faults

(* "iteration is deterministic regardless of which worker finished first"  *)
(* (dataloader.hpp 192-194): an epoch yields batches 0, 1, 2, ... , each   *)
(* once, all loaded under the epoch's own permutation, also when an        *)
(* earlier epoch was abandoned or failed half-way.  Said of loaders        *)
(* without persistent workers only.                                        *)
DeliveredInOrder == ~Persistent => \A i \in DOMAIN delivered : delivered[i] = <<i - 1, order>>

(* An iterator that ends without an exception has yielded every batch:     *)
(* "Nothing more will ever arrive" (dataloader.cpp 426-429).  Said of      *)
(* loaders without persistent workers, whose batches have inputs of a      *)
(* non-empty shape (see Get).                                              *)
EndMeansComplete == ~Persistent /\ main = "end" => Len(delivered) = NumBatches

(* A fetch ends with a batch, the end, or a worker's exception:            *)
(* backpressure never holds up the worker that has the next batch          *)
(* (dataloader.cpp 390-394).  stop_workers(), in reset() and in the        *)
(* destructor, joins all workers (dataloader.cpp 337-352).                 *)
EveryCallReturns ==
    /\ ~Persistent /\ main \in {"get", "waiting"} ~> BetweenCalls
    /\ ~Persistent /\ main = "stop_notify" ~> main = "destroyed"
    /\ main = "reset_notify" ~> main = "get"

(* "every waiter is released exactly once per epoch" (dataloader.cpp       *)
(* 296-298): a persistent worker that is parked has handled the current    *)
(* generation, so an epoch's start is never lost to a worker about to wait. *)
NoEpochIsMissed == \A w \in Worker : work[w] = "parked" => seen[w] = epoch_generation
-----------------------------------------------------------------------------
(* What a comment claims and the code does not keep. *)

(* "Wake up all workers" (dataloader.cpp 339): a loader with persistent    *)
(* workers can be destroyed too.                                           *)
PersistentStopReturns == main = "stop_notify" ~> main = "destroyed"
=============================================================================
