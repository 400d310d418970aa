-------------------------- MODULE DataLoaderProofs --------------------------
(***************************************************************************)
(* What DataLoader promises its iterator, for any number of workers,       *)
(* batches, epochs and exceptions.  While an epoch is iterated, every      *)
(* index the workers have claimed is in one place: with a worker, in the   *)
(* queue, in the reorder buffer or delivered; none is there twice, none    *)
(* was loaded under another permutation, and none is lost unless a worker  *)
(* failed.  active_workers_ counts the workers that have not retired, so   *)
(* the end of an epoch is signalled when nobody has a batch any more.      *)
(***************************************************************************)
EXTENDS DataLoader, FiniteSetTheorems, TLAPS

(* The values the variables take. *)
Places == {"new", "loop", "load", "push", "blocked", "retire", "signal", "after", "parked",
           "catch", "exited"}
Mains == {"ready", "holding", "end", "error", "get", "waiting", "spin", "destroyed",
          "reset_notify", "reset_join", "stop_notify", "stop_join", "reset_clear",
          "reset_done", "reset_idx", "reset_active", "reset_bump"}
Batch == Nat \X Nat

Types ==
    /\ scenario \in Scenario
    /\ work \in [Worker -> Places] /\ claimed \in [Worker -> Nat] /\ loaded \in [Worker -> Nat]
    /\ batch_queue \in Seq(Batch) /\ reorder_buffer \in SUBSET Batch /\ delivered \in Seq(Batch)
    /\ order \in Nat /\ next_output_idx \in Nat /\ next_batch_idx \in Nat
    /\ seen \in [Worker -> Nat] /\ epoch_generation \in Nat
    /\ main \in Mains

(* An epoch is iterated: its workers were started by the last Restart.     *)
(* None of them has failed.                                                *)
Iterating == ~Persistent /\ main \in {"get", "waiting", "spin", "holding", "end", "error"}
Unfailed == Iterating /\ main # "error" /\ ~worker_exception

(* reset() of a loader with persistent workers. *)
ResetPlaces == {"reset_clear", "reset_done", "reset_idx", "reset_active", "reset_bump"}

(* Every batch on its way was loaded under this epoch's permutation. *)
QueueFresh == \A p \in 1 .. Len(batch_queue) : batch_queue[p][2] = order
LoadsFresh == \A w \in Worker : work[w] \in {"push", "blocked"} => loaded[w] = order
BufferFresh == \A b \in reorder_buffer : b[2] = order /\ b[1] < NumBatches

(* No index is on its way twice. *)
Has(w) == work[w] \in {"load", "push", "blocked"}
InQueue(i) == \E p \in 1 .. Len(batch_queue) : batch_queue[p][1] = i
ClaimsDiffer ==
    /\ \A w \in Worker : Has(w) => /\ claimed[w] < next_batch_idx /\ claimed[w] < NumBatches
                                   /\ ~InQueue(claimed[w])
    /\ \A v, w \in Worker : Has(v) /\ Has(w) /\ claimed[v] = claimed[w] => v = w
QueueDiffers ==
    /\ \A p \in 1 .. Len(batch_queue) : /\ batch_queue[p][1] < next_batch_idx
                                        /\ batch_queue[p][1] < NumBatches
    /\ \A o, p \in 1 .. Len(batch_queue) : batch_queue[o][1] = batch_queue[p][1] => o = p

(* No index is lost. *)
Claimed(i) == \E w \in Worker : work[w] \in {"load", "push", "blocked", "catch"} /\ claimed[w] = i
NoneLost ==
    \A i \in 0 .. NumBatches - 1 :
        i < next_batch_idx => i < next_output_idx \/ Buffered(i) \/ InQueue(i) \/ Claimed(i)

(* active_workers_ counts the workers that have not retired. *)
Busy == {w \in Worker : work[w] \in {"new", "loop", "load", "push", "blocked", "retire", "catch"}}
Counted ==
    /\ IsFiniteSet(Busy) /\ active_workers = Cardinality(Busy)
    /\ (\E w \in Worker : work[w] = "signal") \/ epoch_done => Busy = {}
    /\ \A w \in Worker : work[w] \in {"retire", "signal", "after", "parked", "exited"} =>
                            next_batch_idx >= NumBatches

Delivery == /\ next_output_idx = Len(delivered) /\ next_output_idx <= NumBatches
            /\ ~stop_workers

IInv == /\ Types /\ NoEpochIsMissed
        /\ main \in ResetPlaces => Persistent
        /\ ~Persistent /\ main \in {"ready", "reset_notify", "reset_join"} => delivered = <<>>
        /\ DeliveredInOrder /\ EndMeansComplete
        /\ Iterating => /\ Delivery /\ QueueFresh /\ LoadsFresh /\ BufferFresh
                        /\ ClaimsDiffer /\ QueueDiffers
        /\ Unfailed => NoneLost /\ Counted

(* The frames of the invariant.  A step of one worker moves it alone. *)
Moves(w) == /\ work' \in [Worker -> Places]
            /\ \A v \in Worker : v # w => work'[v] = work[v]

SameEpoch == UNCHANGED <<scenario, order, delivered, next_output_idx, reorder_buffer, stop_workers>>

(* What a jump does to the workers, ... *)
LEMMA GotoFacts ==
    ASSUME Types, NEW w \in Worker, NEW a \in Places, work' = [work EXCEPT ![w] = a]
    PROVE  Moves(w) /\ work'[w] = a
  BY DEF Types, Moves

(* ... and a notification to the consumer. *)
LEMMA WakeFacts ==
    ASSUME Types, main' = main \/ main' = WakeConsumer(main)
    PROVE  /\ main' \in Mains /\ (main' = main \/ (main = "waiting" /\ main' = "get"))
  BY DEF Types, WakeConsumer, WakeAll, Mains

(* The parts of a batch in the queue. *)
LEMMA Elements ==
    ASSUME NEW q \in Seq(Batch), NEW p \in 1 .. Len(q)
    PROVE  q[p] \in Batch /\ q[p][1] \in Nat /\ q[p][2] \in Nat
<1>1. q[p] \in Batch
  OBVIOUS
<1>. QED  BY <1>1 DEF Batch

(* There is a batch. *)
LEMMA NumBatchesType ==
    ASSUME Types
    PROVE  NumBatches \in Nat \ {0}
  BY DEF Types, Scenario, NumBatches

(* What follows for every step of a worker. *)
LEMMA WorkerFrame ==
    ASSUME IInv, SameEpoch, main' = main \/ (main = "waiting" /\ main' = "get"),
           Types', NoEpochIsMissed',
           Iterating => QueueFresh' /\ LoadsFresh' /\ ClaimsDiffer' /\ QueueDiffers',
           Unfailed /\ ~worker_exception' => NoneLost' /\ Counted',
           worker_exception => worker_exception'
    PROVE  IInv'
<1>1. /\ Persistent' = Persistent /\ NumBatches' = NumBatches /\ (Iterating' <=> Iterating)
      /\ Unfailed' => Unfailed /\ ~worker_exception'
  BY DEF SameEpoch, Persistent, NumBatches, Iterating, Unfailed
<1>6. main' \in ResetPlaces => Persistent'
  BY <1>1 DEF IInv, ResetPlaces
<1>2. ~Persistent' /\ main' \in {"ready", "reset_notify", "reset_join"} => delivered' = <<>>
  BY <1>1 DEF IInv, SameEpoch
<1>3. DeliveredInOrder'
  BY <1>1 DEF IInv, DeliveredInOrder, SameEpoch
<1>4. EndMeansComplete'
  BY <1>1 DEF IInv, EndMeansComplete, SameEpoch
<1>5. Iterating' => Delivery' /\ BufferFresh'
  BY <1>1 DEF IInv, Delivery, BufferFresh, SameEpoch
<1>. QED  BY <1>1, <1>2, <1>3, <1>4, <1>5, <1>6 DEF IInv

(* The queue is left alone. *)
LEMMA QueueKept ==
    ASSUME IInv, Types', SameEpoch, batch_queue' = batch_queue, next_batch_idx' >= next_batch_idx,
           Iterating
    PROVE  QueueFresh' /\ QueueDiffers'
<1>1. NumBatches' = NumBatches /\ QueueFresh /\ QueueDiffers
  BY DEF IInv, SameEpoch, NumBatches
<1>2. QueueFresh'
  BY <1>1 DEF QueueFresh, SameEpoch
<1>3. \A p \in 1 .. Len(batch_queue) : batch_queue[p][1] \in Nat
  BY Elements DEF IInv, Types
<1>4. next_batch_idx \in Nat /\ next_batch_idx' \in Nat /\ NumBatches \in Nat
  BY NumBatchesType DEF IInv, Types
<1>. QED  BY <1>1, <1>2, <1>3, <1>4 DEF QueueDiffers

(* A worker that goes on with what it has, or leaves without having it. *)
LEMMA ClaimsKept ==
    ASSUME IInv, NEW w \in Worker, Moves(w), SameEpoch,
           UNCHANGED <<claimed, batch_queue, next_batch_idx>>, Has(w)' => Has(w), Iterating
    PROVE  ClaimsDiffer'
<1>1. NumBatches' = NumBatches /\ ClaimsDiffer
  BY DEF IInv, SameEpoch, NumBatches
<1>2. \A v \in Worker : Has(v)' => Has(v)
  BY DEF Has, Moves
<1>3. \A i : InQueue(i)' <=> InQueue(i)
  BY DEF InQueue
<1>. QED  BY <1>1, <1>2, <1>3 DEF ClaimsDiffer

(* What was claimed stays claimed. *)
LEMMA LostKept ==
    ASSUME IInv, NEW w \in Worker, Moves(w), SameEpoch,
           UNCHANGED <<claimed, batch_queue, next_batch_idx>>,
           work[w] \in {"load", "push", "blocked", "catch"} =>
              work'[w] \in {"load", "push", "blocked", "catch"},
           Unfailed
    PROVE  NoneLost'
<1>1. NumBatches' = NumBatches /\ NoneLost
  BY DEF IInv, SameEpoch, NumBatches
<1>2. \A i : Claimed(i) => Claimed(i)'
  BY DEF Claimed, Moves
<1>3. \A i : (InQueue(i)' <=> InQueue(i)) /\ (Buffered(i)' <=> Buffered(i))
  BY DEF InQueue, Buffered, SameEpoch
<1>. QED  BY <1>1, <1>2, <1>3 DEF NoneLost, SameEpoch

(* Nobody retires. *)
LEMMA CountKept ==
    ASSUME IInv, Types', NEW w \in Worker, Moves(w), SameEpoch,
           UNCHANGED <<epoch_done, active_workers>>, next_batch_idx' >= next_batch_idx,
           w \in Busy' <=> w \in Busy,
           work'[w] # "signal",
           work'[w] \in {"retire", "after", "parked", "exited"} =>
              \/ work[w] \in {"retire", "signal", "after", "parked", "exited"}
              \/ next_batch_idx' >= NumBatches,
           Unfailed
    PROVE  Counted'
<1>1. NumBatches' = NumBatches /\ Counted
  BY DEF IInv, SameEpoch, NumBatches
<1>2. Busy' = Busy
  <2>1. \A v \in Worker : v \in Busy' <=> v \in Busy
    BY DEF Busy, Moves
  <2>. QED  BY <2>1 DEF Busy
<1>3. next_batch_idx \in Nat /\ next_batch_idx' \in Nat /\ NumBatches \in Nat
  BY NumBatchesType DEF IInv, Types
<1>4. \A v \in Worker : work'[v] = "signal" => work[v] = "signal"
  BY DEF Moves
<1>5. \A v \in Worker : work'[v] \in {"retire", "signal", "after", "parked", "exited"} =>
                           next_batch_idx' >= NumBatches
  <2>. SUFFICES ASSUME NEW v \in Worker,
                       work'[v] \in {"retire", "signal", "after", "parked", "exited"}
                PROVE  next_batch_idx' >= NumBatches
    OBVIOUS
  <2>1. CASE v = w
    BY <1>1, <1>3, <2>1 DEF Counted
  <2>2. CASE v # w
    BY <1>1, <1>3, <2>2 DEF Counted, Moves
  <2>. QED  BY <2>1, <2>2
<1>. QED  BY <1>1, <1>2, <1>4, <1>5 DEF Counted

(* A step of a worker that touches nothing but itself. *)
LEMMA QuietStep ==
    ASSUME IInv, NEW w \in Worker, Moves(w), SameEpoch, Types', NoEpochIsMissed',
           UNCHANGED <<main, claimed, batch_queue, next_batch_idx, epoch_done,
           active_workers,
                       worker_exception>>,
           \A v \in Worker : v # w => loaded'[v] = loaded[v],
           Iterating => /\ Has(w)' => Has(w)
                        /\ work[w] \in {"load", "push", "blocked", "catch"} =>
                              work'[w] \in {"load", "push", "blocked", "catch"}
                        /\ w \in Busy' <=> w \in Busy
                        /\ work'[w] # "signal"
                        /\ work'[w] \in {"retire", "after", "parked", "exited"} =>
                              work[w] \in {"retire", "signal", "after", "parked", "exited"}
                        /\ work'[w] \in {"push", "blocked"} => loaded'[w] = order
    PROVE  IInv'
<1>1. next_batch_idx' >= next_batch_idx
  BY DEF IInv, Types
<1>2. ASSUME Iterating PROVE LoadsFresh'
  <2>1. LoadsFresh
    BY <1>2 DEF IInv
  <2>. QED  BY <1>2, <2>1 DEF LoadsFresh, Moves, SameEpoch
<1>3. Iterating => QueueFresh' /\ ClaimsDiffer' /\ QueueDiffers'
  BY <1>1, QueueKept, ClaimsKept
<1>4. Unfailed => Iterating
  BY DEF Unfailed
<1>5. ASSUME Unfailed PROVE NoneLost' /\ Counted'
  BY <1>1, <1>4, <1>5, LostKept, CountKept
<1>. QED  BY <1>2, <1>3, <1>5, WorkerFrame

(* A worker starts. *)
LEMMA ReadGenerationStep ==
    ASSUME IInv, NEW w \in Worker, ReadGeneration(w), UNCHANGED scenario
    PROVE  IInv'
<1>1. /\ Types /\ work[w] = "new" /\ work' = [work EXCEPT ![w] = "loop"] /\ SameEpoch
      /\ UNCHANGED <<main, claimed, loaded, batch_queue, next_batch_idx, epoch_done, active_workers,
                     worker_exception, epoch_generation>>
      /\ seen' = [seen EXCEPT ![w] = epoch_generation]
  BY DEF IInv, ReadGeneration, Goto, SameEpoch, buffers
<1>2. Moves(w) /\ work'[w] = "loop"
  BY <1>1, GotoFacts DEF Places
<1>3. Types'
  BY <1>1, <1>2 DEF Types, Moves, SameEpoch
<1>4. NoEpochIsMissed'
  BY <1>1, <1>2 DEF IInv, NoEpochIsMissed, Moves, Types
<1>5. (w \in Busy' <=> w \in Busy) /\ ~Has(w)'
  BY <1>1, <1>2 DEF Busy, Has
<1>. QED  BY <1>1, <1>2, <1>3, <1>4, <1>5, QuietStep

(* A batch is loaded, under the current permutation, ... *)
LEMMA LoadStep ==
    ASSUME IInv, NEW w \in Worker, Load(w), UNCHANGED scenario
    PROVE  IInv'
<1>1. /\ Types /\ work[w] = "load" /\ work' = [work EXCEPT ![w] = "push"] /\ SameEpoch
      /\ UNCHANGED <<main, claimed, seen, batch_queue, next_batch_idx, epoch_done, active_workers,
                     worker_exception, epoch_generation>>
      /\ loaded' = [loaded EXCEPT ![w] = order]
  BY DEF IInv, Load, Goto, SameEpoch, buffers
<1>2. Moves(w) /\ work'[w] = "push"
  BY <1>1, GotoFacts DEF Places
<1>3. Types' /\ loaded'[w] = order /\ \A v \in Worker : v # w => loaded'[v] = loaded[v]
  BY <1>1, <1>2 DEF Types, Moves, SameEpoch
<1>4. NoEpochIsMissed'
  BY <1>1, <1>2 DEF IInv, NoEpochIsMissed, Moves
<1>5. (w \in Busy' <=> w \in Busy) /\ (Has(w)' <=> Has(w))
  BY <1>1, <1>2 DEF Busy, Has
<1>. QED  BY <1>1, <1>2, <1>3, <1>4, <1>5, QuietStep

(* ... or its loading throws. *)
LEMMA LoadThrowsStep ==
    ASSUME IInv, NEW w \in Worker, LoadThrows(w), UNCHANGED scenario
    PROVE  IInv'
<1>1. /\ Types /\ work[w] = "load" /\ work' = [work EXCEPT ![w] = "catch"] /\ SameEpoch
      /\ UNCHANGED <<main, claimed, loaded, seen, batch_queue, next_batch_idx, epoch_done,
                     active_workers, worker_exception, epoch_generation>>
  BY DEF IInv, LoadThrows, Goto, SameEpoch, buffers
<1>2. Moves(w) /\ work'[w] = "catch"
  BY <1>1, GotoFacts DEF Places
<1>3. Types'
  BY <1>1, <1>2 DEF Types, Moves, SameEpoch
<1>4. NoEpochIsMissed'
  BY <1>1, <1>2 DEF IInv, NoEpochIsMissed, Moves
<1>5. (w \in Busy' <=> w \in Busy) /\ ~Has(w)'
  BY <1>1, <1>2 DEF Busy, Has
<1>. QED  BY <1>1, <1>2, <1>3, <1>4, <1>5, QuietStep

(* A worker whose epoch is over parks or ends. *)
LEMMA AfterStep ==
    ASSUME IInv, NEW w \in Worker, After(w), UNCHANGED scenario
    PROVE  IInv'
<1>1. /\ Types /\ work[w] = "after" /\ SameEpoch
      /\ UNCHANGED <<main, claimed, loaded, batch_queue, next_batch_idx, epoch_done,
                     active_workers, worker_exception, epoch_generation>>
  BY DEF IInv, After, SameEpoch, buffers
<1>2. PICK a \in {"exited", "parked", "loop"} :
         /\ work' = [work EXCEPT ![w] = a]
         /\ a # "exited" => Persistent /\ seen' = [seen EXCEPT ![w] = epoch_generation]
         /\ a = "exited" => seen' = seen
  BY DEF After
<1>3. Moves(w) /\ work'[w] = a
  BY <1>1, <1>2, GotoFacts DEF Places
<1>4. Types'
  BY <1>1, <1>2, <1>3 DEF Types, Moves, SameEpoch
<1>5. NoEpochIsMissed'
  BY <1>1, <1>2, <1>3 DEF IInv, NoEpochIsMissed, Moves, Types
<1>6. Iterating => (w \in Busy' <=> w \in Busy) /\ ~Has(w)'
  BY <1>1, <1>2, <1>3 DEF Busy, Has, Iterating
<1>. QED  BY <1>1, <1>2, <1>3, <1>4, <1>5, <1>6, QuietStep DEF Iterating

(* A worker claims the next index, or finds there is none. *)
LEMMA ClaimStep ==
    ASSUME IInv, NEW w \in Worker, Claim(w), UNCHANGED scenario
    PROVE  IInv'
<1>1. /\ Types /\ work[w] = "loop" /\ SameEpoch
      /\ UNCHANGED <<main, loaded, seen, batch_queue, epoch_done, active_workers, worker_exception,
                     epoch_generation>>
  BY DEF IInv, Claim, SameEpoch, buffers
<1>2. /\ NumBatches \in Nat /\ next_batch_idx \in Nat /\ (Unfailed => Iterating)
      /\ (Iterating => ~stop_workers) /\ NumBatches' = NumBatches
  BY <1>1, NumBatchesType DEF IInv, Types, Unfailed, Delivery, SameEpoch, NumBatches
<1>3. CASE stop_workers /\ work' = [work EXCEPT ![w] = "after"] /\ UNCHANGED <<claimed, next_batch_idx>>
  <2>1. Moves(w) /\ work'[w] = "after"
    BY <1>1, <1>3, GotoFacts DEF Places
  <2>2. Types'
    BY <1>1, <1>3, <2>1 DEF Types, Moves, SameEpoch
  <2>3. NoEpochIsMissed'
    BY <1>1, <2>1 DEF IInv, NoEpochIsMissed, Moves
  <2>. QED  BY <1>1, <1>2, <1>3, <2>1, <2>2, <2>3, QuietStep
<1>4. CASE /\ next_batch_idx < NumBatches /\ work' = [work EXCEPT ![w] = "load"]
           /\ claimed' = [claimed EXCEPT ![w] = next_batch_idx]
           /\ next_batch_idx' = next_batch_idx + 1
  <2>1. Moves(w) /\ work'[w] = "load"
    BY <1>1, <1>4, GotoFacts DEF Places
  <2>2. /\ Types' /\ claimed'[w] = next_batch_idx
        /\ \A v \in Worker : v # w => claimed'[v] = claimed[v]
    BY <1>1, <1>2, <1>4, <2>1 DEF Types, Moves, SameEpoch
  <2>3. NoEpochIsMissed'
    BY <1>1, <2>1 DEF IInv, NoEpochIsMissed, Moves
  <2>4. next_batch_idx' >= next_batch_idx
    BY <1>2, <1>4
  <2>5. ASSUME Iterating PROVE QueueFresh' /\ QueueDiffers' /\ LoadsFresh' /\ ClaimsDiffer'
    <3>1. QueueFresh' /\ QueueDiffers'
      BY <1>1, <2>2, <2>4, <2>5, QueueKept
    <3>2. LoadsFresh'
      BY <1>1, <2>1, <2>5 DEF IInv, LoadsFresh, Moves, SameEpoch
    <3>3. \A i : InQueue(i)' <=> InQueue(i)
      BY <1>1 DEF InQueue
    <3>4. \A v \in Worker : v # w => (Has(v)' <=> Has(v))
      BY <2>1 DEF Has, Moves
    <3>5. ~InQueue(next_batch_idx)
      <4>1. QueueDiffers
        BY <2>5 DEF IInv
      <4>2. \A p \in 1 .. Len(batch_queue) : batch_queue[p][1] \in Nat
        BY <1>1, Elements DEF Types
      <4>. QED  BY <1>2, <4>1, <4>2 DEF QueueDiffers, InQueue
    <3>6. ClaimsDiffer /\ \A v \in Worker : claimed[v] \in Nat
      BY <1>1, <2>5 DEF IInv, Types
    <3>7. \A v \in Worker : Has(v)' => /\ claimed'[v] < next_batch_idx' /\ claimed'[v] < NumBatches
                                       /\ ~InQueue(claimed'[v])
      BY <1>2, <1>4, <2>2, <3>4, <3>5, <3>6 DEF ClaimsDiffer
    <3>8. ASSUME NEW v \in Worker, NEW u \in Worker, Has(v)', Has(u)', claimed'[v] = claimed'[u]
          PROVE  v = u
      <4>1. \A t \in Worker : t # w /\ Has(t)' => claimed'[t] = claimed[t] /\ Has(t)
                                                  /\ claimed[t] # next_batch_idx
        BY <1>2, <2>2, <3>4, <3>6 DEF ClaimsDiffer
      <4>2. CASE v # w /\ u # w
        BY <3>6, <3>8, <4>1, <4>2 DEF ClaimsDiffer
      <4>3. CASE v = w \/ u = w
        BY <2>2, <3>8, <4>1, <4>3
      <4>. QED  BY <4>2, <4>3
    <3>9. ClaimsDiffer'
      BY <1>1, <1>2, <3>7, <3>8 DEF ClaimsDiffer, InQueue
    <3>. QED  BY <3>1, <3>2, <3>9
  <2>6. ASSUME Unfailed PROVE NoneLost' /\ Counted'
    <3>1. w \in Busy' /\ w \in Busy
      BY <1>1, <2>1 DEF Busy
    <3>2. Counted'
      BY <1>1, <2>1, <2>2, <2>4, <2>6, <3>1, CountKept
    <3>3. NoneLost
      BY <2>6 DEF IInv
    <3>4. \A i : (InQueue(i)' <=> InQueue(i)) /\ (Buffered(i)' <=> Buffered(i))
      BY <1>1 DEF InQueue, Buffered, SameEpoch
    <3>5. \A i : Claimed(i) => Claimed(i)'
      BY <1>1, <2>1, <2>2 DEF Claimed, Moves
    <3>6. \A i : i = next_batch_idx => Claimed(i)'
      BY <2>1, <2>2 DEF Claimed
    <3>7. ASSUME NEW i \in 0 .. NumBatches - 1, i < next_batch_idx'
          PROVE  i < next_output_idx' \/ Buffered(i)' \/ InQueue(i)' \/ Claimed(i)'
      <4>1. i < next_batch_idx \/ i = next_batch_idx
        BY <1>2, <1>4, <3>7
      <4>. QED  BY <1>1, <3>3, <3>4, <3>5, <3>6, <4>1 DEF NoneLost, SameEpoch
    <3>. QED  BY <1>2, <3>2, <3>7 DEF NoneLost
  <2>. QED  BY <1>1, <2>2, <2>3, <2>5, <2>6, WorkerFrame
<1>5. CASE /\ next_batch_idx >= NumBatches /\ work' = [work EXCEPT ![w] = "retire"]
           /\ next_batch_idx' = next_batch_idx + 1 /\ UNCHANGED claimed
  <2>1. Moves(w) /\ work'[w] = "retire"
    BY <1>1, <1>5, GotoFacts DEF Places
  <2>2. Types'
    BY <1>1, <1>2, <1>5, <2>1 DEF Types, Moves, SameEpoch
  <2>3. NoEpochIsMissed'
    BY <1>1, <2>1 DEF IInv, NoEpochIsMissed, Moves
  <2>4. next_batch_idx' >= next_batch_idx /\ next_batch_idx' >= NumBatches
    BY <1>2, <1>5
  <2>5. ASSUME Iterating PROVE QueueFresh' /\ QueueDiffers' /\ LoadsFresh' /\ ClaimsDiffer'
    <3>1. QueueFresh' /\ QueueDiffers'
      BY <1>1, <2>2, <2>4, <2>5, QueueKept
    <3>2. LoadsFresh'
      BY <1>1, <2>1, <2>5 DEF IInv, LoadsFresh, Moves, SameEpoch
    <3>3. \A v \in Worker : Has(v)' => Has(v)
      BY <2>1 DEF Has, Moves
    <3>4. ClaimsDiffer /\ \A v \in Worker : claimed[v] \in Nat
      BY <1>1, <2>5 DEF IInv, Types
    <3>5. ClaimsDiffer'
      BY <1>1, <1>2, <1>5, <3>3, <3>4 DEF ClaimsDiffer, InQueue
    <3>. QED  BY <3>1, <3>2, <3>5
  <2>6. ASSUME Unfailed PROVE NoneLost' /\ Counted'
    <3>1. w \in Busy' /\ w \in Busy
      BY <1>1, <2>1 DEF Busy
    <3>2. Counted'
      BY <1>1, <2>1, <2>2, <2>4, <2>6, <3>1, CountKept
    <3>3. NoneLost
      BY <2>6 DEF IInv
    <3>4. \A i : (InQueue(i)' <=> InQueue(i)) /\ (Buffered(i)' <=> Buffered(i))
      BY <1>1 DEF InQueue, Buffered, SameEpoch
    <3>5. \A i : Claimed(i) => Claimed(i)'
      BY <1>1, <1>5, <2>1 DEF Claimed, Moves
    <3>6. \A i \in 0 .. NumBatches - 1 : i < next_batch_idx
      BY <1>2, <1>5
    <3>. QED  BY <1>1, <1>2, <3>2, <3>3, <3>4, <3>5, <3>6 DEF NoneLost, SameEpoch
  <2>. QED  BY <1>1, <2>2, <2>3, <2>5, <2>6, WorkerFrame
<1>. QED  BY <1>3, <1>4, <1>5 DEF Claim

(* A worker retires; the last one is going to signal the end of the epoch. *)
LEMMA RetireStep ==
    ASSUME IInv, NEW w \in Worker, Retire(w), UNCHANGED scenario
    PROVE  IInv'
<1>1. /\ Types /\ work[w] = "retire" /\ SameEpoch
      /\ UNCHANGED <<main, claimed, loaded, seen, batch_queue, next_batch_idx, epoch_done,
                     worker_exception, epoch_generation>>
      /\ active_workers' = active_workers - 1
  BY DEF IInv, Retire, Goto, SameEpoch, buffers
<1>2. PICK a \in {"signal", "after"} : /\ work' = [work EXCEPT ![w] = a]
                                       /\ a = "signal" => active_workers = 1
  BY DEF Retire, Goto, LastWorker
<1>3. Moves(w) /\ work'[w] = a
  BY <1>1, <1>2, GotoFacts DEF Places
<1>4. Types' /\ next_batch_idx' >= next_batch_idx
  BY <1>1, <1>2, <1>3 DEF Types, Moves, SameEpoch
<1>5. NoEpochIsMissed'
  BY <1>1, <1>3 DEF IInv, NoEpochIsMissed, Moves
<1>6. ASSUME Iterating PROVE QueueFresh' /\ QueueDiffers' /\ LoadsFresh' /\ ClaimsDiffer'
  <2>1. ~Has(w)'
    BY <1>3 DEF Has
  <2>2. LoadsFresh'
    BY <1>1, <1>3, <1>6 DEF IInv, LoadsFresh, Moves, SameEpoch
  <2>. QED  BY <1>1, <1>3, <1>4, <1>6, <2>1, <2>2, QueueKept, ClaimsKept
<1>7. ASSUME Unfailed PROVE NoneLost' /\ Counted'
  <2>1. NoneLost'
    BY <1>1, <1>3, <1>7, LostKept
  <2>2. Counted /\ NumBatches' = NumBatches
    BY <1>1, <1>7 DEF IInv, SameEpoch, NumBatches
  <2>3. w \in Busy /\ Busy' = Busy \ {w}
    BY <1>1, <1>3 DEF Busy, Moves
  <2>4. IsFiniteSet(Busy') /\ active_workers' = Cardinality(Busy')
    BY <1>1, <2>2, <2>3, FS_RemoveElement DEF Counted
  <2>5. a = "signal" => Busy' = {}
    <3>1. a = "signal" => Cardinality(Busy') = 0
      BY <1>1, <1>2, <2>4
    <3>. QED  BY <2>4, <3>1, FS_EmptySet
  <2>6. (\E v \in Worker : work'[v] = "signal") \/ epoch_done' => Busy' = {}
    <3>1. (\E v \in Worker : work[v] = "signal") \/ epoch_done => Busy = {}
      BY <2>2 DEF Counted
    <3>. QED  BY <1>1, <1>3, <2>3, <2>5, <3>1 DEF Moves
  <2>7. next_batch_idx >= NumBatches
    BY <1>1, <2>2 DEF Counted
  <2>. QED  BY <1>1, <2>1, <2>2, <2>4, <2>6, <2>7 DEF Counted
<1>. QED  BY <1>1, <1>4, <1>5, <1>6, <1>7, WorkerFrame

(* The end of the epoch is signalled. *)
LEMMA SignalStep ==
    ASSUME IInv, NEW w \in Worker, Signal(w), UNCHANGED scenario
    PROVE  IInv'
<1>1. /\ Types /\ work[w] = "signal" /\ SameEpoch /\ work' = [work EXCEPT ![w] = "after"]
      /\ UNCHANGED <<claimed, loaded, seen, batch_queue, next_batch_idx, active_workers,
                     worker_exception, epoch_generation>>
      /\ main' = WakeConsumer(main)
  BY DEF IInv, Signal, Goto, SameEpoch, buffers
<1>2. Moves(w) /\ work'[w] = "after"
  BY <1>1, GotoFacts DEF Places
<1>3. /\ main' \in Mains /\ (main' = main \/ (main = "waiting" /\ main' = "get"))
  BY <1>1, WakeFacts
<1>4. Types' /\ next_batch_idx' >= next_batch_idx
  BY <1>1, <1>2, <1>3 DEF Types, Moves, SameEpoch
<1>5. NoEpochIsMissed'
  BY <1>1, <1>2 DEF IInv, NoEpochIsMissed, Moves
<1>6. ASSUME Iterating PROVE QueueFresh' /\ QueueDiffers' /\ LoadsFresh' /\ ClaimsDiffer'
  <2>1. ~Has(w)'
    BY <1>2 DEF Has
  <2>2. LoadsFresh'
    BY <1>1, <1>2, <1>6 DEF IInv, LoadsFresh, Moves, SameEpoch
  <2>. QED  BY <1>1, <1>2, <1>4, <1>6, <2>1, <2>2, QueueKept, ClaimsKept
<1>7. ASSUME Unfailed PROVE NoneLost' /\ Counted'
  <2>1. NoneLost'
    BY <1>1, <1>2, <1>7, LostKept
  <2>2. Counted /\ NumBatches' = NumBatches
    BY <1>1, <1>7 DEF IInv, SameEpoch, NumBatches
  <2>3. Busy = {} /\ Busy' = Busy
    <3>1. Busy = {}
      BY <1>1, <2>2 DEF Counted
    <3>. QED  BY <1>1, <1>2, <3>1 DEF Busy, Moves
  <2>4. next_batch_idx >= NumBatches
    BY <1>1, <2>2 DEF Counted
  <2>. QED  BY <1>1, <2>1, <2>2, <2>3, <2>4 DEF Counted
<1>. QED  BY <1>1, <1>3, <1>4, <1>5, <1>6, <1>7, WorkerFrame

(* A worker fails: from here on the epoch counts as failed. *)
LEMMA CatchStep ==
    ASSUME IInv, NEW w \in Worker, Catch(w), UNCHANGED scenario
    PROVE  IInv'
<1>1. /\ Types /\ work[w] = "catch" /\ SameEpoch /\ work' = [work EXCEPT ![w] = "exited"]
      /\ UNCHANGED <<claimed, loaded, seen, batch_queue, next_batch_idx, active_workers,
                     epoch_generation>>
      /\ main' = WakeConsumer(main) /\ worker_exception'
  BY DEF IInv, Catch, Goto, SameEpoch, buffers
<1>2. Moves(w) /\ work'[w] = "exited"
  BY <1>1, GotoFacts DEF Places
<1>3. /\ main' \in Mains /\ (main' = main \/ (main = "waiting" /\ main' = "get"))
  BY <1>1, WakeFacts
<1>4. Types' /\ next_batch_idx' >= next_batch_idx
  BY <1>1, <1>2, <1>3 DEF Types, Moves, SameEpoch
<1>5. NoEpochIsMissed'
  BY <1>1, <1>2 DEF IInv, NoEpochIsMissed, Moves
<1>6. ASSUME Iterating PROVE QueueFresh' /\ QueueDiffers' /\ LoadsFresh' /\ ClaimsDiffer'
  <2>1. ~Has(w)'
    BY <1>2 DEF Has
  <2>2. LoadsFresh'
    BY <1>1, <1>2, <1>6 DEF IInv, LoadsFresh, Moves, SameEpoch
  <2>. QED  BY <1>1, <1>2, <1>4, <1>6, <2>1, <2>2, QueueKept, ClaimsKept
<1>. QED  BY <1>1, <1>3, <1>4, <1>5, <1>6, WorkerFrame

(* A batch is pushed, or the worker waits for room, or leaves. *)
LEMMA PushStep ==
    ASSUME IInv, NEW w \in Worker, Push(w), UNCHANGED scenario
    PROVE  IInv'
<1>1. /\ Types /\ work[w] = "push" /\ SameEpoch
      /\ UNCHANGED <<claimed, loaded, seen, next_batch_idx, epoch_done, active_workers,
                     worker_exception, epoch_generation>>
  BY DEF IInv, Push, SameEpoch
<1>2. /\ (Iterating => ~stop_workers) /\ (Unfailed => Iterating) /\ NumBatches' = NumBatches
      /\ Iterating => loaded[w] = order
  BY <1>1 DEF IInv, Delivery, Unfailed, LoadsFresh, SameEpoch, NumBatches
<1>3. ASSUME NEW a \in {"after", "blocked"}, work' = [work EXCEPT ![w] = a],
             a = "after" => stop_workers, UNCHANGED <<batch_queue, main>>
      PROVE  IInv'
  <2>1. Moves(w) /\ work'[w] = a
    BY <1>1, <1>3, GotoFacts DEF Places
  <2>2. Types'
    BY <1>1, <1>3, <2>1 DEF Types, Moves, SameEpoch
  <2>3. NoEpochIsMissed'
    BY <1>1, <2>1 DEF IInv, NoEpochIsMissed, Moves
  <2>4. Iterating => (w \in Busy' <=> w \in Busy) /\ Has(w) /\ a = "blocked"
    BY <1>1, <1>2, <1>3, <2>1 DEF Busy, Has
  <2>. QED  BY <1>1, <1>2, <1>3, <2>1, <2>2, <2>3, <2>4, QuietStep
<1>4. CASE /\ batch_queue' = Append(batch_queue, <<claimed[w], loaded[w]>>)
           /\ work' = [work EXCEPT ![w] = "loop"] /\ main' = WakeConsumer(main)
  <2>1. Moves(w) /\ work'[w] = "loop"
    BY <1>1, <1>4, GotoFacts DEF Places
  <2>2. /\ main' \in Mains /\ (main' = main \/ (main = "waiting" /\ main' = "get"))
    BY <1>1, <1>4, WakeFacts
  <2>. PICK b \in Batch : b = <<claimed[w], loaded[w]>> /\ b[1] = claimed[w] /\ b[2] = loaded[w]
    <3>1. claimed[w] \in Nat /\ loaded[w] \in Nat
      BY <1>1 DEF Types
    <3>2. <<claimed[w], loaded[w]>> \in Batch
      BY <3>1 DEF Batch
    <3>. QED  BY <3>2
  <2>. PICK n \in Nat : n = Len(batch_queue)
    BY <1>1 DEF Types
  <2>3. /\ batch_queue' \in Seq(Batch) /\ Len(batch_queue') = n + 1 /\ batch_queue'[n + 1] = b
        /\ \A p \in 1 .. n : batch_queue'[p] = batch_queue[p]
    BY <1>1, <1>4 DEF Types
  <2>4. Types' /\ next_batch_idx' >= next_batch_idx
    BY <1>1, <2>1, <2>2, <2>3 DEF Types, Moves, SameEpoch
  <2>5. NoEpochIsMissed'
    BY <1>1, <2>1 DEF IInv, NoEpochIsMissed, Moves
  <2>6. \A i : InQueue(i)' <=> InQueue(i) \/ i = claimed[w]
    BY <2>3 DEF InQueue
  <2>7. ASSUME Iterating PROVE QueueFresh' /\ QueueDiffers' /\ LoadsFresh' /\ ClaimsDiffer'
    <3>1. QueueFresh /\ QueueDiffers /\ LoadsFresh /\ ClaimsDiffer /\ loaded[w] = order
      BY <1>2, <2>7 DEF IInv
    <3>2. QueueFresh'
      BY <1>1, <2>3, <3>1 DEF QueueFresh, SameEpoch
    <3>3. LoadsFresh'
      BY <1>1, <2>1, <3>1 DEF LoadsFresh, Moves, SameEpoch
    <3>4. \A v \in Worker : Has(v)' => Has(v) /\ v # w
      BY <2>1 DEF Has, Moves
    <3>5. Has(w) /\ ~InQueue(claimed[w]) /\ claimed[w] < next_batch_idx /\ claimed[w] < NumBatches
      BY <1>1, <3>1 DEF ClaimsDiffer, Has
    <3>6. ClaimsDiffer'
      <4>1. \A v \in Worker : Has(v)' => /\ claimed[v] < next_batch_idx /\ claimed[v] < NumBatches
                                         /\ ~InQueue(claimed[v]) /\ claimed[v] # claimed[w]
        BY <3>1, <3>4, <3>5 DEF ClaimsDiffer
      <4>2. \A v \in Worker : Has(v)' => ~InQueue(claimed[v])'
        BY <1>1, <2>6, <4>1
      <4>3. \A v, u \in Worker : Has(v)' /\ Has(u)' /\ claimed[v] = claimed[u] => v = u
        BY <3>1, <3>4 DEF ClaimsDiffer
      <4>. QED  BY <1>1, <1>2, <4>1, <4>2, <4>3 DEF ClaimsDiffer
    <3>7. QueueDiffers'
      <4>1. \A p \in 1 .. n : batch_queue[p][1] # claimed[w]
        BY <3>5 DEF InQueue
      <4>2. \A p \in 1 .. n + 1 : batch_queue'[p][1] < next_batch_idx /\ batch_queue'[p][1] < NumBatches
        BY <2>3, <3>1, <3>5 DEF QueueDiffers
      <4>3. \A o, p \in 1 .. n + 1 : batch_queue'[o][1] = batch_queue'[p][1] => o = p
        BY <2>3, <3>1, <4>1 DEF QueueDiffers
      <4>. QED  BY <1>1, <1>2, <2>3, <4>2, <4>3 DEF QueueDiffers
    <3>. QED  BY <3>2, <3>3, <3>6, <3>7
  <2>8. ASSUME Unfailed PROVE NoneLost' /\ Counted'
    <3>1. w \in Busy' /\ w \in Busy
      BY <1>1, <2>1 DEF Busy
    <3>2. Counted'
      BY <1>1, <2>1, <2>4, <2>8, <3>1, CountKept
    <3>3. \A i : Claimed(i) => Claimed(i)' \/ i = claimed[w]
      BY <1>1, <2>1 DEF Claimed, Moves
    <3>4. \A i : Buffered(i)' <=> Buffered(i)
      BY <1>1 DEF Buffered, SameEpoch
    <3>5. NoneLost
      BY <2>8 DEF IInv
    <3>6. NoneLost'
      BY <1>1, <1>2, <2>6, <3>3, <3>4, <3>5 DEF NoneLost, SameEpoch
    <3>. QED  BY <3>2, <3>6
  <2>. QED  BY <1>1, <2>2, <2>4, <2>5, <2>7, <2>8, WorkerFrame
<1>. QED  BY <1>3, <1>4 DEF Push

(* Outside of an epoch there is little to keep. *)
LEMMA NotIterating ==
    ASSUME IInv, Types', NoEpochIsMissed', UNCHANGED scenario, main' \in ResetPlaces => Persistent,
           Persistent \/ main' \notin {"get", "waiting", "spin", "holding", "end", "error"},
           ~Persistent => \/ delivered' = <<>>
                          \/ /\ UNCHANGED <<delivered, order>>
                             /\ main' \in {"ready", "reset_notify", "reset_join"} =>
                                   main \in {"ready", "reset_notify", "reset_join"}
    PROVE  IInv'
<1>1. Persistent' = Persistent /\ ~Iterating' /\ ~Unfailed' /\ (~Persistent' => main' # "end")
  BY DEF Persistent, Iterating, Unfailed
<1>2. DeliveredInOrder'
  BY <1>1 DEF IInv, DeliveredInOrder
<1>3. ~Persistent' /\ main' \in {"ready", "reset_notify", "reset_join"} => delivered' = <<>>
  BY <1>1 DEF IInv
<1>4. EndMeansComplete'
  BY <1>1 DEF EndMeansComplete
<1>. QED  BY <1>1, <1>2, <1>3, <1>4 DEF IInv

(* An epoch begins: the permutation is a new one. *)
LEMMA BeginStep ==
    ASSUME IInv, Begin, UNCHANGED scenario
    PROVE  IInv'
<1>1. /\ Types /\ order' = order + 1 /\ delivered' = <<>> /\ main' \in {"reset_notify", "reset_clear"}
      /\ main' = "reset_clear" => Persistent
      /\ UNCHANGED <<workers, buffers, next_batch_idx, epoch_generation>>
  BY DEF IInv, Begin
<1>2. Types'
  BY <1>1 DEF Types, Mains, workers, buffers
<1>3. NoEpochIsMissed'
  BY <1>1 DEF IInv, NoEpochIsMissed, workers
<1>. QED  BY <1>1, <1>2, <1>3, NotIterating DEF ResetPlaces

(* The loader is being destroyed: its destructor yields nothing. *)
LEMMA DestroyStep ==
    ASSUME IInv, Destroy \/ StopJoin, UNCHANGED scenario
    PROVE  IInv'
<1>1. /\ Types /\ main' \in {"stop_notify", "destroyed"}
      /\ UNCHANGED <<workers, buffers, next_batch_idx, epoch_generation, order, delivered>>
  BY DEF IInv, Destroy, StopJoin
<1>2. Types'
  BY <1>1 DEF Types, Mains, workers, buffers
<1>3. NoEpochIsMissed'
  BY <1>1 DEF IInv, NoEpochIsMissed, workers
<1>. QED  BY <1>1, <1>2, <1>3, NotIterating DEF ResetPlaces

(* What notify_all on worker_cv_ does to a worker. *)
LEMMA WakeWorkerFacts ==
    ASSUME Types, NEW w \in Worker
    PROVE  /\ WakeWorker(w) \in Places
           /\ WakeWorker(w) = work[w] \/ (work[w] = "blocked" /\ WakeWorker(w) = "push")
  BY DEF Types, WakeWorker, WakeAll, Places

(* stop_workers() wakes the workers that wait for room. *)
LEMMA StopNotifyStep ==
    ASSUME IInv, StopNotify, UNCHANGED scenario
    PROVE  IInv'
<1>1. /\ Types /\ main \in {"reset_notify", "stop_notify"}
      /\ main' = IF main = "reset_notify" THEN "reset_join" ELSE "stop_join"
      /\ UNCHANGED <<claimed, loaded, seen, buffers, next_batch_idx, epoch_generation, order,
                     delivered>>
      /\ work' = [w \in Worker |-> WakeWorker(w)]
  BY DEF IInv, StopNotify
<1>2. /\ work' \in [Worker -> Places]
      /\ \A w \in Worker : work'[w] = "parked" => work[w] = "parked"
  BY <1>1, WakeWorkerFacts
<1>3. Types'
  BY <1>1, <1>2 DEF Types, Mains, buffers
<1>4. NoEpochIsMissed'
  BY <1>1, <1>2 DEF IInv, NoEpochIsMissed
<1>5. /\ main' \in {"reset_join", "stop_join"}
      /\ main' \in {"ready", "reset_notify", "reset_join"} =>
            main \in {"ready", "reset_notify", "reset_join"}
  BY <1>1
<1>. QED  BY <1>1, <1>3, <1>4, <1>5, NotIterating DEF ResetPlaces

(* An epoch starts from nothing, once the old workers are joined. *)
LEMMA RestartStep ==
    ASSUME IInv, Restart, UNCHANGED scenario
    PROVE  IInv'
<1>1. /\ Types /\ main = "reset_join" /\ main' = "get" /\ ~worker_exception'
      /\ batch_queue' = <<>> /\ reorder_buffer' = {} /\ next_output_idx' = 0
      /\ ~stop_workers' /\ ~epoch_done' /\ next_batch_idx' = 0 /\ active_workers' = NumWorkers
      /\ work' = [w \in Worker |-> "new"]
      /\ UNCHANGED <<claimed, loaded, seen, order, epoch_generation, delivered, scenario>>
  BY DEF IInv, Restart, ClearBuffers
<1>2. Types'
  BY <1>1 DEF Types, Mains, Places
<1>3. NoEpochIsMissed'
  BY <1>1 DEF NoEpochIsMissed
<1>4. \A w \in Worker : work'[w] = "new"
  BY <1>1
<1>5. DeliveredInOrder' /\ EndMeansComplete'
  <2>1. Persistent' = Persistent
    BY <1>1 DEF Persistent
  <2>. QED  BY <1>1, <2>1 DEF IInv, DeliveredInOrder, EndMeansComplete
<1>6. NumBatches' = NumBatches /\ NumBatches \in Nat
  BY <1>1, NumBatchesType DEF NumBatches
<1>7. ASSUME Iterating' PROVE Delivery'
  <2>1. delivered = <<>>
    BY <1>1, <1>7 DEF IInv, Iterating, Persistent
  <2>. QED  BY <1>1, <1>6, <2>1 DEF Delivery
<1>8. QueueFresh' /\ LoadsFresh' /\ BufferFresh' /\ ClaimsDiffer' /\ QueueDiffers'
  <2>1. Len(batch_queue') = 0
    BY <1>1
  <2>2. QueueFresh' /\ QueueDiffers'
    BY <2>1 DEF QueueFresh, QueueDiffers
  <2>. QED  BY <1>1, <1>4, <2>2 DEF LoadsFresh, BufferFresh, ClaimsDiffer, Has
<1>9. NoneLost'
  BY <1>1, <1>6 DEF NoneLost
<1>10. Counted'
  <2>1. Busy' = Worker
    BY <1>4 DEF Busy
  <2>. QED  BY <1>1, <1>4, <2>1, WorkerAssumption DEF Counted, NumWorkers
<1>. QED  BY <1>1, <1>2, <1>3, <1>5, <1>7, <1>8, <1>9, <1>10 DEF IInv, ResetPlaces

(* reset() with persistent workers, one store after the other. *)
LEMMA ResetPersistentStep ==
    ASSUME IInv, ResetPersistent, UNCHANGED scenario
    PROVE  IInv'
<1>1. /\ Types /\ Persistent /\ UNCHANGED <<claimed, loaded, seen, order, delivered>>
  BY DEF IInv, ResetPersistent, ResetPlaces
<1>2. \/ /\ work' = work /\ UNCHANGED epoch_generation
      \/ /\ work' = [w \in Worker |-> Release(w)] /\ epoch_generation' = epoch_generation + 1
  BY DEF ResetPersistent
<1>3. \A w \in Worker : Release(w) \in Places /\ Release(w) # "parked"
  BY <1>1 DEF Release, WakeAll, Types, Places
<1>4. /\ batch_queue' \in {batch_queue, <<>>} /\ reorder_buffer' \in {reorder_buffer, {}}
      /\ next_output_idx' \in {next_output_idx, 0} /\ next_batch_idx' \in {next_batch_idx, 0}
      /\ main' \in {"reset_done", "reset_idx", "reset_active", "reset_bump", "get"}
  BY DEF ResetPersistent, ClearBuffers, buffers
<1>5. Types'
  <2>1. work' \in [Worker -> Places] /\ epoch_generation' \in Nat
    BY <1>1, <1>2, <1>3 DEF Types
  <2>2. batch_queue' \in Seq(Batch) /\ reorder_buffer' \in SUBSET Batch
    <3>1. <<>> \in Seq(Batch) /\ {} \in SUBSET Batch
      OBVIOUS
    <3>2. batch_queue \in Seq(Batch) /\ reorder_buffer \in SUBSET Batch
      BY <1>1 DEF Types
    <3>. QED  BY <1>4, <3>1, <3>2
  <2>. QED  BY <1>1, <1>4, <2>1, <2>2 DEF Types, Mains
<1>6. NoEpochIsMissed'
  BY <1>1, <1>2, <1>3 DEF IInv, NoEpochIsMissed
<1>. QED  BY <1>1, <1>5, <1>6, NotIterating

(* The iterator moves on: after the last batch it ends. *)
LEMMA AdvanceStep ==
    ASSUME IInv, Advance, UNCHANGED scenario
    PROVE  IInv'
<1>1. /\ Types /\ main = "holding" /\ UNCHANGED <<workers, buffers, scenario, order, delivered,
           next_batch_idx, stop_workers, epoch_done, active_workers, worker_exception,
           epoch_generation>>
      /\ main' = IF Len(delivered) < NumBatches THEN "get" ELSE "end"
  BY DEF IInv, Advance
<1>2. /\ UNCHANGED <<work, claimed, loaded, seen, batch_queue, reorder_buffer, next_output_idx>>
      /\ main' \in {"get", "end"}
  BY <1>1 DEF workers, buffers
<1>3. Types'
  BY <1>1, <1>2 DEF Types, Mains
<1>4. NoEpochIsMissed'
  BY <1>1, <1>2 DEF IInv, NoEpochIsMissed
<1>5. Persistent' = Persistent /\ NumBatches' = NumBatches /\ NumBatches \in Nat
  BY <1>1, NumBatchesType DEF Persistent, NumBatches
<1>6. (Iterating' => Iterating) /\ (Unfailed' => Unfailed)
  BY <1>1, <1>2, <1>5 DEF Iterating, Unfailed
<1>7. DeliveredInOrder'
  BY <1>1, <1>5 DEF IInv, DeliveredInOrder
<1>8. EndMeansComplete'
  <2>. SUFFICES ASSUME ~Persistent, main' = "end"
                PROVE  Len(delivered) = NumBatches
    BY <1>1, <1>5 DEF EndMeansComplete
  <2>1. ~(Len(delivered) < NumBatches)
    BY <1>1
  <2>2. Delivery
    BY <1>1 DEF IInv, Iterating
  <2>3. Len(delivered) \in Nat
    BY <1>1 DEF Types
  <2>. QED  BY <1>5, <2>1, <2>2, <2>3 DEF Delivery
<1>9. ASSUME Iterating'
      PROVE  /\ Delivery' /\ QueueFresh' /\ LoadsFresh' /\ BufferFresh'
             /\ ClaimsDiffer' /\ QueueDiffers'
  <2>1. /\ Delivery /\ QueueFresh /\ LoadsFresh /\ BufferFresh /\ ClaimsDiffer /\ QueueDiffers
    BY <1>6, <1>9 DEF IInv
  <2>. QED  BY <1>1, <1>2, <1>5, <2>1
            DEF Delivery, QueueFresh, LoadsFresh, BufferFresh, ClaimsDiffer, QueueDiffers,
            Has, InQueue
<1>10. ASSUME Unfailed' PROVE NoneLost' /\ Counted'
  <2>1. NoneLost /\ Counted
    BY <1>6, <1>10 DEF IInv
  <2>. QED  BY <1>1, <1>2, <1>5, <2>1 DEF NoneLost, Counted, Busy, Claimed, Buffered,
               InQueue
<1>. QED  BY <1>1, <1>2, <1>3, <1>4, <1>7, <1>8, <1>9, <1>10 DEF IInv, ResetPlaces

(* What the consumer finds when it has emptied the queue: with no index    *)
(* there twice, all of it.                                                 *)
LEMMA DrainedFacts ==
    ASSUME IInv
    PROVE  /\ Drained \in SUBSET Batch
           /\ Iterating => \A b \in Drained : b[2] = order /\ b[1] < NumBatches
           /\ Iterating => \A i : InQueue(i) \/ Buffered(i) => \E b \in Drained : b[1] = i
<1>1. /\ batch_queue \in Seq(Batch) /\ reorder_buffer \in SUBSET Batch
  BY DEF IInv, Types
<1>2. DOMAIN batch_queue = 1 .. Len(batch_queue)
  BY <1>1
<1>3. \A b \in FirstOf(batch_queue) : \E p \in 1 .. Len(batch_queue) : b = batch_queue[p]
  BY <1>2 DEF FirstOf
<1>4. \A p \in 1 .. Len(batch_queue) : batch_queue[p] \in Batch
  BY <1>1
<1>5. Drained \in SUBSET Batch
  BY <1>1, <1>3, <1>4 DEF Drained
<1>6. ASSUME Iterating PROVE \A b \in Drained : b[2] = order /\ b[1] < NumBatches
  <2>1. QueueFresh /\ QueueDiffers /\ BufferFresh
    BY <1>6 DEF IInv
  <2>. QED  BY <1>3, <2>1 DEF Drained, QueueFresh, QueueDiffers, BufferFresh
<1>7. ASSUME Iterating, NEW i, InQueue(i) \/ Buffered(i)
      PROVE  \E b \in Drained : b[1] = i
  <2>1. CASE Buffered(i)
    BY <2>1 DEF Buffered, Drained
  <2>2. CASE ~Buffered(i)
    <3>1. PICK p \in 1 .. Len(batch_queue) : batch_queue[p][1] = i
      BY <1>7, <2>2 DEF InQueue
    <3>2. \A o \in 1 .. p - 1 : batch_queue[o][1] # batch_queue[p][1]
      <4>1. QueueDiffers
        BY <1>7 DEF IInv
      <4>2. Len(batch_queue) \in Nat
        BY <1>1
      <4>3. \A o \in 1 .. p - 1 : o \in 1 .. Len(batch_queue) /\ o # p
        BY <4>2
      <4>. QED  BY <4>1, <4>3 DEF QueueDiffers
    <3>3. batch_queue[p] \in FirstOf(batch_queue)
      BY <1>2, <3>2 DEF FirstOf
    <3>4. batch_queue[p] \in Drained
      BY <2>2, <3>1, <3>3 DEF Drained
    <3>. QED  BY <3>1, <3>4
  <2>. QED  BY <2>1, <2>2
<1>. QED  BY <1>5, <1>6, <1>7

(* The consumer empties the queue and takes the next batch, if it is       *)
(* there; if it will never be, all have been taken.                        *)
LEMMA GetStep ==
    ASSUME IInv, Get, UNCHANGED scenario
    PROVE  IInv'
<1>1. /\ Types /\ main = "get" /\ batch_queue' = <<>>
      /\ UNCHANGED <<scenario, claimed, loaded, seen, order, next_batch_idx, stop_workers, epoch_done,
                     active_workers, epoch_generation>>
      /\ work' = [w \in Worker |-> IF batch_queue # <<>> THEN WakeWorker(w) ELSE work[w]]
  BY DEF IInv, Get
<1>2. /\ work' \in [Worker -> Places]
      /\ \A w \in Worker : work'[w] = work[w] \/ (work[w] = "blocked" /\ work'[w] = "push")
  <2>1. \A w \in Worker : work[w] \in Places
    BY <1>1 DEF Types
  <2>. QED  BY <1>1, <2>1, WakeWorkerFacts
<1>3. /\ Persistent' = Persistent /\ NumBatches' = NumBatches /\ NumBatches \in Nat
      /\ (~Persistent => Iterating)
  BY <1>1, NumBatchesType DEF Persistent, NumBatches, Iterating
<1>4. \/ /\ worker_exception /\ main' = "error" /\ reorder_buffer' = Drained
         /\ UNCHANGED <<next_output_idx, delivered>>
      \/ /\ ~worker_exception /\ ~worker_exception' /\ main' = "holding"
         /\ \E b \in Drained : /\ b[1] = next_output_idx /\ reorder_buffer' = Drained \ {b}
                               /\ delivered' = Append(delivered, b)
         /\ next_output_idx' = next_output_idx + 1
      \/ /\ ~worker_exception /\ ~worker_exception' /\ reorder_buffer' = Drained
         /\ main' = IF ~epoch_done THEN "waiting" ELSE IF Drained = {} THEN "end" ELSE "spin"
         /\ UNCHANGED <<next_output_idx, delivered>>
  BY DEF Get, IsNext
<1>5. /\ Drained \in SUBSET Batch
      /\ Iterating => \A b \in Drained : b[2] = order /\ b[1] < NumBatches
      /\ Iterating => \A i : InQueue(i) \/ Buffered(i) => \E b \in Drained : b[1] = i
  BY DrainedFacts
<1>6. main' \in {"error", "holding", "waiting", "end", "spin"} /\ main' \in Mains
  BY <1>4 DEF Mains
<1>7. Types'
  <2>1. /\ reorder_buffer' \in SUBSET Batch /\ delivered' \in Seq(Batch) /\ next_output_idx' \in Nat
        /\ batch_queue' \in Seq(Batch)
    <3>1. delivered \in Seq(Batch) /\ next_output_idx \in Nat /\ <<>> \in Seq(Batch)
      BY <1>1 DEF Types
    <3>2. \A b \in Drained : Append(delivered, b) \in Seq(Batch) /\ Drained \ {b} \in SUBSET Batch
      BY <1>5, <3>1
    <3>. QED  BY <1>1, <1>4, <1>5, <3>1, <3>2
  <2>. QED  BY <1>1, <1>2, <1>6, <2>1 DEF Types
<1>8. NoEpochIsMissed'
  BY <1>1, <1>2 DEF IInv, NoEpochIsMissed
<1>9. CASE Persistent
  BY <1>7, <1>8, <1>9, NotIterating
<1>10. CASE ~Persistent
  <2>1. Iterating /\ Delivery /\ LoadsFresh /\ ClaimsDiffer
    BY <1>3, <1>10 DEF IInv
  <2>2. Len(delivered) \in Nat /\ Len(delivered) = next_output_idx /\ next_output_idx \in Nat
    BY <1>1, <2>1 DEF Types, Delivery
  <2>3. Len(batch_queue') = 0 /\ \A i : ~InQueue(i)'
    BY <1>1 DEF InQueue
  <2>4. QueueFresh' /\ QueueDiffers'
    BY <2>3 DEF QueueFresh, QueueDiffers
  <2>5. LoadsFresh'
    BY <1>1, <1>2, <2>1 DEF LoadsFresh
  <2>6. ClaimsDiffer'
    <3>1. \A w \in Worker : Has(w)' <=> Has(w)
      BY <1>2 DEF Has
    <3>. QED  BY <1>1, <1>3, <2>1, <2>3, <3>1 DEF ClaimsDiffer
  <2>7. BufferFresh'
    <3>1. reorder_buffer' \subseteq Drained
      BY <1>4
    <3>. QED  BY <1>1, <1>3, <1>5, <2>1, <3>1 DEF BufferFresh
  <2>8. ASSUME Unfailed
        PROVE  Counted'
    <3>1. Counted /\ Busy' = Busy
      <4>1. \A w \in Worker : w \in Busy' <=> w \in Busy
        BY <1>2 DEF Busy
      <4>2. Busy' = Busy
        BY <4>1 DEF Busy
      <4>. QED  BY <2>8, <4>2 DEF IInv
    <3>. QED  BY <1>1, <1>2, <1>3, <3>1 DEF Counted
  <2>9. \A i : Claimed(i) => Claimed(i)'
    BY <1>1, <1>2 DEF Claimed
  <2>10. CASE /\ main' = "error" /\ UNCHANGED <<next_output_idx, delivered>>
    <3>1. DeliveredInOrder' /\ EndMeansComplete' /\ Delivery' /\ ~Unfailed'
      BY <1>1, <1>3, <2>1, <2>10
         DEF IInv, DeliveredInOrder, EndMeansComplete, Delivery, Unfailed
    <3>. QED  BY <1>7, <1>8, <2>4, <2>5, <2>6, <2>7, <2>10, <3>1 DEF IInv, ResetPlaces
  <2>11. ASSUME ~worker_exception, main' = "holding", next_output_idx' = next_output_idx + 1,
                NEW b \in Drained, b[1] = next_output_idx, reorder_buffer' = Drained \ {b},
                delivered' = Append(delivered, b)
         PROVE  IInv'
    <3>1. b = <<next_output_idx, order>> /\ b[1] < NumBatches
      <4>1. b \in Nat \X Nat /\ b[2] = order /\ b[1] < NumBatches
        BY <1>5, <2>1 DEF Batch
      <4>. QED  BY <2>11, <4>1
    <3>2. /\ Len(delivered') = next_output_idx + 1 /\ delivered'[next_output_idx + 1] = b
          /\ \A i \in 1 .. next_output_idx : delivered'[i] = delivered[i]
          /\ DOMAIN delivered' = 1 .. next_output_idx + 1 /\ DOMAIN delivered = 1 .. next_output_idx
      <4>1. delivered \in Seq(Batch) /\ b \in Batch
        BY <1>1, <1>5 DEF Types
      <4>. QED  BY <2>2, <2>11, <4>1
    <3>3. DeliveredInOrder'
      <4>1. \A i \in 1 .. next_output_idx : delivered[i] = <<i - 1, order>>
        BY <1>10, <3>2 DEF IInv, DeliveredInOrder
      <4>2. \A i \in 1 .. next_output_idx + 1 : delivered'[i] = <<i - 1, order>>
        <5>. SUFFICES ASSUME NEW i \in 1 .. next_output_idx + 1
                      PROVE  delivered'[i] = <<i - 1, order>>
          OBVIOUS
        <5>1. CASE i \in 1 .. next_output_idx
          BY <3>2, <4>1, <5>1
        <5>2. CASE i = next_output_idx + 1
          BY <2>2, <3>1, <3>2, <5>2
        <5>. QED  BY <2>2, <5>1, <5>2
      <4>. QED  BY <1>1, <3>2, <4>2 DEF DeliveredInOrder
    <3>4. Delivery'
      BY <1>1, <1>3, <2>1, <2>2, <2>11, <3>1, <3>2 DEF Delivery
    <3>5. EndMeansComplete'
      BY <2>11 DEF EndMeansComplete
    <3>6. Unfailed
      BY <1>1, <2>1, <2>11 DEF Unfailed
    <3>7. NoneLost'
      <4>1. ASSUME NEW i \in 0 .. NumBatches - 1, i < next_batch_idx, ~Claimed(i)
            PROVE  i < next_output_idx' \/ Buffered(i)'
        <5>1. i < next_output_idx \/ Buffered(i) \/ InQueue(i)
          BY <3>6, <4>1 DEF IInv, NoneLost
        <5>2. CASE i < next_output_idx
          BY <2>2, <2>11, <5>2
        <5>3. CASE Buffered(i) \/ InQueue(i)
          <6>1. PICK d \in Drained : d[1] = i
            BY <1>5, <2>1, <5>3
          <6>2. CASE d = b
            BY <2>2, <2>11, <6>1, <6>2
          <6>3. CASE d # b
            BY <2>11, <6>1, <6>3 DEF Buffered
          <6>. QED  BY <6>2, <6>3
        <5>. QED  BY <5>1, <5>2, <5>3
      <4>. QED  BY <1>1, <1>3, <2>9, <4>1 DEF NoneLost
    <3>. QED  BY <1>7, <1>8, <2>4, <2>5, <2>6, <2>7, <2>8, <2>11, <3>3, <3>4, <3>5, <3>6,
                 <3>7
              DEF IInv, ResetPlaces
  <2>12. CASE /\ ~worker_exception /\ reorder_buffer' = Drained
              /\ main' = IF ~epoch_done THEN "waiting" ELSE IF Drained = {} THEN "end" ELSE "spin"
              /\ UNCHANGED <<next_output_idx, delivered>>
    <3>1. DeliveredInOrder' /\ Delivery' /\ Unfailed
      BY <1>1, <1>3, <2>1, <2>12 DEF IInv, DeliveredInOrder, Delivery, Unfailed
    <3>2. NoneLost
      BY <3>1 DEF IInv
    <3>3. NoneLost'
      <4>1. \A i : InQueue(i) \/ Buffered(i) => Buffered(i)'
        BY <1>5, <2>1, <2>12 DEF Buffered
      <4>. QED  BY <1>1, <1>3, <2>9, <2>12, <3>2, <4>1 DEF NoneLost
    <3>4. EndMeansComplete'
      <4>. SUFFICES ASSUME main' = "end"
                    PROVE  Len(delivered) = NumBatches
        BY <1>3, <2>12 DEF EndMeansComplete
      <4>1. epoch_done /\ Drained = {} /\ Counted
        BY <2>12, <3>1 DEF IInv
      <4>2. Busy = {}
        BY <4>1 DEF Counted
      <4>3. next_batch_idx >= NumBatches
        <5>1. PICK w \in Worker : TRUE
          BY WorkerAssumption
        <5>2. work[w] \in {"signal", "after", "parked", "exited"}
          BY <1>1, <4>2 DEF Types, Places, Busy
        <5>. QED  BY <4>1, <5>2 DEF Counted
      <4>4. \A i : ~Claimed(i) /\ ~InQueue(i) /\ ~Buffered(i)
        <5>1. \A i : ~Claimed(i)
          BY <4>2 DEF Claimed, Busy
        <5>. QED  BY <1>5, <2>1, <4>1, <5>1
      <4>5. \A i \in 0 .. NumBatches - 1 : i < next_output_idx
        <5>1. next_batch_idx \in Nat
          BY <1>1 DEF Types
        <5>. QED  BY <1>3, <3>2, <4>3, <4>4, <5>1 DEF NoneLost
      <4>6. NumBatches - 1 \in 0 .. NumBatches - 1
        BY <1>1, NumBatchesType
      <4>7. next_output_idx <= NumBatches
        BY <2>1 DEF Delivery
      <4>. QED  BY <1>3, <2>2, <4>5, <4>6, <4>7
    <3>5. main' \in {"waiting", "end", "spin"}
      BY <2>12
    <3>. QED  BY <1>7, <1>8, <2>4, <2>5, <2>6, <2>7, <2>8, <3>1, <3>3, <3>4, <3>5
              DEF IInv, ResetPlaces
  <2>. QED  BY <1>4, <2>10, <2>11, <2>12
<1>. QED  BY <1>9, <1>10

(* The invariant holds initially, ... *)
LEMMA InitEstablishes ==
    ASSUME Init
    PROVE  IInv
<1>1. /\ scenario \in Scenario /\ \A w \in Worker : work[w] = "new"
      /\ main = "ready" /\ delivered = <<>>
  BY ScenariosAssumption DEF Init
<1>2. Types
  BY ScenariosAssumption DEF Init, Types, Places, Mains
<1>. QED  BY <1>1, <1>2
          DEF IInv, NoEpochIsMissed, DeliveredInOrder, EndMeansComplete, Iterating,
          Unfailed,
              ResetPlaces

(* ... every step preserves it, ... *)
LEMMA NextStep ==
    ASSUME IInv, [Next /\ UNCHANGED scenario]_<<vars, scenario>>
    PROVE  IInv'
<1>1. CASE UNCHANGED <<vars, scenario>>
  <2>1. UNCHANGED <<scenario, work, claimed, loaded, seen, order, batch_queue, reorder_buffer,
                    next_output_idx, next_batch_idx, stop_workers, epoch_done,
                    active_workers,
                    worker_exception, epoch_generation, main, delivered>>
    BY <1>1 DEF vars, workers, buffers
  <2>2. Types'
    BY <2>1 DEF IInv, Types
  <2>3. NoEpochIsMissed'
    BY <2>1 DEF IInv, NoEpochIsMissed
  <2>4. NumBatches' = NumBatches /\ SameEpoch /\ (Unfailed => Iterating)
    BY <2>1 DEF NumBatches, SameEpoch, Unfailed
  <2>5. ASSUME Iterating PROVE QueueFresh' /\ LoadsFresh' /\ ClaimsDiffer' /\ QueueDiffers'
    <3>1. QueueFresh /\ LoadsFresh /\ ClaimsDiffer /\ QueueDiffers
      BY <2>5 DEF IInv
    <3>. QED  BY <2>1, <2>4, <3>1
              DEF QueueFresh, LoadsFresh, ClaimsDiffer, QueueDiffers, Has, InQueue
  <2>6. ASSUME Unfailed PROVE NoneLost' /\ Counted'
    <3>1. NoneLost /\ Counted
      BY <2>6 DEF IInv
    <3>. QED  BY <2>1, <2>4, <3>1 DEF NoneLost, Counted, Busy, Claimed, Buffered, InQueue
  <2>. QED  BY <2>1, <2>2, <2>3, <2>4, <2>5, <2>6, WorkerFrame
<1>2. ASSUME NEW w \in Worker, WorkerStep(w), UNCHANGED scenario
      PROVE  IInv'
  BY <1>2, ReadGenerationStep, ClaimStep, RetireStep, SignalStep, LoadStep, LoadThrowsStep,
     PushStep,
     AfterStep, CatchStep DEF WorkerStep
<1>3. CASE Next /\ UNCHANGED scenario
  BY <1>2, <1>3, BeginStep, DestroyStep, AdvanceStep, StopNotifyStep, RestartStep,
     ResetPersistentStep, GetStep DEF Next, MainStep
<1>. QED  BY <1>1, <1>3

(* ... and it therefore always holds. *)
THEOREM Inductive == Spec => []IInv
<1>1. Init => IInv
  BY InitEstablishes
<1>2. IInv /\ [Next /\ UNCHANGED scenario]_<<vars, scenario>> => IInv'
  BY NextStep
<1>. QED  BY <1>1, <1>2, PTL DEF Spec

(* A parked persistent worker has handled the current generation: no start *)
(* of an epoch is lost to a worker about to wait.                          *)
THEOREM EpochStarts == Spec => []NoEpochIsMissed
<1>1. IInv => NoEpochIsMissed
  BY DEF IInv
<1>. QED  BY <1>1, Inductive, PTL

(* An epoch yields batches 0, 1, 2, ... of its own permutation, whichever  *)
(* worker is faster, and whatever an earlier epoch left behind.            *)
THEOREM Deterministic == Spec => []DeliveredInOrder
<1>1. IInv => DeliveredInOrder
  BY DEF IInv
<1>. QED  BY <1>1, Inductive, PTL

(* An iterator that ends without an exception has yielded every batch.     *)
THEOREM NothingMissing == Spec => []EndMeansComplete
<1>1. IInv => EndMeansComplete
  BY DEF IInv
<1>. QED  BY <1>1, Inductive, PTL
=============================================================================
