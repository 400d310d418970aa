---------------------- MODULE DistributedDataParallel ----------------------
(***************************************************************************)
(* Gradient synchronisation of DistributedDataParallel.  Every rank runs   *)
(* the same training program on its own replica: forward, backward with a  *)
(* hook per parameter, synchronize_gradients, with no_sync, manual mode    *)
(* and detection of unused parameters.  A hook that completes a bucket     *)
(* reduces it: blocking on a CPU backend or with a compressor, on a        *)
(* communication stream on a GPU backend.  Ranks meet only in collectives, *)
(* which a process group matches by the order of each rank's calls.        *)
(*                                                                         *)
(* A gradient is the vector of its shares: how much of the gradient that   *)
(* rank r computed in backward pass k it holds, in units of 1/World.  It   *)
(* stands for one element of the tensor, which is what a compressor keeps  *)
(* or drops; rounding is left out.                                         *)
(***************************************************************************)
EXTENDS Naturals, Sequences, FiniteSets, Functions, SequencesExt, FiniteSetsExt

CONSTANTS Rank,       \* the processes
          Param,      \* the parameters that require a gradient
          None,       \* std::nullopt of Variable::grad()
          MaxPass,    \* bound on the backward passes of a program
          Scenarios   \* the training programs that are checked

ASSUME RankAssumption  == IsFiniteSet(Rank) /\ Rank # {}
ASSUME ParamAssumption == IsFiniteSet(Param)
ASSUME PassAssumption  == MaxPass \in Nat

Op == {"forward", "backward", "synchronize_gradients", "zero_grad", "no_sync",
       "end_no_sync", "auto_sync_off", "reset_buckets", "invalidate_unused_cache"}

(***************************************************************************)
(* What a run is given: the module's parameters with their sizes, the      *)
(* bucket size, the order in which each backward pass delivers gradients   *)
(* on each rank, the backend, and the program all ranks run.               *)
(***************************************************************************)
Scenario == [params : Seq(Param), bytes : [Param -> Nat], limit : Nat,
             uses : Seq([Rank -> Seq(Param)]), gpu : BOOLEAN,
             compress : BOOLEAN, find_unused : BOOLEAN, program : Seq(Op)]

(* Only the module's own parameters have hooks. *)
ASSUME ScenarioAssumption ==
  \A s \in Scenarios :
    /\ s \in Scenario
    /\ Len(s.uses) <= MaxPass
    /\ \A k \in DOMAIN s.uses : \A r \in Rank : ToSet(s.uses[k][r]) \subseteq ToSet(s.params)

VARIABLES scenario,  \* fixed from the start
          buckets,   \* the parameters of each bucket, the same on all ranks
          st,        \* st[r]: the DDP object, its module's gradients, its thread
          calls,     \* calls[r]: what r passed to each collective so far
          residual,  \* residual[r][p]: what r's compressor dropped of p's gradient
          synced     \* history: synced[r] is what each synchronisation left

vars == <<scenario, buckets, st, calls, residual, synced>>

World == Cardinality(Rank)
Share == Rank \X (1 .. MaxPass)
Grad  == [Share -> Nat]

ASSUME NoneAssumption == None \notin Grad

Zero        == [c \in Share |-> 0]
Local(r, k) == [c \in Share |-> IF c = <<r, k>> THEN World ELSE 0]

(* The engine's accumulate_unlocked() for a leaf. *)
Accumulate(old, g) ==
  IF old = None THEN g ELSE [c \in Share |-> old[c] + g[c]]

-----------------------------------------------------------------------------
(* Buckets, in reverse order of the parameters, closed when the next one    *)
(* would exceed the size limit.                                             *)

AddToBuckets(given, acc, p) ==
  LET new == acc.bytes + given.bytes[p]
  IN  IF acc.current # <<>> /\ new > given.limit
      THEN [full |-> Append(acc.full, acc.current), current |-> <<p>>,
            bytes |-> given.bytes[p]]
      ELSE [acc EXCEPT !.current = Append(@, p), !.bytes = new]

build_buckets(given) ==
  LET built == FoldLeft(LAMBDA acc, p : AddToBuckets(given, acc, p),
                        [full |-> <<>>, current |-> <<>>, bytes |-> 0],
                        Reverse(given.params))
  IN  IF built.current = <<>> THEN built.full ELSE Append(built.full, built.current)

Bucket      == 1 .. Len(buckets)
BucketOf(p) == CHOOSE b \in Bucket : p \in ToSet(buckets[b])

(* reset_buckets(): parameters known to be unused count as delivered. *)
reset_buckets(s) ==
  [s EXCEPT !.ready   = [b \in Bucket |-> FALSE],
            !.pending = [b \in Bucket |->
                           IF scenario.find_unused /\ s.cached
                           THEN Cardinality(s.unused \cap ToSet(buckets[b])) ELSE 0],
            !.ops     = 0]

-----------------------------------------------------------------------------
(* Collectives.  The buffer a rank passes is the sequence of its parameters' *)
(* gradients; buffers are added position by position, so they only match     *)
(* when they have the same layout.                                           *)

Layout(buffer) == [i \in DOMAIN buffer |-> scenario.bytes[buffer[i].param]]

Complete(n) ==
  /\ \A r \in Rank : Len(calls[r]) >= n
  /\ \A q, r \in Rank : Layout(calls[q][n]) = Layout(calls[r][n])

MutUndivided(n, i) ==
  [c \in Share |-> SumFunctionOnSet([r \in Rank |-> calls[r][n][i].value[c]], Rank)]

(* The sum over the ranks at position i, divided by the world size. *)
Averaged(n, i) ==
  [c \in Share |-> SumFunctionOnSet([r \in Rank |-> calls[r][n][i].value[c]], Rank) \div World]

(* Which gradient goes into the buffer: the one a hook just delivered, if   *)
(* there is one, for it is not in grad() yet; the compressed path reads     *)
(* grad() alone.                                                            *)
ToReduce(s, b, p) ==
  IF ~scenario.compress /\ p \in DOMAIN s.override[b] THEN s.override[b][p]
                                                      ELSE s.grad[p]

(* The members of the sequence ps that are in P. *)
Kept(ps, P) == FoldLeft(LAMBDA kept, p : IF p \in P THEN Append(kept, p) ELSE kept, <<>>, ps)

HasGradient(s, b) == Kept(buckets[b], {p \in Param : ToReduce(s, b, p) # None})

(* One collective for the whole bucket, or one per parameter when a         *)
(* compressor is set; none when no parameter has a gradient.                *)
Buffers(s, b) ==
  LET ps == HasGradient(s, b)
  IN  IF scenario.compress THEN [i \in DOMAIN ps |-> <<ps[i]>>]
      ELSE IF ps = <<>> THEN <<>> ELSE <<ps>>

Packed(s, b, ps) == [i \in DOMAIN ps |-> [param |-> ps[i], value |-> ToReduce(s, b, ps[i])]]

(* unpack_bucket_flat(): set_grad() with the result of the n-th collective. *)
Unpack(grad, ps, n) ==
  [p \in Param |-> IF p \in ToSet(ps)
                   THEN Averaged(n, CHOOSE i \in DOMAIN ps : ps[i] = p) ELSE grad[p]]

Pack(s, b) ==
  IF scenario.compress THEN s ELSE [s EXCEPT !.override[b] = <<>>]

(* all_reduce_bucket_async() returns at once on a GPU backend without a     *)
(* compressor, and is all_reduce_bucket() otherwise.                        *)
Async == scenario.gpu /\ ~scenario.compress

-----------------------------------------------------------------------------
NoFlight == [call |-> 0, params |-> <<>>]

InitialState ==
  [pc |-> 1, stage |-> "program", at |-> 0, bucket |-> 0, queue |-> <<>>, back |-> "program",
   pass |-> 0, zeroed |-> 0, filled |-> {},
   grad |-> [p \in Param |-> None], auto |-> TRUE, was_enabled |-> TRUE,
   cached |-> FALSE, unused |-> {},
   ready |-> [b \in Bucket |-> FALSE], pending |-> [b \in Bucket |-> 0],
   override |-> [b \in Bucket |-> <<>>], flat |-> [b \in Bucket |-> NoFlight], ops |-> 0]

Init ==
  /\ scenario \in Scenarios
  /\ buckets = build_buckets(scenario)
  /\ st = [r \in Rank |-> InitialState]
  /\ calls = [r \in Rank |-> <<>>]
  /\ residual = [r \in Rank |-> [p \in Param |-> Zero]]
  /\ synced = [r \in Rank |-> <<>>]

Finished(r) == st[r].pc > Len(scenario.program)

AtOp(r, op) ==
  /\ st[r].stage = "program"
  /\ ~Finished(r)
  /\ scenario.program[st[r].pc] = op

(* The rank becomes s, without and with a further call of a collective. *)
Becomes(r, s) == /\ st' = [st EXCEPT ![r] = s]
                 /\ UNCHANGED <<calls, residual, synced>>

Calls(r, s, buffer) == /\ st' = [st EXCEPT ![r] = s]
                       /\ calls' = [calls EXCEPT ![r] = Append(@, buffer)]
                       /\ UNCHANGED synced

After(s) == [s EXCEPT !.pc = @ + 1]

-----------------------------------------------------------------------------
(* The program's calls that do not communicate. *)

Forward(r) ==
  /\ AtOp(r, "forward")
  /\ Becomes(r, After(IF st[r].auto THEN reset_buckets(st[r]) ELSE st[r]))

ZeroGrad(r) ==
  /\ AtOp(r, "zero_grad")
  /\ Becomes(r, After([st[r] EXCEPT !.grad = [p \in Param |-> None],
                                    !.zeroed = st[r].pass, !.filled = {}]))

ResetBuckets(r) ==
  /\ AtOp(r, "reset_buckets")
  /\ Becomes(r, After(reset_buckets(st[r])))

AutoSyncOff(r) ==
  /\ AtOp(r, "auto_sync_off")
  /\ Becomes(r, After([st[r] EXCEPT !.auto = FALSE]))

(* The constructor of GradAccumulationGuard. *)
NoSync(r) ==
  /\ AtOp(r, "no_sync")
  /\ Becomes(r, After([st[r] EXCEPT !.was_enabled = st[r].auto, !.auto = FALSE]))

InvalidateUnusedCache(r) ==
  /\ AtOp(r, "invalidate_unused_cache")
  /\ Becomes(r, After([st[r] EXCEPT !.cached = FALSE, !.unused = {}]))

-----------------------------------------------------------------------------
(* Backward: the engine runs the hook of each parameter it reaches and then *)
(* accumulates what the hook returned.                                      *)

Backward(r) ==
  /\ AtOp(r, "backward")
  /\ st[r].pass < Len(scenario.uses)
  /\ Becomes(r, [st[r] EXCEPT !.stage = "backward", !.pass = @ + 1, !.at = 1])

Uses(r)     == scenario.uses[st[r].pass][r]
AtHook(r)   == st[r].stage = "backward" /\ st[r].at <= Len(Uses(r))
Hooked(r)   == Uses(r)[st[r].at]
Computed(r) == Local(r, st[r].pass)

(* The hook returned g. *)
Deliver(s, p, g) ==
  [s EXCEPT !.grad[p] = Accumulate(@, g), !.at = @ + 1, !.stage = "backward"]

(* The critical section of mark_param_ready(). *)
Counts(r) == st[r].auto /\ ~st[r].ready[BucketOf(Hooked(r))]

mark_param_ready(r) ==
  LET b == BucketOf(Hooked(r))
  IN  [st[r] EXCEPT !.override[b] = [p \in DOMAIN @ \cup {Hooked(r)} |->
                                       IF p = Hooked(r) THEN Computed(r) ELSE @[p]],
                    !.pending[b] = @ + 1]

MutFillsAtLast(r) == Hooked(r) = Last(buckets[BucketOf(Hooked(r))])

Fills(r) == LET b == BucketOf(Hooked(r))
            IN  mark_param_ready(r).pending[b] >= Len(buckets[b])

(* Not counted: auto-sync is off, or the bucket is reduced already. *)
HookPasses(r) ==
  /\ AtHook(r)
  /\ ~Counts(r)
  /\ Becomes(r, Deliver(st[r], Hooked(r), Computed(r)))

HookCounts(r) ==
  /\ AtHook(r)
  /\ Counts(r)
  /\ ~Fills(r)
  /\ Becomes(r, Deliver(mark_param_ready(r), Hooked(r), Computed(r)))

(* The hook that completes its bucket blocks in the collective ... *)
HookReduces(r) ==
  LET b == BucketOf(Hooked(r))
      s == mark_param_ready(r)
  IN  /\ AtHook(r)
      /\ Counts(r)
      /\ Fills(r)
      /\ ~Async
      /\ Becomes(r, [s EXCEPT !.ready[b] = TRUE, !.bucket = b, !.queue = Buffers(s, b),
                              !.stage = "reduce", !.back = "backward"])

(* ... or leaves it to the bucket's communication stream. *)
Launched(r, s, b) ==
  LET ps == HasGradient(s, b)
  IN  [Pack(s, b) EXCEPT !.flat[b] = IF ps = <<>> THEN NoFlight
                                     ELSE [call |-> Len(calls[r]) + 1, params |-> ps],
                         !.ops = @ + 1, !.ready[b] = TRUE]

(* The rank, in s when it packs bucket b, is in t afterwards. *)
Launch(r, s, b, t) ==
  /\ st' = [st EXCEPT ![r] = t]
  /\ calls' = [calls EXCEPT ![r] = @ \o [i \in DOMAIN Buffers(s, b) |->
                                            Packed(s, b, Buffers(s, b)[i])]]
  /\ UNCHANGED <<residual, synced>>

HookLaunches(r) ==
  LET s == mark_param_ready(r)
      b == BucketOf(Hooked(r))
  IN  /\ AtHook(r)
      /\ Counts(r)
      /\ Fills(r)
      /\ Async
      /\ Launch(r, s, b, Deliver(Launched(r, s, b), Hooked(r), Computed(r)))

BackwardReturns(r) ==
  /\ st[r].stage = "backward"
  /\ st[r].at > Len(Uses(r))
  /\ Becomes(r, After([st[r] EXCEPT !.stage = "program"]))

-----------------------------------------------------------------------------
(* all_reduce_bucket(), for the bucket the rank is at. *)

(* compress(): TopKCompressor adds what it dropped before, when it still    *)
(* finds it under the storage of the gradient, keeps the element if it is   *)
(* among the largest and drops it otherwise.  decompress() then changes     *)
(* nothing.                                                                 *)
Flat(r, p, found) ==
  IF p \in found THEN Accumulate(residual[r][p], st[r].grad[p]) ELSE st[r].grad[p]

Compressed(r, ps, found, kept) ==
  [i \in DOMAIN ps |-> [param |-> ps[i],
                        value |-> IF ps[i] \in kept THEN Flat(r, ps[i], found) ELSE Zero]]

Dropped(r, ps, found, kept) ==
  [p \in Param |-> IF p \notin ToSet(ps) THEN residual[r][p]
                   ELSE IF p \in kept THEN Zero ELSE Flat(r, p, found)]

AllReduce(r) ==
  LET s    == st[r]
      ps   == Head(s.queue)
      next == [Pack(s, s.bucket) EXCEPT !.stage = "wait"]
  IN  /\ s.stage = "reduce"
      /\ s.queue # <<>>
      /\ \/ /\ ~scenario.compress
            /\ Calls(r, next, Packed(s, s.bucket, ps))
            /\ UNCHANGED residual
         \/ /\ scenario.compress
            /\ \E found, kept \in SUBSET ToSet(ps) :
                  /\ Calls(r, next, Compressed(r, ps, found, kept))
                  /\ residual' = [residual EXCEPT ![r] = Dropped(r, ps, found, kept)]

AllReduceReturns(r) ==
  LET s == st[r]
  IN  /\ s.stage = "wait"
      /\ Complete(Len(calls[r]))
      /\ Becomes(r, [s EXCEPT !.grad  = Unpack(@, Head(s.queue), Len(calls[r])),
                              !.queue = Tail(@), !.stage = "reduce"])

MutReturnLocal(r) == Computed(r)

(* What the hook returns after a blocking reduction: the reduced gradient,  *)
(* when there is one.                                                       *)
Returned(r) == IF st[r].grad[Hooked(r)] = None THEN Computed(r) ELSE st[r].grad[Hooked(r)]

BucketReduced(r) ==
  LET s == [st[r] EXCEPT !.ready[st[r].bucket] = TRUE]
  IN  /\ st[r].stage = "reduce"
      /\ st[r].queue = <<>>
      /\ Becomes(r, IF s.back = "backward"
                    THEN [Deliver(s, Hooked(r), Returned(r)) EXCEPT !.filled = @ \cup {Hooked(r)}]
                    ELSE [s EXCEPT !.stage = "sweep", !.at = @ + 1])

-----------------------------------------------------------------------------
(* synchronize_gradients(): find the unused parameters, reduce the buckets  *)
(* that no hook has reduced, wait for the streams.                          *)

Detect(s) ==
  IF scenario.find_unused /\ ~s.cached
  THEN [s EXCEPT !.unused = {p \in ToSet(scenario.params) : s.grad[p] = None}, !.cached = TRUE]
  ELSE s

Sweep(s) == [Detect(s) EXCEPT !.stage = "sweep", !.at = 1]

SynchronizeGradients(r) ==
  /\ AtOp(r, "synchronize_gradients")
  /\ Becomes(r, Sweep(st[r]))

(* The destructor of GradAccumulationGuard. *)
EndNoSync(r) ==
  LET s == [st[r] EXCEPT !.auto = st[r].was_enabled]
  IN  /\ AtOp(r, "end_no_sync")
      /\ Becomes(r, IF s.auto THEN Sweep(s) ELSE After(s))

AtBucket(r) == st[r].stage = "sweep" /\ st[r].at \in Bucket

SweepSkips(r) ==
  /\ AtBucket(r)
  /\ st[r].ready[st[r].at]
  /\ Becomes(r, [st[r] EXCEPT !.at = @ + 1])

SweepReduces(r) ==
  /\ AtBucket(r)
  /\ ~st[r].ready[st[r].at]
  /\ ~Async
  /\ Becomes(r, [st[r] EXCEPT !.bucket = st[r].at, !.queue = Buffers(st[r], st[r].at),
                              !.stage = "reduce", !.back = "sweep"])

SweepLaunches(r) ==
  /\ AtBucket(r)
  /\ ~st[r].ready[st[r].at]
  /\ Async
  /\ Launch(r, st[r], st[r].at, [Launched(r, st[r], st[r].at) EXCEPT !.at = @ + 1])

(* sync_comm() waits for every recorded event and unpacks every bucket. *)
InFlight(s) == {b \in Bucket : s.flat[b] # NoFlight}

UnpackAll(s) ==
  [p \in Param |-> LET bs == {b \in InFlight(s) : p \in ToSet(s.flat[b].params)}
                   IN  IF bs = {} THEN s.grad[p]
                       ELSE LET f == s.flat[CHOOSE b \in bs : TRUE]
                            IN  Unpack(s.grad, f.params, f.call)[p]]

sync_comm(s) ==
  IF ~scenario.gpu \/ s.ops = 0 THEN s
  ELSE [s EXCEPT !.grad = UnpackAll(s), !.flat = [b \in Bucket |-> NoFlight], !.ops = 0]

SyncComm(r) ==
  LET s == sync_comm(st[r])
  IN  /\ st[r].stage = "sweep"
      /\ st[r].at \notin Bucket
      /\ st[r].ops > 0 => \A b \in InFlight(st[r]) : Complete(st[r].flat[b].call)
      /\ st' = [st EXCEPT ![r] = After([s EXCEPT !.stage = "program"])]
      /\ synced' = [synced EXCEPT ![r] = Append(@,
                      [grad |-> s.grad, first |-> s.zeroed + 1, last |-> s.pass,
                       filled |-> s.filled])]
      /\ UNCHANGED <<calls, residual>>

-----------------------------------------------------------------------------
RankStep(r) ==
  \/ Forward(r) \/ ZeroGrad(r) \/ ResetBuckets(r) \/ AutoSyncOff(r) \/ NoSync(r)
  \/ InvalidateUnusedCache(r)
  \/ Backward(r) \/ HookPasses(r) \/ HookCounts(r) \/ HookReduces(r) \/ HookLaunches(r)
  \/ BackwardReturns(r)
  \/ AllReduce(r) \/ AllReduceReturns(r) \/ BucketReduced(r)
  \/ SynchronizeGradients(r) \/ EndNoSync(r) \/ SweepSkips(r) \/ SweepReduces(r)
  \/ SweepLaunches(r) \/ SyncComm(r)

AllFinished == (\A r \in Rank : Finished(r)) /\ UNCHANGED <<st, calls, residual, synced>>

Next == (\E r \in Rank : RankStep(r)) \/ AllFinished

Fixed == UNCHANGED <<scenario, buckets>>

Spec == Init /\ [][Next /\ Fixed]_vars

(* Each rank is a running process; a collective returns once all ranks have *)
(* made it.                                                                 *)
FairSpec == Spec /\ \A r \in Rank : WF_vars(RankStep(r) /\ Fixed)

-----------------------------------------------------------------------------
(* Types.  In particular a bucket never counts more deliveries than it has  *)
(* parameters, and only gradients of its own parameters wait in it.         *)
TypeOK ==
  /\ scenario \in Scenarios
  /\ residual \in [Rank -> [Param -> Grad]]
  /\ \A r \in Rank :
       /\ st[r].pc \in 1 .. Len(scenario.program) + 1
       /\ st[r].stage \in {"program", "backward", "reduce", "wait", "sweep"}
       /\ st[r].pass \in 0 .. MaxPass
       /\ st[r].grad \in [Param -> Grad \cup {None}]
       /\ st[r].ops \in 0 .. Len(buckets)
       /\ \A b \in Bucket : /\ st[r].pending[b] \in 0 .. Len(buckets[b])
                            /\ DOMAIN st[r].override[b] \subseteq ToSet(buckets[b])

(* Ranks issue the same collectives in the same order: whenever two ranks   *)
(* have made their n-th call, its buffers hold the same parameters at the   *)
(* same places (mark_param_ready, synchronize_gradients, pack_bucket_flat). *)
CollectivesMatch ==
  \A q, r \in Rank : \A n \in DOMAIN calls[q] \cap DOMAIN calls[r] :
    /\ DOMAIN calls[q][n] = DOMAIN calls[r][n]
    /\ \A i \in DOMAIN calls[q][n] : calls[q][n][i].param = calls[r][n][i].param

(* After the same synchronize_gradients() every rank holds the same         *)
(* gradients, for every parameter (ddp.hpp, "identical gradients after      *)
(* sync"), whatever a compressor on each of them keeps or drops.            *)
RanksAgree ==
  \A q, r \in Rank : \A n \in DOMAIN synced[q] \cap DOMAIN synced[r] :
    synced[q][n].grad = synced[r][n].grad

(* The share of rank q's pass k in the average is one per use of p. *)
Expected(p, first, last) ==
  LET used(q, k) == Len(SelectSeq(scenario.uses[k][q], LAMBDA x : x = p))
      avg == [c \in Share |-> IF c[2] \in first .. last THEN used(c[1], c[2]) ELSE 0]
  IN  IF \A c \in Share : avg[c] = 0 THEN None ELSE avg

(* What a synchronisation leaves in every parameter but the ones whose own  *)
(* hook ran the blocking reduction is the average, over the ranks, of all   *)
(* the gradients computed since zero_grad() (all_reduce_bucket, sync_comm). *)
(* Not with a compressor, which drops part of it or sends it in a later     *)
(* step.                                                                    *)
AverageElsewhere ==
  ~scenario.compress =>
    \A r \in Rank : \A n \in DOMAIN synced[r] :
      LET e == synced[r][n]
      IN  \A p \in Param \ e.filled : e.grad[p] = Expected(p, e.first, e.last)

(* The same of every parameter: synchronize_gradients() "divides by         *)
(* world_size to compute the average gradient across all processes"         *)
(* (ddp.hpp).                                                               *)
GradIsAverage ==
  \A r \in Rank : \A n \in DOMAIN synced[r] :
    LET e == synced[r][n]
    IN  \A p \in Param : e.grad[p] = Expected(p, e.first, e.last)

(* No rank waits for ever in a collective: every rank's program ends. *)
EveryRankFinishes == \A r \in Rank : <>Finished(r)

=============================================================================
