--------------------------- MODULE DynamicBatcher ---------------------------
(***************************************************************************)
(* serving::DynamicBatcher: handler threads submit() requests, the batch   *)
(* thread runs batch_loop() and execute_batch(), and an owner calls        *)
(* start() and stop().                                                     *)
(*                                                                         *)
(* A tensor is the sequence of its rows along dim 0.  Of the compiled      *)
(* model, Forward says what the batcher can see.  queue_mutex_ is held by  *)
(* the batch thread in the states of LockHeld; the critical sections of    *)
(* the others are single steps.                                            *)
(***************************************************************************)
EXTENDS Integers, SequencesExt

CONSTANTS Request,       \* requests; a handler thread submits each once
          Scalar,        \* the dim 0 of a rank-0 input
          Inputs,        \* the assignments of inputs to requests explored
          FixedRows,     \* rows the model returns whatever it is given; 0: one per input row
          MaxBatchSize,  \* BatchConfig::max_batch_size
          MaxStarts      \* bound: calls of start()

ASSUME InputsAssumption ==
    /\ Scalar \notin Nat
    /\ Inputs \subseteq [Request -> [dim0 : Nat \cup {Scalar}, form : {"a", "b"}, bad : BOOLEAN]]
ASSUME FixedRowsAssumption == FixedRows \in Nat
ASSUME MaxBatchSizeAssumption == MaxBatchSize \in Nat \ {0}
ASSUME MaxStartsAssumption == MaxStarts \in Nat

VARIABLES
    input,    \* InferRequest::input: dim 0, the rest of its form, and
              \* whether the model throws on it; never written
    client,   \* every handler: "new", "notify" (pushed), "waiting" in future.get()
    result,   \* the state of every request's promise
    queue,    \* queue_
    running,  \* running_
    loop,     \* where the batch thread is; "none" when there is none
    batch,    \* batch: the requests being executed that have no answer yet
    stopper,  \* where stop() is, or "idle"
    starts    \* calls of start() so far

vars == <<input, client, result, queue, running, loop, batch, stopper, starts>>

Pending == [kind |-> "pending", rows |-> <<>>]
Value(x) == [kind |-> "value", rows |-> x]
Error(why) == [kind |-> why, rows |-> <<>>]
Errors == {"own_error", "alloc_error", "stopped", "not_running"}

LockHeld == loop \in {"predicate", "block", "check"}

Init ==
    /\ input \in Inputs
    /\ client = [r \in Request |-> "new"]
    /\ result = [r \in Request |-> Pending]
    /\ queue = <<>>
    /\ running = FALSE
    /\ loop = "none"
    /\ batch = <<>>
    /\ stopper = "idle"
    /\ starts = 0
-----------------------------------------------------------------------------
(* Mutant: running_ is not looked at. *)
MutSubmit(r) ==
    /\ client[r] = "new"
    /\ ~LockHeld
    /\ queue' = Append(queue, r)
    /\ client' = [client EXCEPT ![r] = "notify"]
    /\ UNCHANGED <<input, result, running, loop, batch, stopper, starts>>

(* submit(), up to the end of its critical section. *)
Submit(r) ==
    /\ client[r] = "new"
    /\ ~LockHeld
    /\ \/ /\ ~running
          /\ result' = [result EXCEPT ![r] = Error("not_running")]
          /\ client' = [client EXCEPT ![r] = "waiting"]
          /\ UNCHANGED queue
       \/ /\ running
          /\ queue' = Append(queue, r)
          /\ client' = [client EXCEPT ![r] = "notify"]
          /\ UNCHANGED result
    /\ UNCHANGED <<input, running, loop, batch, stopper, starts>>

(* A notification reaches the batch thread only while it is blocked. *)
Notify == loop' = IF loop = "waiting" THEN "woken" ELSE loop

NotifyOne(r) ==
    /\ client[r] = "notify"
    /\ Notify
    /\ client' = [client EXCEPT ![r] = "waiting"]
    /\ UNCHANGED <<input, result, queue, running, batch, stopper, starts>>
-----------------------------------------------------------------------------
(* batch_loop().  wait_for() tests its predicate with the lock held, and   *)
(* only then releases the lock and blocks: stop() stores running_ and      *)
(* notifies without the lock, so both may fall in between.                 *)
Round(from, to) == loop = from /\ loop' = to

Lock ==
    /\ \/ Round("top", "predicate")
       \/ Round("woken", "predicate")
       \/ Round("timed_out", "check")
    /\ UNCHANGED <<input, client, result, queue, running, batch, stopper, starts>>

TestPredicate ==
    /\ loop = "predicate"
    /\ loop' = IF queue # <<>> \/ ~running THEN "check" ELSE "block"
    /\ UNCHANGED <<input, client, result, queue, running, batch, stopper, starts>>

Block ==
    /\ Round("block", "waiting")
    /\ UNCHANGED <<input, client, result, queue, running, batch, stopper, starts>>

(* Mutant: wait() for wait_for(). *)
MutNoDeadline == Round("waiting", "timed_out") /\ FALSE

Deadline ==
    /\ Round("waiting", "timed_out")
    /\ UNCHANGED <<input, client, result, queue, running, batch, stopper, starts>>

SpuriousWake ==
    /\ Round("waiting", "woken")
    /\ UNCHANGED <<input, client, result, queue, running, batch, stopper, starts>>

Exit ==
    /\ Round("check", "exited")
    /\ ~running /\ queue = <<>>
    /\ UNCHANGED <<input, client, result, queue, running, batch, stopper, starts>>

(* Mutant: the bound is tested after the request is taken. *)
MutTaken == IF Len(queue) <= MaxBatchSize + 1 THEN Len(queue) ELSE MaxBatchSize + 1

(* How many requests one round takes. *)
Taken == IF Len(queue) <= MaxBatchSize THEN Len(queue) ELSE MaxBatchSize

TakeBatch ==
    /\ loop = "check"
    /\ running \/ queue # <<>>
    /\ batch' = SubSeq(queue, 1, Taken)
    /\ queue' = SubSeq(queue, Taken + 1, Len(queue))
    /\ loop' = IF queue = <<>> THEN "top" ELSE "execute"
    /\ UNCHANGED <<input, client, result, running, stopper, starts>>
-----------------------------------------------------------------------------
(* The rows of a request's input. *)
InputRows(r) == IF input[r].dim0 = Scalar THEN <<<<r, 0>>>>
                ELSE [i \in 1 .. input[r].dim0 |-> <<r, i>>]

(* CompiledModule::forward, seen from outside: one output row per input    *)
(* row, or FixedRows rows that each depend on the whole input.             *)
Forward(x) == IF FixedRows = 0 THEN x ELSE [i \in 1 .. FixedRows |-> <<i, x>>]

OwnAnswer(r) == IF input[r].bad THEN Error("own_error") ELSE Value(Forward(InputRows(r)))

(* cat() along dim 0, when there is no scalar and all else agrees. *)
Cat(b) == FlattenSeq([i \in DOMAIN b |-> InputRows(b[i])])
Batchable(b) ==
    /\ \A i \in DOMAIN b : input[b[i]].dim0 # Scalar
    /\ \A i, j \in DOMAIN b : input[b[i]].form = input[b[j]].form

(* Mutant: every request gets one row of the output. *)
MutSplitByOne(b, out, i) == SubSeq(out, i, i)

(* split_with_sizes(): the part of the output that belongs to b[i]. *)
Split(b, out, i) ==
    LET before == Len(Cat(SubSeq(b, 1, i - 1)))
    IN  SubSeq(out, before + 1, before + input[b[i]].dim0)

In(s, r) == \E i \in DOMAIN s : s[i] = r

(* set_value() or set_exception() on every promise of batch. *)
AnswerBatch(ans) ==
    /\ result' = [r \in Request |->
                    IF In(batch, r) THEN ans[CHOOSE i \in DOMAIN batch : batch[i] = r]
                    ELSE result[r]]
    /\ batch' = <<>>
    /\ loop' = "top"

ExecuteSingle ==
    /\ loop = "execute"
    /\ Len(batch) = 1
    /\ AnswerBatch([i \in DOMAIN batch |-> OwnAnswer(batch[i])])
    /\ UNCHANGED <<input, client, queue, running, stopper, starts>>

(* One forward pass for all, the output split by the requests' rows; only  *)
(* if the output has as many rows as the input.                            *)
ExecuteBatched ==
    /\ loop = "execute"
    /\ Len(batch) > 1
    /\ Batchable(batch)
    /\ \A i \in DOMAIN batch : ~input[batch[i]].bad
    /\ LET out == Forward(Cat(batch))
       IN  /\ Len(out) = Len(Cat(batch))
           /\ AnswerBatch([i \in DOMAIN batch |-> Value(Split(batch, out, i))])
    /\ UNCHANGED <<input, client, queue, running, stopper, starts>>

(* The combined attempt is not possible, throws for a request's sake or    *)
(* for a reason of its own, or has the wrong number of rows.               *)
FallBack ==
    /\ Round("execute", "per_request")
    /\ Len(batch) > 1
    /\ UNCHANGED <<input, client, result, queue, running, batch, stopper, starts>>

(* run_per_request: a forward pass of its own for each. *)
RunPerRequest ==
    /\ loop = "per_request"
    /\ result' = [result EXCEPT ![Head(batch)] = OwnAnswer(Head(batch))]
    /\ batch' = Tail(batch)
    /\ loop' = IF Len(batch) = 1 THEN "top" ELSE "per_request"
    /\ UNCHANGED <<input, client, queue, running, stopper, starts>>

(* The last-resort guard: an allocation failed outside the two attempts. *)
LastResort ==
    /\ loop = "execute"
    /\ AnswerBatch([i \in DOMAIN batch |-> Error("alloc_error")])
    /\ UNCHANGED <<input, client, queue, running, stopper, starts>>
-----------------------------------------------------------------------------
(* start() and stop() are the owner's, one at a time. *)
Start ==
    /\ stopper = "idle" /\ loop = "none" /\ starts < MaxStarts
    /\ starts' = starts + 1
    /\ running' = TRUE
    /\ loop' = "top"
    /\ UNCHANGED <<input, client, result, queue, batch, stopper>>

StopStore ==
    /\ stopper = "idle" /\ stopper' = "notify"
    /\ running' = FALSE
    /\ UNCHANGED <<input, client, result, queue, loop, batch, starts>>

StopNotify ==
    /\ stopper = "notify" /\ stopper' = "join"
    /\ Notify
    /\ UNCHANGED <<input, client, result, queue, running, batch, starts>>

Join ==
    /\ stopper = "join" /\ stopper' = "drain"
    /\ loop \in {"none", "exited"}
    /\ loop' = "none"
    /\ UNCHANGED <<input, client, result, queue, running, batch, starts>>

Drain ==
    /\ stopper = "drain" /\ stopper' = "idle"
    /\ ~LockHeld
    /\ result' = [r \in Request |-> IF In(queue, r) THEN Error("stopped") ELSE result[r]]
    /\ queue' = <<>>
    /\ UNCHANGED <<input, client, running, loop, batch, starts>>
-----------------------------------------------------------------------------
Handler == \E r \in Request : Submit(r) \/ NotifyOne(r)

LoopStep == Lock \/ TestPredicate \/ Block \/ Deadline \/ Exit \/ TakeBatch
            \/ ExecuteSingle \/ ExecuteBatched \/ FallBack \/ RunPerRequest \/ LastResort

StopStep == StopNotify \/ Join \/ Drain

Next == Handler \/ LoopStep \/ SpuriousWake \/ Start \/ StopStore \/ StopStep

Spec == Init /\ [][Next]_vars

(* The batch thread runs and the deadline of its wait passes; stop(), once *)
(* called, runs.  Nobody has to submit, notify, start or stop.             *)
FairSpec == Spec /\ WF_vars(LoopStep) /\ WF_vars(StopStep)
-----------------------------------------------------------------------------
(* A batch in hand never exceeds max_batch_size, and the threads are at    *)
(* places the code has (server.cpp 180-184).                               *)
TypeOK ==
    /\ input \in Inputs
    /\ client \in [Request -> {"new", "notify", "waiting"}]
    /\ DOMAIN result = Request
    /\ \A r \in Request : result[r].kind \in {"pending", "value"} \cup Errors
    /\ queue \in Seq(Request)
    /\ running \in BOOLEAN
    /\ loop \in {"none", "top", "predicate", "block", "waiting", "woken", "timed_out",
                 "check", "execute", "per_request", "exited"}
    /\ batch \in Seq(Request) /\ Len(batch) <= MaxBatchSize
    /\ stopper \in {"idle", "notify", "join", "drain"}
    /\ starts \in 0 .. MaxStarts

Waiting(r) == client[r] # "new" /\ result[r] = Pending

(* When stop() has returned, nobody is left in future.get() for an answer  *)
(* that no thread will give, however submit(), the batch loop's last look  *)
(* at the queue and stop() interleaved (server.cpp 117-124, 143-155, 175). *)
NobodyStranded ==
    loop = "none" /\ stopper = "idle" => \A r \in Request : ~Waiting(r)

(* An answer is what the model gives for the request's own input: rows are *)
(* not mixed up between the requests of a batch, and an input the model    *)
(* rejects fails nobody else (server.cpp 249-258, 298-313).                *)
AnswersAreOwn ==
    \A r \in Request : /\ result[r].kind = "value" => result[r] = OwnAnswer(r)
                       /\ result[r].kind = "own_error" => input[r].bad

(* A request accepted by submit() is answered (server.cpp 159-161), and    *)
(* stop() returns, although its notification may get lost between the      *)
(* batch thread's look at running_ and its blocking: the wait has a        *)
(* deadline (server.cpp 138-139, 169-173).                                 *)
EveryCallReturns ==
    /\ \A r \in Request : Waiting(r) ~> ~Waiting(r)
    /\ stopper # "idle" ~> stopper = "idle"

(* The batcher's state as its contract sees it. *)
Outcome(r) ==
    IF client[r] = "new" THEN "new"
    ELSE IF result[r] = Pending THEN "pending"
    ELSE IF result[r].kind = "not_running" THEN "rejected"
    ELSE IF result[r].kind = "value" THEN "value" ELSE "error"
Contract == INSTANCE BatcherContract WITH
    gate <- IF running THEN "open"
            ELSE IF loop = "none" /\ stopper = "idle" THEN "shut" ELSE "closing",
    answer <- [r \in Request |-> Outcome(r)]

(* The batcher, with its lock, waits, batches and fall-backs, implements   *)
(* the contract that handlers and unload rely on (server.cpp 111-338).     *)
ContractSpec == Contract!Spec
=============================================================================
