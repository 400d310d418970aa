------------------------ MODULE DynamicBatcherProofs ------------------------
(***************************************************************************)
(* Proofs about DynamicBatcher, for every set of requests, every           *)
(* assignment of inputs and every max_batch_size: the types are right,     *)
(* stop() strands nobody, the batcher implements its contract, and answers *)
(* are not mixed up between the requests of a batch.                       *)
(***************************************************************************)
EXTENDS DynamicBatcher, SequenceTheorems, WellFoundedInduction, TLAPS

(* No request stands twice in s. *)
Distinct(s) == \A i, j \in DOMAIN s : s[i] = s[j] => i = j

(* Where the requests that wait are: in the queue or in the batch, in one  *)
(* place only.                                                             *)
WaitersAreKept == \A r \in Request : Waiting(r) => In(queue, r) \/ In(batch, r)
KeptAreWaiting == \A r \in Request : In(queue, r) \/ In(batch, r) => Waiting(r)
NewUnanswered == \A r \in Request : client[r] = "new" => result[r] = Pending
KeptOnce ==
    /\ Distinct(queue)
    /\ Distinct(batch)
    /\ \A r \in Request : ~(In(queue, r) /\ In(batch, r))

(* Who may still come for them: a batch only while it is executed, and     *)
(* nothing at all once the batch thread has left its loop.                 *)
Executing == loop \in {"execute", "per_request"}
LoopOwnsBatch == (batch # <<>>) <=> Executing
NothingLeftBehind == loop \in {"none", "exited"} => queue = <<>> /\ ~running
OpenWhileIdle == (running => stopper = "idle") /\ (stopper = "drain" => loop = "none")

IInv ==
    /\ TypeOK
    /\ WaitersAreKept /\ KeptAreWaiting /\ KeptOnce /\ NewUnanswered
    /\ LoopOwnsBatch /\ NothingLeftBehind /\ OpenWhileIdle
-----------------------------------------------------------------------------
(* A request pushed on the queue is the only one added.  (queue_.push) *)
LEMMA AppendIn ==
    ASSUME NEW S, NEW s \in Seq(S), NEW x \in S
    PROVE  /\ Append(s, x) \in Seq(S)
           /\ \A r : In(Append(s, x), r) <=> In(s, r) \/ r = x
           /\ Distinct(s) /\ ~In(s, x) => Distinct(Append(s, x))
<1>. DEFINE t == Append(s, x)
<1>1. t \in Seq(S) /\ DOMAIN t = 1 .. Len(s) + 1 /\ t[Len(s) + 1] = x
      /\ DOMAIN s = 1 .. Len(s) /\ Len(s) \in Nat
  OBVIOUS
<1>2. \A i \in 1 .. Len(s) : t[i] = s[i]
  OBVIOUS
<1>3. ASSUME NEW r PROVE In(t, r) <=> In(s, r) \/ r = x
  BY <1>1, <1>2 DEF In
<1>4. ASSUME Distinct(s), ~In(s, x) PROVE Distinct(t)
  BY <1>1, <1>2, <1>4 DEF In, Distinct
<1>. QED  BY <1>1, <1>3, <1>4

(* The requests drained and the requests left are the queue's, each on one *)
(* side.  (the drain loop of batch_loop)                                   *)
LEMMA SplitIn ==
    ASSUME NEW S, NEW s \in Seq(S), NEW k \in 0 .. Len(s)
    PROVE  LET a == SubSeq(s, 1, k)
               b == SubSeq(s, k + 1, Len(s))
           IN  /\ a \in Seq(S) /\ b \in Seq(S) /\ Len(a) = k
               /\ \A r : In(s, r) <=> In(a, r) \/ In(b, r)
               /\ Distinct(s) => /\ Distinct(a) /\ Distinct(b)
                                 /\ \A r : ~(In(a, r) /\ In(b, r))
<1>. DEFINE a == SubSeq(s, 1, k)
            b == SubSeq(s, k + 1, Len(s))
<1>1. /\ a \in Seq(S) /\ b \in Seq(S)
      /\ DOMAIN s = 1 .. Len(s) /\ Len(s) \in Nat
      /\ Len(a) = k /\ DOMAIN a = 1 .. k
      /\ Len(b) = Len(s) - k /\ DOMAIN b = 1 .. Len(s) - k
  OBVIOUS
<1>2. /\ \A i \in 1 .. k : a[i] = s[i]
      /\ \A i \in 1 .. Len(s) - k : b[i] = s[k + i]
  OBVIOUS
<1>. HIDE DEF a, b
<1>3. \A i \in 1 .. Len(s) : \/ i \in 1 .. k
                             \/ i - k \in 1 .. Len(s) - k /\ i = k + (i - k)
  <2>1. Len(s) \in Nat /\ k \in Nat /\ k <= Len(s)
    BY <1>1
  <2>. QED  BY <2>1
<1>4. ASSUME NEW r PROVE In(s, r) <=> In(a, r) \/ In(b, r)
  <2>1. ASSUME In(s, r) PROVE In(a, r) \/ In(b, r)
    <3>1. PICK i \in 1 .. Len(s) : s[i] = r
      BY <1>1, <2>1 DEF In
    <3>2. CASE i \in 1 .. k
      BY <1>1, <1>2, <3>1, <3>2 DEF In
    <3>3. CASE i \notin 1 .. k
      <4>1. i - k \in DOMAIN b /\ b[i - k] = s[i]
        BY <1>1, <1>2, <1>3, <3>3
      <4>. QED  BY <4>1, <3>1 DEF In
    <3>. QED  BY <3>2, <3>3
  <2>2. ASSUME In(a, r) PROVE In(s, r)
    BY <1>1, <1>2, <2>2 DEF In
  <2>3. ASSUME In(b, r) PROVE In(s, r)
    <3>1. PICK i \in 1 .. Len(s) - k : b[i] = r
      BY <1>1, <2>3 DEF In
    <3>2. k + i \in DOMAIN s /\ s[k + i] = r
      BY <1>1, <1>2, <3>1
    <3>. QED  BY <3>2 DEF In
  <2>. QED  BY <2>1, <2>2, <2>3
<1>5. ASSUME Distinct(s)
      PROVE  Distinct(a) /\ Distinct(b) /\ \A r : ~(In(a, r) /\ In(b, r))
  <2>1. Distinct(a)
    BY <1>1, <1>2, <1>5 DEF Distinct
  <2>2. Distinct(b)
    <3>. SUFFICES ASSUME NEW i \in 1 .. Len(s) - k, NEW j \in 1 .. Len(s) - k, b[i] = b[j]
                  PROVE  i = j
      BY <1>1 DEF Distinct
    <3>1. k + i \in DOMAIN s /\ k + j \in DOMAIN s /\ s[k + i] = s[k + j]
      BY <1>1, <1>2
    <3>2. k + i = k + j
      BY <3>1, <1>5 DEF Distinct
    <3>. QED  BY <3>2
  <2>3. ASSUME NEW r, In(a, r), In(b, r) PROVE FALSE
    <3>1. PICK i \in 1 .. k : a[i] = r
      BY <1>1, <2>3 DEF In
    <3>2. PICK j \in 1 .. Len(s) - k : b[j] = r
      BY <1>1, <2>3 DEF In
    <3>3. i \in DOMAIN s /\ k + j \in DOMAIN s /\ s[i] = s[k + j]
      BY <1>1, <1>2, <3>1, <3>2
    <3>4. i = k + j
      BY <3>3, <1>5 DEF Distinct
    <3>. QED  BY <3>4
  <2>. QED  BY <2>1, <2>2, <2>3
<1>. QED  BY <1>1, <1>4, <1>5 DEF a, b

(* Once the first request of a batch is answered, the others are left.     *)
(* (the loop of run_per_request)                                           *)
LEMMA TailIn ==
    ASSUME NEW S, NEW s \in Seq(S), s # <<>>
    PROVE  /\ Head(s) \in S /\ Tail(s) \in Seq(S) /\ Len(Tail(s)) = Len(s) - 1
           /\ Len(s) \in Nat /\ Len(s) # 0
           /\ (Tail(s) = <<>>) <=> (Len(s) = 1)
           /\ \A r : In(s, r) <=> r = Head(s) \/ In(Tail(s), r)
           /\ Distinct(s) => Distinct(Tail(s)) /\ ~In(Tail(s), Head(s))
<1>. DEFINE t == Tail(s)
<1>1. /\ Head(s) = s[1] /\ Head(s) \in S /\ t \in Seq(S)
      /\ DOMAIN s = 1 .. Len(s) /\ Len(s) \in Nat /\ Len(s) >= 1
      /\ Len(t) = Len(s) - 1 /\ DOMAIN t = 1 .. Len(s) - 1
  OBVIOUS
<1>2. \A i \in 1 .. Len(s) - 1 : t[i] = s[i + 1]
  OBVIOUS
<1>3. (t = <<>>) <=> (Len(s) = 1)
  BY <1>1
<1>4. ASSUME NEW r PROVE In(s, r) <=> r = Head(s) \/ In(t, r)
  <2>1. ASSUME In(s, r), r # Head(s) PROVE In(t, r)
    <3>1. PICK i \in DOMAIN s : s[i] = r
      BY <2>1 DEF In
    <3>2. i - 1 \in DOMAIN t /\ t[i - 1] = r
      BY <1>1, <1>2, <2>1, <3>1
    <3>. QED  BY <3>2 DEF In
  <2>2. ASSUME In(t, r) PROVE In(s, r)
    <3>1. PICK i \in DOMAIN t : t[i] = r
      BY <2>2 DEF In
    <3>2. i + 1 \in DOMAIN s /\ s[i + 1] = r
      BY <1>1, <1>2, <3>1
    <3>. QED  BY <3>2 DEF In
  <2>3. ASSUME r = Head(s) PROVE In(s, r)
    BY <1>1, <2>3 DEF In
  <2>. QED  BY <2>1, <2>2, <2>3
<1>5. ASSUME Distinct(s) PROVE Distinct(t) /\ ~In(t, Head(s))
  <2>1. Distinct(t)
    <3>. SUFFICES ASSUME NEW i \in DOMAIN t, NEW j \in DOMAIN t, t[i] = t[j]
                  PROVE  i = j
      BY DEF Distinct
    <3>1. i + 1 \in DOMAIN s /\ j + 1 \in DOMAIN s /\ s[i + 1] = s[j + 1]
      BY <1>1, <1>2
    <3>2. i + 1 = j + 1
      BY <3>1, <1>5 DEF Distinct
    <3>. QED  BY <3>2, <1>1
  <2>2. ASSUME In(t, Head(s)) PROVE FALSE
    <3>1. PICK i \in DOMAIN t : t[i] = Head(s)
      BY <2>2 DEF In
    <3>2. i + 1 \in DOMAIN s /\ 1 \in DOMAIN s /\ s[i + 1] = s[1] /\ i >= 1
      BY <1>1, <1>2, <3>1
    <3>3. i + 1 = 1
      BY <3>2, <1>5 DEF Distinct
    <3>. QED  BY <3>2, <3>3, <1>1
  <2>. QED  BY <2>1, <2>2
<1>. QED  BY <1>1, <1>3, <1>4, <1>5
-----------------------------------------------------------------------------
(* The facts about waiting requests as one. *)
Bookkeeping == WaitersAreKept /\ KeptAreWaiting /\ KeptOnce /\ NewUnanswered

(* A step that touches neither the promises nor the two containers keeps   *)
(* the books; NotifyOne only moves a handler on to future.get().           *)
LEMMA BooksUntouched ==
    ASSUME Bookkeeping, UNCHANGED <<result, queue, batch>>,
           \A r \in Request : (client[r] = "new") <=> (client'[r] = "new")
    PROVE  Bookkeeping'
<1>1. \A r \in Request : Waiting(r)' <=> Waiting(r)
  BY DEF Waiting, Pending
<1>2. \A r \in Request : /\ In(queue, r)' <=> In(queue, r)
                         /\ In(batch, r)' <=> In(batch, r)
  BY DEF In
<1>3. Distinct(queue)' <=> Distinct(queue)
  BY DEF Distinct
<1>4. Distinct(batch)' <=> Distinct(batch)
  BY DEF Distinct
<1>5. NewUnanswered'
  BY DEF Bookkeeping, NewUnanswered, Pending
<1>. QED  BY <1>1, <1>2, <1>3, <1>4, <1>5
          DEF Bookkeeping, WaitersAreKept, KeptAreWaiting, KeptOnce

(* The initial states satisfy the invariant: nothing is submitted. *)
LEMMA InitIInv == Init => IInv
<1>. SUFFICES ASSUME Init PROVE IInv
  OBVIOUS
<1>1. TypeOK
  <2>1. DOMAIN result = Request /\ \A r \in Request : result[r].kind = "pending"
    BY DEF Init, Pending
  <2>2. queue \in Seq(Request) /\ batch \in Seq(Request) /\ Len(batch) <= MaxBatchSize
    BY MaxBatchSizeAssumption DEF Init
  <2>3. client \in [Request -> {"new", "notify", "waiting"}]
    BY DEF Init
  <2>4. starts \in 0 .. MaxStarts
    BY MaxStartsAssumption DEF Init
  <2>5. running \in BOOLEAN
    BY DEF Init
  <2>. QED  BY <2>1, <2>2, <2>3, <2>4, <2>5 DEF Init, TypeOK
<1>2. \A r \in Request : ~Waiting(r) /\ ~In(queue, r) /\ ~In(batch, r)
  BY DEF Init, Waiting, In
<1>3. Distinct(queue) /\ Distinct(batch)
  BY DEF Init, Distinct
<1>4. WaitersAreKept /\ KeptAreWaiting /\ KeptOnce /\ NewUnanswered
  BY <1>2, <1>3 DEF WaitersAreKept, KeptAreWaiting, KeptOnce, NewUnanswered, Init
<1>5. LoopOwnsBatch /\ NothingLeftBehind /\ OpenWhileIdle
  BY DEF Init, LoopOwnsBatch, Executing, NothingLeftBehind, OpenWhileIdle
<1>. QED  BY <1>1, <1>4, <1>5 DEF IInv

(* The steps of batch_loop() around its wait, and FallBack. *)
LEMMA LoopControlIInv ==
    ASSUME IInv, Lock \/ TestPredicate \/ Block \/ Deadline \/ SpuriousWake \/ Exit \/ FallBack
    PROVE  IInv'
<1>. USE DEF IInv
<1>1. UNCHANGED <<input, client, result, queue, running, batch, stopper, starts>>
  BY DEF Lock, TestPredicate, Block, Deadline, SpuriousWake, Exit, FallBack
<1>2. Bookkeeping'
  BY <1>1, BooksUntouched DEF Bookkeeping
<1>3. TypeOK'
  BY <1>1 DEF TypeOK, Lock, TestPredicate, Block, Deadline, SpuriousWake, Exit, FallBack, Round
<1>4. LoopOwnsBatch'
  BY <1>1 DEF LoopOwnsBatch, Executing, Lock, TestPredicate, Block, Deadline, SpuriousWake,
              Exit, FallBack, Round
<1>5. NothingLeftBehind'
  BY <1>1 DEF NothingLeftBehind, Lock, TestPredicate, Block, Deadline, SpuriousWake,
              Exit, FallBack, Round
<1>6. OpenWhileIdle'
  BY <1>1 DEF OpenWhileIdle, Lock, TestPredicate, Block, Deadline, SpuriousWake, Exit,
              FallBack, Round
<1>. QED  BY <1>2, <1>3, <1>4, <1>5, <1>6 DEF Bookkeeping

(* The calls of the owner up to the join, and the notification of a        *)
(* handler.                                                                *)
LEMMA OwnerIInv ==
    ASSUME IInv, Start \/ StopStore \/ StopNotify \/ Join \/ \E r \in Request : NotifyOne(r)
    PROVE  IInv'
<1>. USE DEF IInv
<1>1. UNCHANGED <<input, result, queue, batch>>
  BY DEF Start, StopStore, StopNotify, Join, NotifyOne
<1>2. \A r \in Request : (client[r] = "new") <=> (client'[r] = "new")
  BY DEF Start, StopStore, StopNotify, Join, NotifyOne, TypeOK
<1>3. Bookkeeping'
  BY <1>1, <1>2, BooksUntouched DEF Bookkeeping
<1>4. TypeOK'
  <2>1. client' \in [Request -> {"new", "notify", "waiting"}]
    BY DEF TypeOK, Start, StopStore, StopNotify, Join, NotifyOne
  <2>2. running' \in BOOLEAN
    BY DEF TypeOK, Start, StopStore, StopNotify, Join, NotifyOne
  <2>3. loop' \in {"none", "top", "predicate", "block", "waiting", "woken", "timed_out",
                   "check", "execute", "per_request", "exited"}
    BY DEF TypeOK, Start, StopStore, StopNotify, Join, NotifyOne, Notify
  <2>4. stopper' \in {"idle", "notify", "join", "drain"}
    BY DEF TypeOK, Start, StopStore, StopNotify, Join, NotifyOne
  <2>5. starts' \in 0 .. MaxStarts
    BY MaxStartsAssumption DEF TypeOK, Start, StopStore, StopNotify, Join, NotifyOne
  <2>. QED  BY <1>1, <2>1, <2>2, <2>3, <2>4, <2>5 DEF TypeOK
<1>5. LoopOwnsBatch'
  BY <1>1 DEF LoopOwnsBatch, Executing, Start, StopStore, StopNotify, Join, NotifyOne, Notify
<1>6. NothingLeftBehind'
  BY <1>1 DEF NothingLeftBehind, Start, StopStore, StopNotify, Join, NotifyOne, Notify
<1>7. OpenWhileIdle'
  BY DEF OpenWhileIdle, Start, StopStore, StopNotify, Join, NotifyOne, Notify
<1>. QED  BY <1>3, <1>4, <1>5, <1>6, <1>7 DEF Bookkeeping

(* submit(): the request is answered at once, or it is new to the queue. *)
LEMMA SubmitIInv ==
    ASSUME IInv, NEW q \in Request, Submit(q)
    PROVE  IInv'
<1>. USE DEF IInv
<1>1. UNCHANGED <<input, running, loop, batch, stopper, starts>> /\ client[q] = "new"
  BY DEF Submit
<1>2. client' \in [Request -> {"new", "notify", "waiting"}] /\ client'[q] # "new"
      /\ \A r \in Request \ {q} : client'[r] = client[r]
  BY DEF Submit, TypeOK
<1>3. ~In(queue, q) /\ ~In(batch, q)
  BY <1>1 DEF KeptAreWaiting, Waiting
<1>4. LoopOwnsBatch' /\ OpenWhileIdle'
  BY <1>1 DEF LoopOwnsBatch, Executing, OpenWhileIdle
<1>5. CASE ~running
  <2>1. UNCHANGED queue /\ result' = [result EXCEPT ![q] = Error("not_running")]
    BY <1>5 DEF Submit
  <2>2. /\ DOMAIN result' = Request
        /\ \A r \in Request \ {q} : result'[r] = result[r]
        /\ result'[q].kind = "not_running"
    BY <2>1 DEF TypeOK, Error
  <2>3. TypeOK'
    BY <1>1, <1>2, <2>1, <2>2 DEF TypeOK, Errors
  <2>4. \A r \in Request : Waiting(r)' <=> Waiting(r)
    BY <1>1, <1>2, <2>2 DEF Waiting, Pending
  <2>5. WaitersAreKept' /\ KeptAreWaiting' /\ NewUnanswered'
    BY <2>2, <2>4, <1>1, <1>2, <2>1
       DEF WaitersAreKept, KeptAreWaiting, NewUnanswered, In, Pending
  <2>6. KeptOnce'
    BY <1>1, <2>1 DEF KeptOnce, In, Distinct
  <2>7. NothingLeftBehind'
    BY <1>1, <2>1 DEF NothingLeftBehind
  <2>. QED  BY <1>4, <2>3, <2>5, <2>6, <2>7
<1>6. CASE running
  <2>1. UNCHANGED result /\ queue' = Append(queue, q)
    BY <1>6 DEF Submit
  <2>2. /\ queue' \in Seq(Request)
        /\ \A r : In(queue, r)' <=> In(queue, r) \/ r = q
        /\ Distinct(queue)'
    <3>1. queue \in Seq(Request) /\ Distinct(queue)
      BY DEF TypeOK, KeptOnce
    <3>2. /\ Append(queue, q) \in Seq(Request)
          /\ \A r : In(Append(queue, q), r) <=> In(queue, r) \/ r = q
          /\ Distinct(Append(queue, q))
      BY <3>1, <1>3, AppendIn
    <3>3. \A r : In(queue, r)' <=> In(Append(queue, q), r)
      BY <2>1 DEF In
    <3>4. Distinct(queue)' <=> Distinct(Append(queue, q))
      BY <2>1 DEF Distinct
    <3>. QED  BY <2>1, <3>2, <3>3, <3>4
  <2>3. TypeOK'
    BY <1>1, <1>2, <2>1, <2>2 DEF TypeOK
  <2>4. \A r \in Request : Waiting(r)' <=> Waiting(r) \/ r = q
    BY <1>1, <1>2, <2>1 DEF Waiting, Pending, NewUnanswered
  <2>5. WaitersAreKept' /\ KeptAreWaiting' /\ NewUnanswered'
    <3>1. \A r : In(batch, r)' <=> In(batch, r)
      BY <1>1 DEF In
    <3>2. NewUnanswered'
      BY <1>2, <2>1 DEF NewUnanswered, Pending
    <3>. QED  BY <2>2, <2>4, <3>1, <3>2 DEF WaitersAreKept, KeptAreWaiting
  <2>6. KeptOnce'
    <3>1. \A r : In(batch, r)' <=> In(batch, r)
      BY <1>1 DEF In
    <3>2. Distinct(batch)'
      BY <1>1 DEF KeptOnce, Distinct
    <3>. QED  BY <2>2, <3>1, <3>2, <1>3 DEF KeptOnce
  <2>7. NothingLeftBehind'
    BY <1>1, <1>6 DEF NothingLeftBehind
  <2>. QED  BY <1>4, <2>3, <2>5, <2>6, <2>7
<1>. QED  BY <1>5, <1>6 DEF TypeOK

(* batch_loop() drains up to max_batch_size requests. *)
LEMMA TakeBatchIInv ==
    ASSUME IInv, TakeBatch
    PROVE  IInv'
<1>. USE DEF IInv
<1>1. /\ UNCHANGED <<input, client, result, running, stopper, starts>>
      /\ loop = "check" /\ batch = <<>>
      /\ batch' = SubSeq(queue, 1, Taken) /\ queue' = SubSeq(queue, Taken + 1, Len(queue))
      /\ loop' = IF queue = <<>> THEN "top" ELSE "execute"
  BY DEF TakeBatch, LoopOwnsBatch, Executing
<1>2. /\ queue \in Seq(Request) /\ Len(queue) \in Nat
      /\ Taken \in 0 .. Len(queue) /\ Taken <= MaxBatchSize
      /\ (Taken = 0) <=> (queue = <<>>)
  BY MaxBatchSizeAssumption DEF TypeOK, Taken
<1>. DEFINE a == SubSeq(queue, 1, Taken)
            b == SubSeq(queue, Taken + 1, Len(queue))
<1>3. /\ a \in Seq(Request) /\ b \in Seq(Request) /\ Len(a) = Taken
      /\ \A r : In(queue, r) <=> In(a, r) \/ In(b, r)
      /\ Distinct(a) /\ Distinct(b)
      /\ \A r : ~(In(a, r) /\ In(b, r))
  BY <1>2, SplitIn DEF KeptOnce
<1>4. /\ \A r : In(batch, r)' <=> In(a, r)
      /\ \A r : In(queue, r)' <=> In(b, r)
      /\ Distinct(batch)' <=> Distinct(a)
      /\ Distinct(queue)' <=> Distinct(b)
  BY <1>1 DEF In, Distinct
<1>5. \A r : ~In(batch, r)
  BY <1>1 DEF In
<1>6. \A r \in Request : Waiting(r)' <=> Waiting(r)
  BY <1>1 DEF Waiting, Pending
<1>. HIDE DEF a, b
<1>7. WaitersAreKept' /\ KeptAreWaiting'
  BY <1>3, <1>4, <1>5, <1>6 DEF WaitersAreKept, KeptAreWaiting
<1>8. KeptOnce'
  BY <1>3, <1>4 DEF KeptOnce
<1>9. NewUnanswered' /\ OpenWhileIdle'
  BY <1>1 DEF NewUnanswered, Pending, OpenWhileIdle
<1>10. NothingLeftBehind'
  BY <1>1 DEF NothingLeftBehind
<1>11. LoopOwnsBatch'
  <2>1. batch' = a
    BY <1>1 DEF a
  <2>2. (a = <<>>) <=> (Taken = 0)
    BY <1>2, <1>3
  <2>3. (batch' = <<>>) <=> (queue = <<>>)
    BY <1>2, <2>1, <2>2
  <2>. QED  BY <1>1, <2>3 DEF LoopOwnsBatch, Executing
<1>12. TypeOK'
  BY <1>1, <1>2, <1>3 DEF TypeOK, a, b
<1>. QED  BY <1>7, <1>8, <1>9, <1>10, <1>11, <1>12

(* Every request of the batch gets its answer, and nobody else does. *)
LEMMA AnswerBatchResult ==
    ASSUME TypeOK, NEW ans, AnswerBatch(ans), NEW K,
           \A i \in DOMAIN batch : ans[i].kind \in K
    PROVE  /\ DOMAIN result' = Request
           /\ \A r \in Request : /\ In(batch, r) => result'[r].kind \in K
                                 /\ ~In(batch, r) => result'[r] = result[r]
<1>1. \A r : In(batch, r) => (CHOOSE i \in DOMAIN batch : batch[i] = r) \in DOMAIN batch
  BY Zenon DEF In
<1>2. result' = [r \in Request |->
                    IF In(batch, r) THEN ans[CHOOSE i \in DOMAIN batch : batch[i] = r]
                    ELSE result[r]]
  BY DEF AnswerBatch
<1>3. ASSUME NEW r \in Request, In(batch, r) PROVE result'[r].kind \in K
  <2>. DEFINE i == CHOOSE i \in DOMAIN batch : batch[i] = r
  <2>1. i \in DOMAIN batch
    BY <1>1, <1>3
  <2>2. result'[r] = ans[i]
    BY <1>2, <1>3
  <2>. HIDE DEF i
  <2>. QED  BY <2>1, <2>2
<1>4. ASSUME NEW r \in Request, ~In(batch, r) PROVE result'[r] = result[r]
  BY <1>2, <1>4
<1>. QED  BY <1>2, <1>3, <1>4

(* The kinds of a model's answer to one request, and of a settled promise. *)
LEMMA OwnAnswerKind ==
    ASSUME NEW r PROVE OwnAnswer(r).kind \in {"value", "own_error"}
BY DEF OwnAnswer, Value, Error

Settled == {"value", "own_error", "alloc_error"}

(* execute_batch() where it answers the whole batch at once. *)
LEMMA ExecuteResult ==
    ASSUME TypeOK, ExecuteSingle \/ ExecuteBatched \/ LastResort
    PROVE  /\ DOMAIN result' = Request
           /\ \A r \in Request : /\ In(batch, r) => result'[r].kind \in Settled
                                 /\ ~In(batch, r) => result'[r] = result[r]
<1>1. CASE ExecuteSingle
  <2>. DEFINE ans == [i \in DOMAIN batch |-> OwnAnswer(batch[i])]
  <2>1. AnswerBatch(ans)
    BY <1>1 DEF ExecuteSingle
  <2>2. \A i \in DOMAIN batch : ans[i].kind \in Settled
    BY OwnAnswerKind DEF Settled
  <2>. QED  BY <2>1, <2>2, AnswerBatchResult
<1>2. CASE ExecuteBatched
  <2>. DEFINE out == Forward(Cat(batch))
              ans == [i \in DOMAIN batch |-> Value(Split(batch, out, i))]
  <2>1. AnswerBatch(ans)
    BY <1>2 DEF ExecuteBatched
  <2>2. \A i \in DOMAIN batch : ans[i].kind \in Settled
    BY DEF Value, Settled
  <2>. QED  BY <2>1, <2>2, AnswerBatchResult
<1>3. CASE LastResort
  <2>. DEFINE ans == [i \in DOMAIN batch |-> Error("alloc_error")]
  <2>1. AnswerBatch(ans)
    BY <1>3 DEF LastResort
  <2>2. \A i \in DOMAIN batch : ans[i].kind \in Settled
    BY DEF Error, Settled
  <2>. QED  BY <2>1, <2>2, AnswerBatchResult
<1>. QED  BY <1>1, <1>2, <1>3

(* Those steps keep the invariant. *)
LEMMA ExecuteIInv ==
    ASSUME IInv, ExecuteSingle \/ ExecuteBatched \/ LastResort
    PROVE  IInv'
<1>. USE DEF IInv
<1>1. /\ UNCHANGED <<input, client, queue, running, stopper, starts>>
      /\ batch' = <<>> /\ loop' = "top"
      /\ loop = "execute"
  BY DEF ExecuteSingle, ExecuteBatched, LastResort, AnswerBatch
<1>2. /\ DOMAIN result' = Request
      /\ \A r \in Request : /\ In(batch, r) => result'[r].kind \in Settled
                            /\ ~In(batch, r) => result'[r] = result[r]
  BY ExecuteResult
<1>3. TypeOK'
  <2>1. ASSUME NEW r \in Request
        PROVE  result'[r].kind \in {"pending", "value"} \cup Errors
    <3>1. CASE In(batch, r)
      BY <1>2, <3>1 DEF Errors, Settled
    <3>2. CASE ~In(batch, r)
      BY <1>2, <3>2 DEF TypeOK
    <3>. QED  BY <3>1, <3>2
  <2>2. batch' \in Seq(Request) /\ Len(batch') <= MaxBatchSize
    BY <1>1, MaxBatchSizeAssumption
  <2>. QED  BY <1>1, <1>2, <2>1, <2>2 DEF TypeOK
<1>4. ASSUME NEW r \in Request PROVE Waiting(r)' <=> Waiting(r) /\ ~In(batch, r)
  <2>1. CASE In(batch, r)
    <3>1. result'[r] # Pending
      BY <1>2, <2>1 DEF Pending, Settled
    <3>. QED  BY <2>1, <3>1 DEF Waiting, Pending
  <2>2. CASE ~In(batch, r)
    BY <1>1, <1>2, <2>2 DEF Waiting, Pending
  <2>. QED  BY <2>1, <2>2
<1>5. \A r : ~In(batch, r)' /\ (In(queue, r)' <=> In(queue, r))
  BY <1>1 DEF In
<1>6. WaitersAreKept' /\ KeptAreWaiting'
  BY <1>4, <1>5 DEF WaitersAreKept, KeptAreWaiting, KeptOnce
<1>7. KeptOnce'
  BY <1>1, <1>5 DEF KeptOnce, Distinct
<1>8. NewUnanswered'
  <2>1. \A r \in Request : client[r] = "new" => ~In(batch, r)
    BY DEF KeptAreWaiting, Waiting
  <2>. QED  BY <1>1, <1>2, <2>1 DEF NewUnanswered, Pending
<1>9. LoopOwnsBatch' /\ NothingLeftBehind' /\ OpenWhileIdle'
  BY <1>1 DEF LoopOwnsBatch, Executing, NothingLeftBehind, OpenWhileIdle
<1>. QED  BY <1>3, <1>6, <1>7, <1>8, <1>9

(* run_per_request answers the first request of the batch that is left. *)
LEMMA RunPerRequestIInv ==
    ASSUME IInv, RunPerRequest
    PROVE  IInv' /\ In(batch, Head(batch)) /\ Head(batch) \in Request
           /\ result'[Head(batch)].kind \in Settled
<1>. USE DEF IInv
<1>. DEFINE h == Head(batch)
<1>1. /\ UNCHANGED <<input, client, queue, running, stopper, starts>>
      /\ loop = "per_request" /\ batch # <<>>
      /\ result' = [result EXCEPT ![h] = OwnAnswer(h)]
      /\ batch' = Tail(batch)
      /\ loop' = IF Len(batch) = 1 THEN "top" ELSE "per_request"
  BY DEF RunPerRequest, LoopOwnsBatch, Executing
<1>2. batch \in Seq(Request) /\ Distinct(batch) /\ Len(batch) <= MaxBatchSize
  BY DEF TypeOK, KeptOnce
<1>3. /\ h \in Request /\ Tail(batch) \in Seq(Request) /\ Len(Tail(batch)) = Len(batch) - 1
      /\ Len(batch) \in Nat /\ Len(batch) # 0
      /\ (Tail(batch) = <<>>) <=> (Len(batch) = 1)
      /\ \A r : In(batch, r) <=> r = h \/ In(Tail(batch), r)
      /\ Distinct(Tail(batch)) /\ ~In(Tail(batch), h)
  BY <1>1, <1>2, TailIn
<1>4. /\ \A r : In(batch, r)' <=> In(Tail(batch), r)
      /\ \A r : In(queue, r)' <=> In(queue, r)
      /\ Distinct(batch)' <=> Distinct(Tail(batch))
      /\ Distinct(queue)' <=> Distinct(queue)
  BY <1>1 DEF In, Distinct
<1>. HIDE DEF h
<1>5. /\ DOMAIN result' = Request /\ result'[h].kind \in {"value", "own_error"}
      /\ \A r \in Request \ {h} : result'[r] = result[r]
  BY <1>1, <1>3, OwnAnswerKind DEF TypeOK
<1>6. TypeOK'
  <2>1. \A r \in Request : result'[r].kind \in {"pending", "value"} \cup Errors
    BY <1>5 DEF TypeOK, Errors
  <2>2. batch' \in Seq(Request) /\ Len(batch') <= MaxBatchSize
    BY <1>1, <1>2, <1>3, MaxBatchSizeAssumption
  <2>. QED  BY <1>1, <1>5, <2>1, <2>2 DEF TypeOK
<1>7. \A r \in Request : Waiting(r)' <=> Waiting(r) /\ r # h
  BY <1>1, <1>5 DEF Waiting, Pending
<1>8. WaitersAreKept' /\ KeptAreWaiting'
  BY <1>3, <1>4, <1>7 DEF WaitersAreKept, KeptAreWaiting, KeptOnce
<1>9. KeptOnce'
  BY <1>3, <1>4 DEF KeptOnce
<1>10. NewUnanswered'
  BY <1>1, <1>3, <1>5 DEF NewUnanswered, KeptAreWaiting, Waiting, Pending
<1>11. LoopOwnsBatch' /\ NothingLeftBehind' /\ OpenWhileIdle'
  BY <1>1, <1>3 DEF LoopOwnsBatch, Executing, NothingLeftBehind, OpenWhileIdle
<1>. QED  BY <1>3, <1>5, <1>6, <1>8, <1>9, <1>10, <1>11 DEF h, Settled

(* stop() after the join: the queue is already empty. *)
LEMMA DrainIInv ==
    ASSUME IInv, Drain
    PROVE  IInv' /\ loop = "none" /\ (\A r \in Request : ~Waiting(r) /\ result'[r] = result[r])
<1>. USE DEF IInv
<1>1. /\ UNCHANGED <<input, client, running, loop, batch, starts>>
      /\ loop = "none" /\ queue = <<>> /\ queue' = <<>> /\ batch = <<>> /\ ~running
      /\ stopper' = "idle"
  BY DEF Drain, OpenWhileIdle, NothingLeftBehind, LoopOwnsBatch, Executing
<1>2. \A r : ~In(queue, r) /\ ~In(batch, r)
  BY <1>1 DEF In
<1>3. DOMAIN result' = Request /\ \A r \in Request : result'[r] = result[r]
  BY <1>2 DEF Drain
<1>4. \A r \in Request : ~Waiting(r) /\ ~Waiting(r)'
  BY <1>1, <1>2, <1>3 DEF WaitersAreKept, Waiting, Pending
<1>5. \A r : ~In(queue, r)' /\ ~In(batch, r)'
  BY <1>1 DEF In
<1>6. WaitersAreKept' /\ KeptAreWaiting'
  BY <1>4, <1>5 DEF WaitersAreKept, KeptAreWaiting
<1>7. KeptOnce'
  BY <1>1, <1>5 DEF KeptOnce, Distinct
<1>8. NewUnanswered'
  BY <1>1, <1>3 DEF NewUnanswered, Pending
<1>9. LoopOwnsBatch' /\ NothingLeftBehind' /\ OpenWhileIdle'
  BY <1>1 DEF LoopOwnsBatch, Executing, NothingLeftBehind, OpenWhileIdle
<1>10. TypeOK'
  BY <1>1, <1>3 DEF TypeOK
<1>. QED  BY <1>1, <1>3, <1>4, <1>6, <1>7, <1>8, <1>9, <1>10

(* Every step of the batcher keeps the invariant. *)
LEMMA StepIInv ==
    ASSUME IInv, [Next]_vars
    PROVE  IInv'
<1>1. CASE Handler
  <2>1. CASE \E r \in Request : Submit(r)
    BY <2>1, SubmitIInv
  <2>2. CASE \E r \in Request : NotifyOne(r)
    BY <2>2, OwnerIInv
  <2>. QED  BY <1>1, <2>1, <2>2 DEF Handler
<1>2. CASE LoopStep
  <2>1. CASE Lock \/ TestPredicate \/ Block \/ Deadline \/ Exit \/ FallBack
    BY <2>1, LoopControlIInv
  <2>2. CASE TakeBatch
    BY <2>2, TakeBatchIInv
  <2>3. CASE ExecuteSingle \/ ExecuteBatched \/ LastResort
    BY <2>3, ExecuteIInv
  <2>4. CASE RunPerRequest
    BY <2>4, RunPerRequestIInv
  <2>. QED  BY <1>2, <2>1, <2>2, <2>3, <2>4 DEF LoopStep
<1>3. CASE SpuriousWake
  BY <1>3, LoopControlIInv
<1>4. CASE Start \/ StopStore \/ StopNotify \/ Join
  BY <1>4, OwnerIInv
<1>5. CASE Drain
  BY <1>5, DrainIInv
<1>6. CASE UNCHANGED vars
  <2>1. Bookkeeping'
    BY <1>6, BooksUntouched DEF IInv, Bookkeeping, vars
  <2>2. TypeOK'
    BY <1>6 DEF IInv, TypeOK, vars
  <2>3. LoopOwnsBatch' /\ NothingLeftBehind' /\ OpenWhileIdle'
    BY <1>6 DEF IInv, vars, LoopOwnsBatch, Executing, NothingLeftBehind, OpenWhileIdle
  <2>. QED  BY <2>1, <2>2, <2>3 DEF IInv, Bookkeeping
<1>. QED  BY <1>1, <1>2, <1>3, <1>4, <1>5, <1>6 DEF Next, StopStep

(* The invariant holds throughout. *)
THEOREM Invariant == Spec => []IInv
<1>1. Init => IInv
  BY InitIInv
<1>2. IInv /\ [Next]_vars => IInv'
  BY StepIInv
<1>. QED  BY <1>1, <1>2, PTL DEF Spec

(* Every variable of the batcher keeps its type; a batch never holds more  *)
(* than max_batch_size requests.                                           *)
THEOREM TypeCorrect == Spec => []TypeOK
<1>1. IInv => TypeOK
  BY DEF IInv
<1>. QED  BY Invariant, <1>1, PTL

(* When stop() has returned, no handler waits for an answer that nobody    *)
(* will give.                                                              *)
THEOREM NoneStranded == Spec => []NobodyStranded
<1>1. IInv => NobodyStranded
  <2>. SUFFICES ASSUME IInv, loop = "none" PROVE \A r \in Request : ~Waiting(r)
    BY DEF NobodyStranded
  <2>1. queue = <<>> /\ batch = <<>>
    BY DEF IInv, NothingLeftBehind, LoopOwnsBatch, Executing
  <2>2. \A r : ~In(queue, r) /\ ~In(batch, r)
    BY <2>1 DEF In
  <2>. QED  BY <2>2 DEF IInv, WaitersAreKept
<1>. QED  BY Invariant, <1>1, PTL
-----------------------------------------------------------------------------
(* The refinement mapping of the contract. *)
Gate == IF running THEN "open"
        ELSE IF loop = "none" /\ stopper = "idle" THEN "shut" ELSE "closing"
Answers == [r \in Request |-> Outcome(r)]

(* The outcome of a request, by cases. *)
LEMMA OutcomeCases ==
    ASSUME NEW r
    PROVE  /\ client[r] = "new" => Outcome(r) = "new"
           /\ Waiting(r) => Outcome(r) = "pending"
           /\ client[r] # "new" /\ result[r].kind = "not_running" => Outcome(r) = "rejected"
           /\ client[r] # "new" /\ result[r].kind \in Settled => Outcome(r) \in {"value", "error"}
           /\ Outcome(r) = "pending" => Waiting(r)
BY DEF Outcome, Waiting, Pending, Settled

(* A step that answers exactly the requests of S, all of them waiting, is  *)
(* an Answer step of the contract.                                         *)
LEMMA AnswerStep ==
    ASSUME NEW S \in SUBSET Request, UNCHANGED client, Gate' = Gate,
           \A r \in S : Waiting(r) /\ result'[r].kind \in Settled,
           \A r \in Request \ S : result'[r] = result[r]
    PROVE  Contract!Next
<1>1. \A r \in S : Outcome(r) = "pending" /\ Outcome(r)' \in {"value", "error"}
  <2>. SUFFICES ASSUME NEW r \in S
                PROVE  Outcome(r) = "pending" /\ Outcome(r)' \in {"value", "error"}
    OBVIOUS
  <2>1. Outcome(r) = "pending"
    BY OutcomeCases
  <2>2. client'[r] # "new" /\ result'[r].kind \in Settled
    BY DEF Waiting
  <2>3. Outcome(r)' \in {"value", "error"}
    BY <2>2 DEF Outcome, Pending, Settled
  <2>. QED  BY <2>1, <2>3
<1>2. \A r \in Request \ S : Outcome(r)' = Outcome(r)
  BY DEF Outcome, Pending
<1>. DEFINE a == [r \in S |-> Outcome(r)']
<1>3. a \in [S -> {"value", "error"}]
  BY <1>1
<1>4. Answers' = [r \in Request |-> IF r \in S THEN a[r] ELSE Answers[r]]
  BY <1>1, <1>2 DEF Answers
<1>5. \A r \in S : Answers[r] = "pending"
  BY <1>1 DEF Answers
<1>6. Contract!Answer(S)
  BY <1>3, <1>4, <1>5 DEF Contract!Answer, Answers, Gate
<1>. QED  BY <1>6 DEF Contract!Next

(* A step that leaves the gate and the outcomes alone is a stutter. *)
LEMMA StutterStep ==
    ASSUME Gate' = Gate, UNCHANGED result,
           \A r \in Request : (client[r] = "new") <=> (client'[r] = "new")
    PROVE  UNCHANGED Contract!vars
<1>1. \A r \in Request : Outcome(r)' = Outcome(r)
  BY DEF Outcome, Pending
<1>. QED  BY <1>1 DEF Contract!vars, Gate

(* Initially the gate is shut and every request is new. *)
LEMMA ContractInit == Init => Contract!Init
BY DEF Init, Contract!Init, Outcome

(* Every step of the batcher is a step of the contract or a stutter. *)
LEMMA ContractStep ==
    ASSUME IInv, [Next]_vars
    PROVE  [Contract!Next]_(Contract!vars)
<1>. USE DEF IInv
<1>1. ASSUME NEW q \in Request, Submit(q) PROVE Contract!Next
  <2>1. Gate' = Gate /\ client[q] = "new" /\ client'[q] # "new"
        /\ (\A r \in Request \ {q} : client'[r] = client[r] /\ result'[r] = result[r])
    BY <1>1 DEF Submit, Gate, TypeOK
  <2>2. Outcome(q) = "new" /\ \A r \in Request \ {q} : Outcome(r)' = Outcome(r)
    BY <2>1 DEF Outcome, Pending
  <2>3. Outcome(q)' = IF Gate = "open" THEN "pending" ELSE "rejected"
    <3>1. CASE running
      <4>1. result'[q] = Pending
        BY <1>1, <2>1, <3>1 DEF Submit, NewUnanswered
      <4>. QED  BY <2>1, <3>1, <4>1 DEF Outcome, Gate, Pending
    <3>2. CASE ~running
      <4>1. result'[q] = Error("not_running")
        BY <1>1, <3>2 DEF Submit, TypeOK
      <4>. QED  BY <2>1, <3>2, <4>1 DEF Outcome, Gate, Pending, Error
    <3>. QED  BY <3>1, <3>2
  <2>4. Answers' = [Answers EXCEPT ![q] = IF Gate = "open" THEN "pending" ELSE "rejected"]
    BY <2>2, <2>3 DEF Answers
  <2>5. Contract!Submit(q)
    BY <2>1, <2>2, <2>4 DEF Contract!Submit, Answers, Gate
  <2>. QED  BY <2>5 DEF Contract!Next
<1>2. ASSUME NEW q \in Request, NotifyOne(q) PROVE UNCHANGED Contract!vars
  <2>1. UNCHANGED result /\ \A r \in Request : (client[r] = "new") <=> (client'[r] = "new")
    BY <1>2 DEF NotifyOne, TypeOK
  <2>2. Gate' = Gate
    BY <1>2 DEF NotifyOne, Notify, Gate
  <2>. QED  BY <2>1, <2>2, StutterStep
<1>3. ASSUME Lock \/ TestPredicate \/ Block \/ Deadline \/ SpuriousWake \/ Exit \/ FallBack
             \/ TakeBatch
      PROVE  UNCHANGED Contract!vars
  <2>1. UNCHANGED <<result, client, running, stopper>>
    BY <1>3 DEF Lock, TestPredicate, Block, Deadline, SpuriousWake, Exit, FallBack, TakeBatch
  <2>2. loop # "none" /\ loop' # "none"
    BY <1>3 DEF Lock, TestPredicate, Block, Deadline, SpuriousWake, Exit, FallBack, TakeBatch,
                Round
  <2>. QED  BY <2>1, <2>2, StutterStep DEF Gate
<1>4. ASSUME ExecuteSingle \/ ExecuteBatched \/ LastResort PROVE Contract!Next
  <2>. DEFINE S == {r \in Request : In(batch, r)}
  <2>1. UNCHANGED client /\ Gate' = Gate
    BY <1>4 DEF ExecuteSingle, ExecuteBatched, LastResort, AnswerBatch, Gate
  <2>2. \A r \in S : Waiting(r) /\ result'[r].kind \in Settled
    BY <1>4, ExecuteResult DEF KeptAreWaiting
  <2>3. \A r \in Request \ S : result'[r] = result[r]
    BY <1>4, ExecuteResult
  <2>. QED  BY <2>1, <2>2, <2>3, AnswerStep
<1>5. ASSUME RunPerRequest PROVE Contract!Next
  <2>. DEFINE h == Head(batch)
  <2>1. /\ In(batch, h) /\ h \in Request /\ result'[h].kind \in Settled
    BY <1>5, RunPerRequestIInv
  <2>2. UNCHANGED client /\ Gate' = Gate
    BY <1>5 DEF RunPerRequest, Gate
  <2>3. Waiting(h) /\ \A r \in Request \ {h} : result'[r] = result[r]
    BY <1>5, <2>1 DEF RunPerRequest, KeptAreWaiting, TypeOK
  <2>. HIDE DEF h
  <2>4. /\ {h} \in SUBSET Request
        /\ \A r \in {h} : Waiting(r) /\ result'[r].kind \in Settled
    BY <2>1, <2>3
  <2>. QED  BY <2>2, <2>3, <2>4, AnswerStep
<1>6. ASSUME Start PROVE Contract!Next
  <2>1. Gate = "shut" /\ Gate' = "open"
    BY <1>6 DEF Start, Gate, NothingLeftBehind
  <2>2. Answers' = Answers
    BY <1>6 DEF Start, Answers, Outcome, Pending
  <2>3. Contract!Open
    BY <2>1, <2>2 DEF Contract!Open, Gate, Answers
  <2>. QED  BY <2>3 DEF Contract!Next
<1>7. ASSUME StopStore PROVE Contract!Next
  <2>1. Gate' = "closing"
    BY <1>7 DEF StopStore, Gate
  <2>2. Answers' = Answers
    BY <1>7 DEF StopStore, Answers, Outcome, Pending
  <2>3. Contract!Close
    BY <2>1, <2>2 DEF Contract!Close, Gate, Answers
  <2>. QED  BY <2>3 DEF Contract!Next
<1>8. ASSUME StopNotify \/ Join PROVE UNCHANGED Contract!vars
  <2>1. UNCHANGED <<result, client>>
    BY <1>8 DEF StopNotify, Join
  <2>2. Gate = "closing" /\ Gate' = "closing"
    BY <1>8 DEF StopNotify, Join, Gate, OpenWhileIdle
  <2>. QED  BY <2>1, <2>2, StutterStep
<1>9. ASSUME Drain PROVE Contract!Next
  <2>1. loop = "none" /\ \A r \in Request : ~Waiting(r) /\ result'[r] = result[r]
    BY <1>9, DrainIInv
  <2>2. Gate = "closing" /\ Gate' = "shut"
    BY <1>9, <2>1 DEF Drain, Gate, OpenWhileIdle
  <2>3. Answers' = Answers
    BY <1>9, <2>1 DEF Drain, Answers, Outcome, Pending
  <2>4. \A r \in Request : Answers[r] # "pending"
    BY <2>1, OutcomeCases DEF Answers
  <2>5. Contract!Shut
    BY <2>2, <2>3, <2>4 DEF Contract!Shut, Gate, Answers
  <2>. QED  BY <2>5 DEF Contract!Next
<1>10. ASSUME UNCHANGED vars PROVE UNCHANGED Contract!vars
  BY <1>10, StutterStep DEF vars, Gate
<1>. QED
  BY <1>1, <1>2, <1>3, <1>4, <1>5, <1>6, <1>7, <1>8, <1>9, <1>10
     DEF Next, Handler, LoopStep, StopStep

(* DynamicBatcher implements its contract: a request accepted is answered  *)
(* at most once, none is accepted after stop(), and stop() returns only    *)
(* when nobody waits.                                                      *)
THEOREM ImplementsContract == Spec => ContractSpec
<1>1. Init => Contract!Init
  BY ContractInit
<1>2. IInv /\ [Next]_vars => [Contract!Next]_(Contract!vars)
  BY ContractStep
<1>. QED  BY Invariant, <1>1, <1>2, PTL DEF Spec, ContractSpec, Contract!Spec
-----------------------------------------------------------------------------
(***************************************************************************)
(* Whose rows are whose.  FlattenSeq is a recursive function; what it      *)
(* computes needs induction, which the library's theorems do not give here *)
(* (they take an operator), but the least-number principle does.           *)
(***************************************************************************)
(* A non-empty set of natural numbers has a least member. *)
LEMMA LeastNat ==
    ASSUME NEW T, T \subseteq Nat, T # {}
    PROVE  \E x \in T : \A y \in T : x <= y
<1>. DEFINE R == OpToRel(<, Nat)
<1>1. \E x \in T : \A y \in T : ~ (<<y, x>> \in R)
  <2>1. IsWellFoundedOn(R, Nat)
    BY NatLessThanWellFounded, Zenon
  <2>. QED  BY <2>1, WFMin, Zenon
<1>2. PICK x \in T : \A y \in T : ~ (<<y, x>> \in R)
  BY <1>1
<1>3. ASSUME NEW y \in T PROVE x <= y
  <2>1. y \in Nat /\ x \in Nat
    OBVIOUS
  <2>2. ~ (y < x)
    BY <1>2, <2>1 DEF OpToRel
  <2>. QED  BY <2>1, <2>2
<1>. QED  BY <1>3

(* Induction: a set with 0 and the successor of each of its numbers has    *)
(* all of Nat.                                                             *)
LEMMA Induct ==
    ASSUME NEW S, 0 \in S, \A n \in Nat : n \in S => n + 1 \in S
    PROVE  Nat \subseteq S
<1>. SUFFICES ASSUME Nat \ S # {} PROVE FALSE
  OBVIOUS
<1>1. PICK x \in Nat \ S : \A y \in Nat \ S : x <= y
  <2>1. (Nat \ S) \subseteq Nat
    OBVIOUS
  <2>. QED  BY <2>1, LeastNat, Zenon
<1>2. x # 0 /\ x \in Nat
  OBVIOUS
<1>3. x - 1 \in Nat /\ x - 1 < x /\ (x - 1) + 1 = x
  BY <1>2
<1>4. x - 1 \in S
  BY <1>1, <1>3
<1>. QED  BY <1>3, <1>4

(* The recursion FlattenSeq is defined by: g[i] is the first i sequences   *)
(* of ss, one after the other.                                             *)
IsFlat(ss, g) ==
    g = [i \in 1 .. Len(ss) |-> IF i = 1 THEN ss[i] ELSE g[i - 1] \o ss[i]]
Flat(ss) == CHOOSE g : IsFlat(ss, g)

(* FlattenSeq is the last of them. *)
LEMMA FlattenIsFlat ==
    ASSUME NEW ss
    PROVE  FlattenSeq(ss) = IF Len(ss) = 0 THEN ss ELSE Flat(ss)[Len(ss)]
BY DEF FlattenSeq, Flat, IsFlat

(* It has a solution, ... *)
LEMMA FlatExists ==
    ASSUME NEW ss, Len(ss) \in Nat
    PROVE  \E g : IsFlat(ss, g)
<1>. DEFINE Good(n, g) == /\ g = [i \in 1 .. n |-> g[i]]
                          /\ \A i \in 1 .. n :
                                g[i] = IF i = 1 THEN ss[i] ELSE g[i - 1] \o ss[i]
            T == {n \in Nat : \E g : Good(n, g)}
<1>1. 0 \in T
  <2>. DEFINE g == [i \in 1 .. 0 |-> 0]
  <2>1. Good(0, g)
    OBVIOUS
  <2>. HIDE DEF g, Good
  <2>. QED  BY <2>1
<1>2. ASSUME NEW n \in Nat, n \in T PROVE n + 1 \in T
  <2>1. PICK g : Good(n, g)
    BY <1>2
  <2>. DEFINE h == [i \in 1 .. n + 1 |-> IF i = 1 THEN ss[i] ELSE g[i - 1] \o ss[i]]
  <2>2. \A i \in 1 .. n : i \in 1 .. n + 1 /\ h[i] = g[i]
    <3>. SUFFICES ASSUME NEW i \in 1 .. n PROVE i \in 1 .. n + 1 /\ h[i] = g[i]
      OBVIOUS
    <3>1. i \in 1 .. n + 1
      OBVIOUS
    <3>2. h[i] = IF i = 1 THEN ss[i] ELSE g[i - 1] \o ss[i]
      BY <3>1
    <3>3. g[i] = IF i = 1 THEN ss[i] ELSE g[i - 1] \o ss[i]
      BY <2>1
    <3>. QED  BY <3>1, <3>2, <3>3
  <2>3. \A i \in 1 .. n + 1 : i # 1 => i - 1 \in 1 .. n
    OBVIOUS
  <2>4. \A i \in 1 .. n + 1 : h[i] = IF i = 1 THEN ss[i] ELSE h[i - 1] \o ss[i]
    <3>1. \A i \in 1 .. n + 1 : i # 1 => h[i - 1] = g[i - 1]
      BY <2>2, <2>3
    <3>2. \A i \in 1 .. n + 1 : h[i] = IF i = 1 THEN ss[i] ELSE g[i - 1] \o ss[i]
      OBVIOUS
    <3>. HIDE DEF h
    <3>. QED  BY <3>1, <3>2
  <2>5. h = [i \in 1 .. n + 1 |-> h[i]]
    OBVIOUS
  <2>6. Good(n + 1, h)
    <3>. HIDE DEF h
    <3>. QED  BY <2>4, <2>5
  <2>7. n + 1 \in Nat
    OBVIOUS
  <2>. HIDE DEF h, Good
  <2>. QED  BY <2>6, <2>7
<1>3. Len(ss) \in T
  <2>. HIDE DEF T
  <2>. QED  BY <1>1, <1>2, Induct
<1>4. PICK g : Good(Len(ss), g)
  BY <1>3
<1>5. IsFlat(ss, g)
  BY <1>4 DEF IsFlat
<1>. QED  BY <1>5

(* ... so its equation holds. *)
LEMMA FlatUnfolds ==
    ASSUME NEW ss, Len(ss) \in Nat
    PROVE  \A i \in 1 .. Len(ss) :
              Flat(ss)[i] = IF i = 1 THEN ss[i] ELSE Flat(ss)[i - 1] \o ss[i]
<1>1. PICK g : g = Flat(ss)
  OBVIOUS
<1>2. IsFlat(ss, g)
  BY <1>1, FlatExists DEF Flat
<1>. QED  BY <1>1, <1>2 DEF IsFlat

(* What is flattened are sequences; ... *)
LEMMA FlatType ==
    ASSUME NEW S, NEW ss \in Seq(Seq(S))
    PROVE  \A i \in 1 .. Len(ss) : Flat(ss)[i] \in Seq(S)
<1>. DEFINE T == {n \in Nat : n \in 1 .. Len(ss) => Flat(ss)[n] \in Seq(S)}
<1>1. 0 \in T
  OBVIOUS
<1>2. ASSUME NEW n \in Nat, n \in T PROVE n + 1 \in T
  <2>. SUFFICES ASSUME n + 1 \in 1 .. Len(ss) PROVE Flat(ss)[n + 1] \in Seq(S)
    OBVIOUS
  <2>1. ss[n + 1] \in Seq(S) /\ Len(ss) \in Nat
    OBVIOUS
  <2>2. Flat(ss)[n + 1] = IF n + 1 = 1 THEN ss[n + 1] ELSE Flat(ss)[(n + 1) - 1] \o ss[n + 1]
    BY <2>1, FlatUnfolds
  <2>3. CASE n = 0
    BY <2>1, <2>2, <2>3
  <2>4. CASE n # 0
    <3>1. n \in 1 .. Len(ss) /\ n + 1 # 1 /\ (n + 1) - 1 = n
      BY <2>4
    <3>2. Flat(ss)[n] \in Seq(S)
      BY <1>2, <3>1
    <3>. QED  BY <2>1, <2>2, <3>1, <3>2, ConcatProperties
  <2>. QED  BY <2>3, <2>4
<1>3. Nat \subseteq T
  <2>. HIDE DEF T
  <2>. QED  BY <1>1, <1>2, Induct
<1>. QED  BY <1>3

(* ... a prefix of ss is flattened to what ss is up to there; ... *)
LEMMA FlatPrefix ==
    ASSUME NEW ss, NEW tt, Len(ss) \in Nat, Len(tt) \in Nat, Len(tt) <= Len(ss),
           \A i \in 1 .. Len(tt) : tt[i] = ss[i]
    PROVE  \A i \in 1 .. Len(tt) : Flat(tt)[i] = Flat(ss)[i]
<1>. DEFINE T == {n \in Nat : n \in 1 .. Len(tt) => Flat(tt)[n] = Flat(ss)[n]}
<1>1. 0 \in T
  OBVIOUS
<1>2. ASSUME NEW n \in Nat, n \in T PROVE n + 1 \in T
  <2>. SUFFICES ASSUME n + 1 \in 1 .. Len(tt) PROVE Flat(tt)[n + 1] = Flat(ss)[n + 1]
    OBVIOUS
  <2>1. n + 1 \in 1 .. Len(ss) /\ tt[n + 1] = ss[n + 1] /\ (n + 1) - 1 = n
    OBVIOUS
  <2>2. /\ Flat(tt)[n + 1] = IF n + 1 = 1 THEN tt[n + 1] ELSE Flat(tt)[n] \o tt[n + 1]
        /\ Flat(ss)[n + 1] = IF n + 1 = 1 THEN ss[n + 1] ELSE Flat(ss)[n] \o ss[n + 1]
    BY <2>1, FlatUnfolds
  <2>3. n + 1 # 1 => Flat(tt)[n] = Flat(ss)[n]
    <3>1. n + 1 # 1 => n \in 1 .. Len(tt)
      OBVIOUS
    <3>. QED  BY <1>2, <3>1
  <2>. QED  BY <2>1, <2>2, <2>3
<1>3. Nat \subseteq T
  <2>. HIDE DEF T
  <2>. QED  BY <1>1, <1>2, Induct
<1>. QED  BY <1>3

(* s begins with t. *)
Begins(s, t) == Len(t) <= Len(s) /\ \A p \in 1 .. Len(t) : s[p] = t[p]

(* ... and what is there stays there. *)
LEMMA FlatGrows ==
    ASSUME NEW S, NEW ss \in Seq(Seq(S)), NEW i \in 1 .. Len(ss)
    PROVE  Begins(Flat(ss)[Len(ss)], Flat(ss)[i])
<1>. DEFINE T == {n \in Nat : i + n \in 1 .. Len(ss) => Begins(Flat(ss)[i + n], Flat(ss)[i])}
<1>1. Len(ss) \in Nat /\ i \in Nat /\ i >= 1 /\ i <= Len(ss)
  OBVIOUS
<1>2. \A j \in 1 .. Len(ss) : Flat(ss)[j] \in Seq(S) /\ Len(Flat(ss)[j]) \in Nat
  BY FlatType
<1>3. 0 \in T
  <2>1. i + 0 = i
    BY <1>1
  <2>. QED  BY <1>2, <2>1 DEF Begins
<1>4. ASSUME NEW n \in Nat, n \in T PROVE n + 1 \in T
  <2>. SUFFICES ASSUME i + (n + 1) \in 1 .. Len(ss)
                PROVE  Begins(Flat(ss)[i + (n + 1)], Flat(ss)[i])
    OBVIOUS
  <2>1. PICK j, k : j = i + (n + 1) /\ k = i + n
    OBVIOUS
  <2>2. j \in 1 .. Len(ss) /\ j # 1 /\ j - 1 = k /\ k \in 1 .. Len(ss)
    BY <1>1, <2>1
  <2>3. Flat(ss)[j] = Flat(ss)[k] \o ss[j]
    BY <1>1, <2>2, FlatUnfolds
  <2>4. PICK a, b, c : /\ a = Flat(ss)[i] /\ b = Flat(ss)[k] /\ c = ss[j]
                       /\ a \in Seq(S) /\ b \in Seq(S) /\ c \in Seq(S)
    BY <1>2, <2>2
  <2>5. Begins(b, a)
    BY <1>4, <2>1, <2>2, <2>4
  <2>6. Begins(b \o c, a)
    <3>1. /\ Len(a) \in Nat /\ Len(b) \in Nat /\ Len(c) \in Nat
          /\ Len(a) <= Len(b) /\ \A p \in 1 .. Len(a) : b[p] = a[p]
      BY <2>4, <2>5 DEF Begins
    <3>2. /\ Len(b \o c) = Len(b) + Len(c)
          /\ \A p \in 1 .. Len(b) + Len(c) :
                (b \o c)[p] = IF p <= Len(b) THEN b[p] ELSE c[p - Len(b)]
      BY <2>4, ConcatProperties
    <3>3. \A p \in 1 .. Len(a) : p \in 1 .. Len(b) + Len(c) /\ p <= Len(b)
      BY <3>1
    <3>. QED  BY <3>1, <3>2, <3>3 DEF Begins
  <2>. QED  BY <2>1, <2>3, <2>4, <2>6
<1>5. Len(ss) - i \in T
  <2>1. Nat \subseteq T
    <3>. HIDE DEF T
    <3>. QED  BY <1>3, <1>4, Induct
  <2>2. Len(ss) - i \in Nat
    BY <1>1
  <2>. HIDE DEF T
  <2>. QED  BY <2>1, <2>2
<1>6. i + (Len(ss) - i) = Len(ss) /\ Len(ss) \in 1 .. Len(ss)
  BY <1>1
<1>. QED  BY <1>5, <1>6

(* The rows of a request with a dim 0 are as many as it says. *)
LEMMA RowsFacts ==
    ASSUME TypeOK, NEW r \in Request, input[r].dim0 # Scalar
    PROVE  /\ input[r].dim0 \in Nat /\ InputRows(r) \in Seq(Request \X Nat)
           /\ Len(InputRows(r)) = input[r].dim0
<1>1. input[r].dim0 \in Nat
  BY InputsAssumption DEF TypeOK
<1>2. PICK n : n = input[r].dim0
  OBVIOUS
<1>3. PICK x : x = [i \in 1 .. n |-> <<r, i>>]
  OBVIOUS
<1>4. x \in [1 .. n -> Request \X Nat] /\ n \in Nat
  BY <1>1, <1>2, <1>3
<1>5. x \in Seq(Request \X Nat) /\ Len(x) = n
  BY <1>4
<1>6. InputRows(r) = x
  BY <1>2, <1>3 DEF InputRows
<1>. QED  BY <1>1, <1>2, <1>5, <1>6

(* split_with_sizes() undoes cat(): each request gets back its own rows. *)
LEMMA SplitIsOwn ==
    ASSUME TypeOK, Batchable(batch), NEW i \in DOMAIN batch
    PROVE  Split(batch, Cat(batch), i) = InputRows(batch[i])
<1>1. PICK b : b = batch
  OBVIOUS
<1>2. PICK S : S = Request \X Nat
  OBVIOUS
<1>3. b \in Seq(Request) /\ DOMAIN b = 1 .. Len(b) /\ Len(b) \in Nat /\ i \in 1 .. Len(b)
  BY <1>1 DEF TypeOK
<1>4. \A j \in 1 .. Len(b) : /\ b[j] \in Request /\ InputRows(b[j]) \in Seq(S)
                             /\ input[b[j]].dim0 \in Nat
                             /\ Len(InputRows(b[j])) = input[b[j]].dim0
  BY <1>1, <1>2, <1>3, RowsFacts DEF Batchable
<1>5. PICK ss : ss = [j \in 1 .. Len(b) |-> InputRows(b[j])]
  OBVIOUS
<1>6. ss \in Seq(Seq(S)) /\ Len(ss) = Len(b)
  <2>1. ss \in [1 .. Len(b) -> Seq(S)]
    BY <1>4, <1>5
  <2>. QED  BY <1>3, <2>1
<1>7. PICK c, k : c = SubSeq(b, 1, i - 1) /\ k = i - 1
  OBVIOUS
<1>8. /\ c \in Seq(Request) /\ Len(c) = k /\ DOMAIN c = 1 .. k /\ k \in Nat /\ k < Len(b)
      /\ \A j \in 1 .. k : c[j] = b[j] /\ j \in 1 .. Len(b)
  <2>1. k \in Nat /\ k \in Int /\ k < Len(b) /\ \A j \in 1 .. k : j \in 1 .. Len(b)
    BY <1>3, <1>7
  <2>2. \A j \in 1 .. k : b[j] \in Request
    BY <1>4, <2>1
  <2>3. /\ c \in Seq(Request) /\ Len(c) = IF 1 <= k THEN k - 1 + 1 ELSE 0
        /\ \A j \in 1 .. k - 1 + 1 : c[j] = b[1 + j - 1]
    BY <1>7, <2>1, <2>2, SubSeqProperties
  <2>4. Len(c) = k /\ \A j \in 1 .. k : c[j] = b[j]
    BY <2>1, <2>3
  <2>. QED  BY <2>1, <2>3, <2>4
<1>9. PICK tt : tt = [j \in 1 .. k |-> InputRows(c[j])]
  OBVIOUS
<1>10. tt \in Seq(Seq(S)) /\ Len(tt) = k /\ \A j \in 1 .. k : tt[j] = ss[j]
  <2>1. \A j \in 1 .. k : tt[j] = ss[j] /\ tt[j] \in Seq(S)
    BY <1>4, <1>5, <1>8, <1>9
  <2>2. tt \in [1 .. k -> Seq(S)]
    BY <1>9, <2>1
  <2>. QED  BY <1>8, <2>1, <2>2
<1>11. Cat(b) = Flat(ss)[Len(ss)]
  <2>1. Cat(b) = FlattenSeq(ss)
    BY <1>3, <1>5 DEF Cat
  <2>2. Len(ss) # 0
    BY <1>3, <1>6
  <2>. QED  BY <2>1, <2>2, FlattenIsFlat
<1>12. Cat(c) = IF k = 0 THEN tt ELSE Flat(tt)[k]
  <2>1. Cat(c) = FlattenSeq(tt)
    BY <1>8, <1>9 DEF Cat
  <2>. QED  BY <1>10, <2>1, FlattenIsFlat
<1>13. PICK out, fi, ri : out = Cat(b) /\ fi = Flat(ss)[i] /\ ri = InputRows(b[i])
  OBVIOUS
<1>14. PICK before, d : before = Len(Cat(c)) /\ d = input[b[i]].dim0
  OBVIOUS
<1>15. /\ ri \in Seq(S) /\ Len(ri) = d /\ d \in Nat /\ ri = ss[i]
  BY <1>3, <1>4, <1>5, <1>13, <1>14
<1>16. \A j \in 1 .. Len(ss) : Flat(ss)[j] \in Seq(S)
  BY <1>6, FlatType
(* The output up to b[i] is what is before, and the rows of b[i]. *)
<1>17. /\ before \in Nat /\ fi \in Seq(S) /\ Len(fi) = before + d
       /\ \A p \in 1 .. d : fi[before + p] = ri[p]
  <2>1. fi = IF i = 1 THEN ri ELSE Flat(ss)[k] \o ri
    BY <1>3, <1>6, <1>7, <1>13, <1>15, FlatUnfolds
  <2>2. CASE i = 1
    <3>1. k = 0 /\ Len(Cat(c)) = 0
      BY <1>7, <1>10, <1>12, <2>2
    <3>2. before = 0 /\ fi = ri
      BY <1>14, <2>1, <2>2, <3>1
    <3>. QED  BY <1>15, <3>2
  <2>3. CASE i # 1
    <3>1. k # 0 /\ k \in 1 .. k /\ k \in 1 .. Len(ss)
      BY <1>3, <1>6, <1>7, <1>8, <2>3
    <3>2. Flat(tt)[k] = Flat(ss)[k]
      <4>1. /\ Len(ss) \in Nat /\ Len(tt) \in Nat /\ Len(tt) <= Len(ss)
            /\ \A j \in 1 .. Len(tt) : tt[j] = ss[j]
        BY <1>3, <1>6, <1>8, <1>10
      <4>2. \A j \in 1 .. Len(tt) : Flat(tt)[j] = Flat(ss)[j]
        BY <4>1, FlatPrefix
      <4>. QED  BY <1>10, <3>1, <4>2
    <3>3. PICK fk : fk = Flat(ss)[k]
      OBVIOUS
    <3>4. fk \in Seq(S) /\ before = Len(fk) /\ fi = fk \o ri
      BY <1>12, <1>14, <1>16, <2>1, <2>3, <3>1, <3>2, <3>3
    <3>5. /\ fi \in Seq(S) /\ Len(fi) = Len(fk) + Len(ri)
          /\ \A p \in 1 .. Len(fk) + Len(ri) :
                fi[p] = IF p <= Len(fk) THEN fk[p] ELSE ri[p - Len(fk)]
      BY <1>15, <3>4, ConcatProperties
    <3>6. Len(fk) \in Nat
      BY <3>4
    <3>7. ASSUME NEW p \in 1 .. d PROVE fi[before + p] = ri[p]
      <4>1. /\ before + p \in 1 .. Len(fk) + Len(ri) /\ ~(before + p <= Len(fk))
            /\ (before + p) - Len(fk) = p
        BY <1>15, <3>4, <3>6
      <4>. QED  BY <3>5, <4>1
    <3>. QED  BY <1>15, <3>4, <3>5, <3>6, <3>7
  <2>. QED  BY <2>2, <2>3
<1>18. Begins(out, fi) /\ out \in Seq(S) /\ Len(out) \in Nat
  <2>1. Begins(out, fi)
    BY <1>3, <1>6, <1>11, <1>13, FlatGrows
  <2>2. Len(ss) \in 1 .. Len(ss)
    BY <1>3, <1>6
  <2>. QED  BY <1>11, <1>13, <1>16, <2>1, <2>2
<1>19. \A p \in 1 .. d : out[before + p] = ri[p]
  <2>. SUFFICES ASSUME NEW p \in 1 .. d PROVE out[before + p] = ri[p]
    OBVIOUS
  <2>1. before + p \in 1 .. Len(fi)
    BY <1>15, <1>17
  <2>. QED  BY <1>17, <1>18, <2>1 DEF Begins
<1>20. PICK x : x = SubSeq(out, before + 1, before + d)
  OBVIOUS
<1>21. /\ x \in Seq(S) /\ Len(x) = d /\ \A p \in 1 .. d : x[p] = ri[p]
  <2>1. before + 1 \in Int /\ before + d \in Int
    BY <1>15, <1>17
  <2>2. \A p \in before + 1 .. before + d : out[p] \in S
    <3>. SUFFICES ASSUME NEW p \in before + 1 .. before + d PROVE out[p] \in S
      OBVIOUS
    <3>1. p \in 1 .. Len(out)
      BY <1>15, <1>17, <1>18 DEF Begins
    <3>. QED  BY <1>18, <3>1
  <2>3. PICK m, n : m = before + 1 /\ n = before + d
    OBVIOUS
  <2>4. /\ x \in Seq(S) /\ Len(x) = IF m <= n THEN n - m + 1 ELSE 0
        /\ \A p \in 1 .. n - m + 1 : x[p] = out[m + p - 1]
    <3>1. m \in Int /\ n \in Int /\ \A p \in m .. n : out[p] \in S
      BY <2>1, <2>2, <2>3
    <3>. QED  BY <1>20, <2>3, <3>1, SubSeqProperties
  <2>5. Len(x) = d
    BY <1>15, <1>17, <2>3, <2>4
  <2>6. ASSUME NEW p \in 1 .. d PROVE x[p] = ri[p]
    <3>1. p \in 1 .. n - m + 1 /\ m + p - 1 = before + p
      BY <1>15, <1>17, <2>3
    <3>. QED  BY <1>19, <2>4, <3>1
  <2>. QED  BY <2>4, <2>5, <2>6
<1>22. x = ri
  BY <1>15, <1>21, SeqEqual
<1>23. Split(b, out, i) = x
  BY <1>7, <1>14, <1>20 DEF Split
<1>. QED  BY <1>1, <1>13, <1>22, <1>23

(* Who is answered, and with what, when a batch is answered as a whole. *)
LEMMA AnsweredWith ==
    ASSUME NEW ans, AnswerBatch(ans), NEW r \in Request
    PROVE  \/ ~In(batch, r) /\ result'[r] = result[r]
           \/ \E i \in DOMAIN batch : batch[i] = r /\ result'[r] = ans[i]
<1>1. result'[r] = IF In(batch, r) THEN ans[CHOOSE i \in DOMAIN batch : batch[i] = r]
                   ELSE result[r]
  BY DEF AnswerBatch
<1>2. CASE In(batch, r)
  <2>. DEFINE j == CHOOSE i \in DOMAIN batch : batch[i] = r
  <2>1. j \in DOMAIN batch /\ batch[j] = r
    BY <1>2, Zenon DEF In
  <2>2. result'[r] = ans[j]
    BY <1>1, <1>2
  <2>. HIDE DEF j
  <2>. QED  BY <2>1, <2>2
<1>3. CASE ~In(batch, r)
  BY <1>1, <1>3
<1>. QED  BY <1>2, <1>3

(* x may be the answer to r. *)
Fits(r, x) == /\ x.kind = "value" => x = OwnAnswer(r)
              /\ x.kind = "own_error" => input[r].bad

(* An answer of its own fits, and so does an error that blames nobody. *)
LEMMA FittingAnswers ==
    ASSUME NEW r
    PROVE  /\ Fits(r, OwnAnswer(r))
           /\ \A why \in {"alloc_error", "stopped", "not_running"} : Fits(r, Error(why))
BY DEF Fits, OwnAnswer, Value, Error

(* Every step answers with what fits. *)
LEMMA StepAnswersOwn ==
    ASSUME FixedRows = 0, TypeOK, AnswersAreOwn, [Next]_vars
    PROVE  AnswersAreOwn'
<1>1. \A r \in Request : Fits(r, result[r])
  BY DEF AnswersAreOwn, Fits
<1>2. input' = input
  BY DEF Next, Handler, Submit, NotifyOne, LoopStep, Lock, TestPredicate, Block, Deadline, Exit,
         TakeBatch, ExecuteSingle, ExecuteBatched, FallBack, RunPerRequest, LastResort,
         SpuriousWake, Start, StopStore, StopStep, StopNotify, Join, Drain, vars
<1>3. SUFFICES ASSUME NEW r \in Request PROVE Fits(r, result'[r])
  BY <1>2 DEF AnswersAreOwn, Fits, OwnAnswer, InputRows
<1>4. CASE result'[r] = result[r]
  BY <1>1, <1>4
<1>5. ASSUME NEW ans, AnswerBatch(ans), \A i \in DOMAIN batch : Fits(batch[i], ans[i])
      PROVE  Fits(r, result'[r])
  BY <1>1, <1>5, AnsweredWith
<1>6. CASE ExecuteSingle
  <2>. DEFINE ans == [i \in DOMAIN batch |-> OwnAnswer(batch[i])]
  <2>1. AnswerBatch(ans)
    BY <1>6 DEF ExecuteSingle
  <2>2. \A i \in DOMAIN batch : Fits(batch[i], ans[i])
    BY FittingAnswers
  <2>. HIDE DEF ans
  <2>. QED  BY <1>5, <2>1, <2>2
<1>7. CASE ExecuteBatched
  <2>1. Forward(Cat(batch)) = Cat(batch)
    BY DEF Forward
  <2>. DEFINE ans == [i \in DOMAIN batch |-> Value(Split(batch, Cat(batch), i))]
  <2>2. AnswerBatch(ans) /\ Batchable(batch) /\ \A i \in DOMAIN batch : ~input[batch[i]].bad
    BY <1>7, <2>1 DEF ExecuteBatched
  <2>3. \A i \in DOMAIN batch : ans[i] = OwnAnswer(batch[i])
    <3>1. \A i \in DOMAIN batch : Split(batch, Cat(batch), i) = InputRows(batch[i])
      BY <2>2, SplitIsOwn
    <3>. QED  BY <2>2, <3>1 DEF OwnAnswer, Forward
  <2>4. \A i \in DOMAIN batch : Fits(batch[i], ans[i])
    BY <2>3, FittingAnswers
  <2>. HIDE DEF ans
  <2>. QED  BY <1>5, <2>2, <2>4
<1>8. CASE LastResort
  <2>. DEFINE ans == [i \in DOMAIN batch |-> Error("alloc_error")]
  <2>1. AnswerBatch(ans)
    BY <1>8 DEF LastResort
  <2>2. \A i \in DOMAIN batch : Fits(batch[i], ans[i])
    BY FittingAnswers
  <2>. HIDE DEF ans
  <2>. QED  BY <1>5, <2>1, <2>2
<1>9. CASE RunPerRequest
  <2>1. result' = [result EXCEPT ![Head(batch)] = OwnAnswer(Head(batch))]
    BY <1>9 DEF RunPerRequest
  <2>2. result'[r] = result[r] \/ result'[r] = OwnAnswer(r)
    BY <2>1 DEF TypeOK
  <2>. QED  BY <1>4, <2>2, FittingAnswers
<1>10. CASE Drain
  <2>1. result'[r] = Error("stopped") \/ result'[r] = result[r]
    BY <1>10 DEF Drain
  <2>. QED  BY <1>4, <2>1, FittingAnswers
<1>11. CASE \E q \in Request : Submit(q)
  <2>1. result'[r] = Error("not_running") \/ result'[r] = result[r]
    BY <1>11 DEF Submit, TypeOK
  <2>. QED  BY <1>4, <2>1, FittingAnswers
<1>12. CASE UNCHANGED result
  BY <1>4, <1>12
<1>. QED  BY <1>6, <1>7, <1>8, <1>9, <1>10, <1>11, <1>12
          DEF Next, Handler, NotifyOne, LoopStep, Lock, TestPredicate, Block, Deadline, Exit,
              TakeBatch, FallBack, SpuriousWake, Start, StopStore, StopStep, StopNotify, Join, vars

(* With a model that works row by row, however requests are queued,        *)
(* batched, split and retried one by one, every value is what the model    *)
(* gives for the request's own input, and only a request whose own input   *)
(* the model rejects gets its error (server.cpp 249-258, 298-313).         *)
THEOREM OwnAnswers ==
    ASSUME FixedRows = 0
    PROVE  Spec => []AnswersAreOwn
<1>1. Init => AnswersAreOwn
  BY DEF Init, AnswersAreOwn, Pending
<1>2. TypeOK /\ AnswersAreOwn /\ [Next]_vars => AnswersAreOwn'
  BY StepAnswersOwn
<1>. QED  BY <1>1, <1>2, TypeCorrect, PTL DEF Spec
=============================================================================
