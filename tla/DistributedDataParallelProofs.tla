-------------------- MODULE DistributedDataParallelProofs --------------------
(***************************************************************************)
(* Ranks whose engines deliver gradients in the same order make the same   *)
(* collectives in the same order, for any number of ranks, parameters,     *)
(* buckets and passes, and for every program.                              *)
(*                                                                         *)
(* What a rank does next does not depend on the values of its gradients,   *)
(* only on which of them exist.  Erasing the values turns the steps of a   *)
(* rank into a function of what is left (Follow), the same for all ranks.  *)
(* So all ranks walk along one chain of views, each at its own place, and  *)
(* what one that is behind has called is a prefix of what one ahead of it  *)
(* has.                                                                    *)
(***************************************************************************)
EXTENDS DistributedDataParallel, FiniteSetTheorems, SequenceTheorems, WellFoundedInduction,
        TLAPS

(* All ranks deliver the gradients of each backward pass in one order. *)
UsesAgree ==
  \A k \in DOMAIN scenario.uses : \A q, r \in Rank : scenario.uses[k][q] = scenario.uses[k][r]

-----------------------------------------------------------------------------
(* Types, of a rank r in state s that has made the calls c, of a run of     *)
(* program g with buckets bk.                                               *)

Entry    == [param : Param, value : Grad]
Partial  == UNION {[S -> Grad] : S \in SUBSET Param}
Flight   == [call : Nat, params : Seq(Param)]

Fields   == {"pc", "stage", "at", "bucket", "queue", "back", "pass", "zeroed", "filled", "grad",
             "auto", "was_enabled", "cached", "unused", "ready", "pending", "override", "flat",
             "ops"}
IsState(bk, s) ==
  /\ s = [k \in Fields |-> s[k]]
  /\ s.at \in Nat /\ s.pass \in Nat /\ s.ops \in Nat
  /\ s.queue \in Seq(Seq(Param))
  /\ s.grad \in [Param -> Grad \cup {None}]
  /\ s.override \in [1 .. Len(bk) -> Partial]
  /\ s.flat \in [1 .. Len(bk) -> Flight]

(* In a backward pass there is a pass; where a hook waits, there is a hook. *)
PassFine(g, r, s) ==
  /\ s.pass <= Len(g.uses)
  /\ s.stage = "backward" \/ (s.stage \in {"reduce", "wait"} /\ s.back = "backward") =>
       s.pass # 0 /\ s.at # 0
  /\ s.stage \in {"reduce", "wait"} /\ s.back = "backward" => s.at <= Len(g.uses[s.pass][r])

(* What stands in the queue of a reduction has gradients. *)
QueueFine(g, bk, s) ==
  s.stage \in {"reduce", "wait"} =>
    /\ s.bucket \in 1 .. Len(bk)
    /\ ~g.compress => Len(s.queue) <= 1
    /\ g.compress => \A i \in DOMAIN s.queue : \A p \in ToSet(s.queue[i]) : s.grad[p] # None
    /\ ~g.compress /\ s.stage = "reduce" =>
         \A i \in DOMAIN s.queue : \A p \in ToSet(s.queue[i]) :
           s.grad[p] # None \/ p \in DOMAIN s.override[s.bucket]

(* A collective that is awaited has been called, with these parameters. *)
AwaitFine(s, c) ==
  s.stage = "wait" => /\ s.queue # <<>>
                      /\ c # <<>>
                      /\ Len(c[Len(c)]) = Len(Head(s.queue))
FlightFine(bk, s, c) ==
  \A b \in 1 .. Len(bk) :
    s.flat[b] # NoFlight => /\ s.flat[b].call \in 1 .. Len(c)
                            /\ Len(c[s.flat[b].call]) = Len(s.flat[b].params)

Fine(g, bk, r, s, c) ==
  /\ IsState(bk, s)
  /\ c \in Seq(Seq(Entry))
  /\ PassFine(g, r, s)
  /\ QueueFine(g, bk, s)
  /\ AwaitFine(s, c)
  /\ FlightFine(bk, s, c)

(* Each parameter with a hook has a bucket. *)
Types ==
  /\ scenario \in Scenarios
  /\ buckets \in Seq(Seq(Param))
  /\ \A p \in ToSet(scenario.params) : \E b \in Bucket : p \in ToSet(buckets[b])
  /\ st = [r \in Rank |-> st[r]]
  /\ calls = [r \in Rank |-> calls[r]]
  /\ residual \in [Rank -> [Param -> Grad]]
  /\ \A r \in Rank : Fine(scenario, buckets, r, st[r], calls[r])

-----------------------------------------------------------------------------
(* A rank without the values of its gradients: which parameters have one,   *)
(* and which ones wait in each bucket.                                      *)
Erase(bk, s) ==
  [s EXCEPT !.grad     = {p \in Param : s.grad[p] # None},
            !.override = [b \in 1 .. Len(bk) |-> DOMAIN s.override[b]],
            !.zeroed   = 0,
            !.filled   = {}]

(* The parameters of each collective called. *)
Sent(c) == [n \in DOMAIN c |-> [i \in DOMAIN c[n] |-> c[n][i].param]]

View(bk, s, c) == [self |-> Erase(bk, s), sent |-> Sent(c)]

(* How views go on: the operators of the module, on views e. *)
Order(g, e)      == g.uses[e.pass][CHOOSE r \in Rank : TRUE]
HookAt(g, e)     == Order(g, e)[e.at]
BucketFor(bk, p) == CHOOSE b \in 1 .. Len(bk) : p \in ToSet(bk[b])

Reset(g, bk, e) ==
  [e EXCEPT !.ready   = [b \in 1 .. Len(bk) |-> FALSE],
            !.pending = [b \in 1 .. Len(bk) |->
                           IF g.find_unused /\ e.cached
                           THEN Cardinality(e.unused \cap ToSet(bk[b])) ELSE 0],
            !.ops     = 0]

Mark(e, p, b)    == [e EXCEPT !.override[b] = @ \cup {p}, !.pending[b] = @ + 1]
Take(e, p)       == [e EXCEPT !.grad = @ \cup {p}, !.at = @ + 1, !.stage = "backward"]
Present(g, e, b) == IF g.compress THEN e.grad ELSE e.grad \cup e.override[b]
Split(g, ps)     == IF g.compress THEN [i \in DOMAIN ps |-> <<ps[i]>>]
                    ELSE IF ps = <<>> THEN <<>> ELSE <<ps>>
Chosen(g, bk, e, b) == Kept(bk[b], Present(g, e, b))
Emptied(g, e, b)    == IF g.compress THEN e ELSE [e EXCEPT !.override[b] = {}]
OnStream(g)         == g.gpu /\ ~g.compress

Starts(g, bk, e, b, from) ==
  [e EXCEPT !.bucket = b, !.queue = Split(g, Chosen(g, bk, e, b)), !.stage = "reduce",
            !.back = from]
Flies(g, bk, e, b, n) ==
  [Emptied(g, e, b) EXCEPT !.flat[b] = IF Chosen(g, bk, e, b) = <<>> THEN NoFlight
                                       ELSE [call |-> n + 1, params |-> Chosen(g, bk, e, b)],
                           !.ops = @ + 1, !.ready[b] = TRUE]

FindUnused(g, e) ==
  IF g.find_unused /\ ~e.cached
  THEN [e EXCEPT !.unused = ToSet(g.params) \ e.grad, !.cached = TRUE] ELSE e
SweepFrom(g, e) == [FindUnused(g, e) EXCEPT !.stage = "sweep", !.at = 1]

FromProgram(g, bk, e) ==
  LET op == g.program[e.pc]
  IN  CASE op = "forward"       -> After(IF e.auto THEN Reset(g, bk, e) ELSE e)
        [] op = "zero_grad"     -> After([e EXCEPT !.grad = {}])
        [] op = "reset_buckets" -> After(Reset(g, bk, e))
        [] op = "auto_sync_off" -> After([e EXCEPT !.auto = FALSE])
        [] op = "no_sync"       -> After([e EXCEPT !.was_enabled = e.auto, !.auto = FALSE])
        [] op = "invalidate_unused_cache" -> After([e EXCEPT !.cached = FALSE, !.unused = {}])
        [] op = "backward"      -> [e EXCEPT !.stage = "backward", !.pass = @ + 1, !.at = 1]
        [] op = "synchronize_gradients" -> SweepFrom(g, e)
        [] op = "end_no_sync"   -> IF e.was_enabled
                                   THEN SweepFrom(g, [e EXCEPT !.auto = e.was_enabled])
                                   ELSE After([e EXCEPT !.auto = e.was_enabled])

FromBackward(g, bk, v) ==
  LET e == v.self
      p == HookAt(g, e)
      b == BucketFor(bk, p)
      k == Mark(e, p, b)
  IN  IF e.at > Len(Order(g, e))
      THEN [self |-> After([e EXCEPT !.stage = "program"]), sent |-> v.sent]
      ELSE IF ~e.auto \/ e.ready[b] THEN [self |-> Take(e, p), sent |-> v.sent]
      ELSE IF ~(k.pending[b] >= Len(bk[b])) THEN [self |-> Take(k, p), sent |-> v.sent]
      ELSE IF ~OnStream(g)
      THEN [self |-> [Starts(g, bk, k, b, "backward") EXCEPT !.ready[b] = TRUE], sent |-> v.sent]
      ELSE [self |-> Take(Flies(g, bk, k, b, Len(v.sent)), p),
            sent |-> v.sent \o Split(g, Chosen(g, bk, k, b))]

FromReduce(g, v) ==
  LET e == v.self
      d == [e EXCEPT !.ready[e.bucket] = TRUE]
  IN  IF e.queue # <<>>
      THEN [self |-> [Emptied(g, e, e.bucket) EXCEPT !.stage = "wait"],
            sent |-> Append(v.sent, Head(e.queue))]
      ELSE [self |-> IF e.back = "backward" THEN Take(d, HookAt(g, e))
                     ELSE [d EXCEPT !.stage = "sweep", !.at = @ + 1],
            sent |-> v.sent]

FromWait(e) ==
  [e EXCEPT !.grad = @ \cup ToSet(Head(e.queue)), !.queue = Tail(@), !.stage = "reduce"]

Landed(g, bk, e) ==
  IF ~g.gpu \/ e.ops = 0 THEN e
  ELSE [e EXCEPT !.grad = @ \cup UNION {ToSet(e.flat[b].params) : b \in 1 .. Len(bk)},
                 !.flat = [b \in 1 .. Len(bk) |-> NoFlight], !.ops = 0]

FromSweep(g, bk, v) ==
  LET e == v.self
  IN  IF e.at \notin 1 .. Len(bk)
      THEN [self |-> After([Landed(g, bk, e) EXCEPT !.stage = "program"]), sent |-> v.sent]
      ELSE IF e.ready[e.at] THEN [self |-> [e EXCEPT !.at = @ + 1], sent |-> v.sent]
      ELSE IF ~OnStream(g) THEN [self |-> Starts(g, bk, e, e.at, "sweep"), sent |-> v.sent]
      ELSE [self |-> [Flies(g, bk, e, e.at, Len(v.sent)) EXCEPT !.at = @ + 1],
            sent |-> v.sent \o Split(g, Chosen(g, bk, e, e.at))]

Follow(g, bk, v) ==
  CASE v.self.stage = "program"  -> [self |-> FromProgram(g, bk, v.self), sent |-> v.sent]
    [] v.self.stage = "backward" -> FromBackward(g, bk, v)
    [] v.self.stage = "reduce"   -> FromReduce(g, v)
    [] v.self.stage = "wait"     -> [self |-> FromWait(v.self), sent |-> v.sent]
    [] v.self.stage = "sweep"    -> FromSweep(g, bk, v)

-----------------------------------------------------------------------------
(* Induction, from the least-number principle. *)

(* A set of numbers that is not empty has a least one. *)
LEMMA LeastNat ==
  ASSUME NEW T, T \subseteq Nat, T # {}
  PROVE  \E x \in T : \A y \in T : x <= y
<1>. DEFINE R == OpToRel(<, Nat)
<1>1. \E x \in T : \A y \in T : ~ (<<y, x>> \in R)
  <2>1. IsWellFoundedOn(R, Nat)
    BY NatLessThanWellFounded, Zenon
  <2>. QED  BY <2>1, WFMin, Zenon
<1>2. PICK x \in T : \A y \in T : ~ (<<y, x>> \in R)
  BY <1>1
<1>3. ASSUME NEW y \in T PROVE x <= y
  <2>1. y \in Nat /\ x \in Nat
    OBVIOUS
  <2>2. ~ (y < x)
    BY <1>2, <2>1 DEF OpToRel
  <2>. QED  BY <2>1, <2>2
<1>. QED  BY <1>3

(* Induction: a set with 0 and the successor of each of its numbers has   *)
(* all of Nat.                                                             *)
LEMMA Induct ==
  ASSUME NEW S, 0 \in S, \A n \in Nat : n \in S => n + 1 \in S
  PROVE  Nat \subseteq S
<1>. SUFFICES ASSUME Nat \ S # {} PROVE FALSE
  OBVIOUS
<1>1. PICK x \in Nat \ S : \A y \in Nat \ S : x <= y
  <2>1. (Nat \ S) \subseteq Nat
    OBVIOUS
  <2>. QED  BY <2>1, LeastNat, Zenon
<1>2. x # 0 /\ x \in Nat
  OBVIOUS
<1>3. x - 1 \in Nat /\ x - 1 < x /\ (x-1)+1 = x
  BY <1>2
<1>4. x - 1 \in S
  BY <1>1, <1>3
<1>. QED  BY <1>3, <1>4

(* A recursion over the subsets of a finite set that takes out one member   *)
(* at a time, as the folds of the community modules do: base for the empty  *)
(* set, and op of the member ch takes out and the result for the others.    *)
Chooses(S, ch) == \A s \in SUBSET S : s # {} => ch[s] \in s
IsFold(S, A, base, op, ch, g) ==
  /\ g \in [SUBSET S -> A]
  /\ \A s \in SUBSET S : g[s] = IF s = {} THEN base ELSE op[<<ch[s], g[s \ {ch[s]}]>>]

(* It has a solution. *)
LEMMA FoldExists ==
  ASSUME NEW S, IsFiniteSet(S), NEW A, NEW base \in A, NEW op \in [S \X A -> A],
         NEW ch, Chooses(S, ch)
  PROVE  \E g : IsFold(S, A, base, op, ch, g)
<1>. DEFINE Sub(n) == {s \in SUBSET S : Cardinality(s) <= n}
            Eqn(g, s) == g[s] = IF s = {} THEN base ELSE op[<<ch[s], g[s \ {ch[s]}]>>]
            Good(n, g) == /\ g \in [Sub(n) -> A]
                          /\ \A s \in Sub(n) : Eqn(g, s)
            T == {n \in Nat : \E g : Good(n, g)}
<1>0. \A s \in SUBSET S : IsFiniteSet(s) /\ Cardinality(s) \in Nat
  BY FS_Subset, FS_CardinalityType
<1>1. 0 \in T
  <2>1. Sub(0) = {{}}
    BY <1>0, FS_EmptySet
  <2>. DEFINE g == [s \in Sub(0) |-> base]
  <2>2. Good(0, g)
    BY <2>1
  <2>. QED  BY <2>2
<1>2. ASSUME NEW n \in Nat, n \in T PROVE n + 1 \in T
  <2>1. PICK g : Good(n, g)
    BY <1>2
  <2>. DEFINE h == [s \in Sub(n + 1) |-> IF s = {} THEN base ELSE op[<<ch[s], g[s \ {ch[s]}]>>]]
  <2>2. \A s \in Sub(n) : s \in Sub(n + 1)
    BY <1>0
  <2>3. \A s \in Sub(n) : h[s] = g[s]
    BY <2>1, <2>2
  <2>4. ASSUME NEW s \in Sub(n + 1), s # {} PROVE s \ {ch[s]} \in Sub(n) /\ ch[s] \in S
    <3>1. ch[s] \in s
      BY <2>4 DEF Chooses
    <3>2. Cardinality(s \ {ch[s]}) = Cardinality(s) - 1
      BY <3>1, <1>0, FS_RemoveElement
    <3>. QED  BY <3>1, <3>2, <1>0
  <2>5. ASSUME NEW s \in Sub(n + 1) PROVE Eqn(h, s) /\ h[s] \in A
    <3>1. CASE s = {}
      BY <3>1
    <3>2. CASE s # {}
      <4>1. h[s] = op[<<ch[s], g[s \ {ch[s]}]>>]
        BY <3>2
      <4>2. h[s \ {ch[s]}] = g[s \ {ch[s]}] /\ g[s \ {ch[s]}] \in A /\ ch[s] \in S
        BY <2>1, <2>3, <2>4, <3>2
      <4>. QED  BY <3>2, <4>1, <4>2
    <3>. QED  BY <3>1, <3>2
  <2>6. Good(n + 1, h)
    <3>1. h \in [Sub(n + 1) -> A]
      BY <2>5
    <3>. QED  BY <2>5, <3>1
  <2>. HIDE DEF h, Good
  <2>7. n + 1 \in Nat
    OBVIOUS
  <2>. QED  BY <2>6, <2>7
<1>3. Cardinality(S) \in T
  <2>. HIDE DEF T
  <2>1. Nat \subseteq T
    BY <1>1, <1>2, Induct
  <2>2. Cardinality(S) \in Nat
    BY <1>0
  <2>. QED  BY <2>1, <2>2
<1>4. PICK g : Good(Cardinality(S), g)
  BY <1>3
<1>5. Sub(Cardinality(S)) = SUBSET S
  BY FS_Subset
<1>. QED  BY <1>4, <1>5 DEF IsFold

(* Induction along it: a set with {}, and with every set it has without its *)
(* chosen member, has all subsets.                                          *)
LEMMA FoldInduct ==
  ASSUME NEW S, IsFiniteSet(S), NEW ch, Chooses(S, ch), NEW F, {} \in F,
         \A s \in SUBSET S : s # {} /\ s \ {ch[s]} \in F => s \in F
  PROVE  SUBSET S \subseteq F
<1>. DEFINE T == {n \in Nat : \A s \in SUBSET S : Cardinality(s) = n => s \in F}
<1>0. \A s \in SUBSET S : IsFiniteSet(s) /\ Cardinality(s) \in Nat
  BY FS_Subset, FS_CardinalityType
<1>1. 0 \in T
  BY <1>0, FS_EmptySet
<1>2. ASSUME NEW n \in Nat, n \in T PROVE n + 1 \in T
  <2>. SUFFICES ASSUME NEW s \in SUBSET S, Cardinality(s) = n + 1 PROVE s \in F
    OBVIOUS
  <2>0. n + 1 # 0 /\ Cardinality({}) = 0
    BY FS_EmptySet
  <2>1. s # {}
    BY <2>0
  <2>2. ch[s] \in s
    BY <2>1 DEF Chooses
  <2>3. Cardinality(s \ {ch[s]}) = n
    <3>1. Cardinality(s \ {ch[s]}) = Cardinality(s) - 1
      BY <1>0, <2>2, FS_RemoveElement
    <3>. QED  BY <3>1
  <2>4. s \ {ch[s]} \in F
    BY <1>2, <2>3
  <2>. QED  BY <2>1, <2>4
<1>3. Nat \subseteq T
  <2>. HIDE DEF T
  <2>. QED  BY <1>1, <1>2, Induct
<1>. QED  BY <1>0, <1>3

(* The fold that SumFunctionOnSet adds numbers with. *)
Pick(s) == CHOOSE x \in s : TRUE
IsSum(f, S, g) ==
  g = [s \in SUBSET S |-> IF s = {} THEN 0 ELSE f[Pick(s)] + g[s \ {Pick(s)}]]
SumBy(f, S) == CHOOSE g : IsSum(f, S, g)

(* A sum of natural numbers is one. *)
LEMMA SumType ==
  ASSUME NEW S, IsFiniteSet(S), NEW f \in [S -> Nat]
  PROVE  SumBy(f, S)[S] \in Nat
<1>. DEFINE ch == [s \in SUBSET S |-> Pick(s)]
            op == [xa \in S \X Nat |-> f[xa[1]] + xa[2]]
<1>1. \A s \in SUBSET S : s # {} => ch[s] \in s
  BY DEF Pick
<1>11. Chooses(S, ch)
  BY <1>1 DEF Chooses
<1>2. op \in [S \X Nat -> Nat]
  OBVIOUS
<1>3. PICK g : IsFold(S, Nat, 0, op, ch, g)
  <2>. HIDE DEF ch, op
  <2>1. 0 \in Nat
    OBVIOUS
  <2>. QED  BY <1>11, <1>2, <2>1, FoldExists, Zenon
<1>4. \A s \in SUBSET S : g[s] = IF s = {} THEN 0 ELSE f[Pick(s)] + g[s \ {Pick(s)}]
  <2>. SUFFICES ASSUME NEW s \in SUBSET S, s # {}
                PROVE  g[s] = f[Pick(s)] + g[s \ {Pick(s)}]
    BY <1>3 DEF IsFold
  <2>1. ch[s] = Pick(s) /\ Pick(s) \in S
    BY <1>1
  <2>2. s \ {Pick(s)} \in SUBSET S
    OBVIOUS
  <2>3. g[s \ {Pick(s)}] \in Nat
    BY <1>3, <2>2 DEF IsFold
  <2>4. op[<<Pick(s), g[s \ {Pick(s)}]>>] = f[Pick(s)] + g[s \ {Pick(s)}]
    BY <2>1, <2>3
  <2>. HIDE DEF op, ch
  <2>. QED  BY <1>3, <2>1, <2>4 DEF IsFold
<1>5. IsSum(f, S, g)
  <2>1. g = [s \in SUBSET S |-> g[s]]
    BY <1>3 DEF IsFold
  <2>. QED  BY <1>4, <2>1 DEF IsSum
<1>6. PICK h : h = SumBy(f, S)
  OBVIOUS
<1>7. IsSum(f, S, h)
  BY <1>5, <1>6 DEF SumBy
<1>8. \A s \in SUBSET S : h[s] = IF s = {} THEN 0 ELSE f[Pick(s)] + h[s \ {Pick(s)}]
  BY <1>7 DEF IsSum
<1>. DEFINE F == {s \in SUBSET S : h[s] \in Nat}
<1>9. ASSUME NEW s \in SUBSET S, s # {}, s \ {ch[s]} \in F PROVE s \in F
  <2>1. ch[s] = Pick(s) /\ Pick(s) \in S
    BY <1>1, <1>9
  <2>2. f[Pick(s)] \in Nat
    BY <2>1
  <2>3. h[s] = f[Pick(s)] + h[s \ {Pick(s)}]
    BY <1>8, <1>9
  <2>. QED  BY <1>9, <2>1, <2>2, <2>3
<1>10. {} \in F
  <2>1. {} \in SUBSET S
    OBVIOUS
  <2>2. h[{}] = 0
    BY <1>8, <2>1, Zenon
  <2>. QED  BY <2>1, <2>2
<1>12. SUBSET S \subseteq F
  <2>. HIDE DEF ch, F
  <2>. QED  BY <1>9, <1>10, <1>11, FoldInduct
<1>. QED  BY <1>6, <1>12

(* What a collective returns is a gradient, when all ranks passed one. *)
LEMMA AveragedType ==
  ASSUME NEW n, NEW i, \A r \in Rank : calls[r][n][i].value \in Grad
  PROVE  Averaged(n, i) \in Grad
<1>1. World \in Nat /\ World # 0
  BY RankAssumption, FS_CardinalityType, FS_EmptySet DEF World
<1>2. ASSUME NEW c \in Share
      PROVE  SumFunctionOnSet([r \in Rank |-> calls[r][n][i].value[c]], Rank) \in Nat
  <2>. DEFINE f == [r \in Rank |-> calls[r][n][i].value[c]]
  <2>1. f \in [Rank -> Nat]
    BY DEF Grad
  <2>2. SumBy(f, Rank)[Rank] \in Nat
    <3>. HIDE DEF f
    <3>. QED  BY <2>1, SumType, RankAssumption
  <2>3. SumFunctionOnSet([r \in Rank |-> calls[r][n][i].value[c]], Rank) = SumBy(f, Rank)[Rank]
    <3>. HIDE DEF f
    <3>1. SumFunctionOnSet(f, Rank) = SumBy(f, Rank)[Rank]
      BY DEF SumFunctionOnSet, FoldFunctionOnSet, MapThenFoldSet, SumBy, IsSum, Pick
    <3>. QED  BY <3>1 DEF f
  <2>. QED  BY <2>2, <2>3
<1>. QED  BY <1>1, <1>2 DEF Averaged, Grad

(* A set of positions has a last one. *)
LEMMA MaxIn ==
  ASSUME NEW n \in Nat, NEW s \in SUBSET (1 .. n), s # {}
  PROVE  Max(s) \in s
<1>. DEFINE T == {n - x : x \in s}
<1>1. T \subseteq Nat /\ T # {}
  <2>1. \A x \in s : x \in 1 .. n /\ n - x \in Nat
    OBVIOUS
  <2>2. T \subseteq Nat
    BY <2>1
  <2>3. PICK x : x \in s
    OBVIOUS
  <2>4. n - x \in T
    BY <2>3
  <2>. QED  BY <2>2, <2>4
<1>2. PICK t \in T : \A y \in T : t <= y
  <2>. HIDE DEF T
  <2>. QED  BY <1>1, LeastNat
<1>3. PICK x \in s : t = n - x
  OBVIOUS
<1>4. \A y \in s : x >= y
  <2>. SUFFICES ASSUME NEW y \in s PROVE x >= y
    OBVIOUS
  <2>1. n - x <= n - y
    BY <1>2, <1>3
  <2>2. x \in 1 .. n /\ y \in 1 .. n
    OBVIOUS
  <2>. QED  BY <2>1, <2>2
<1>. QED  BY <1>4 DEF Max

(* The choice that FoldLeft makes. *)
LastOf(ps) == [s \in SUBSET DOMAIN ps |-> Max(s)]

(* It is a choice, of a finite set. *)
LEMMA LastIsChosen ==
  ASSUME NEW X, NEW ps \in Seq(X)
  PROVE  /\ DOMAIN ps = 1 .. Len(ps) /\ Len(ps) \in Nat /\ IsFiniteSet(DOMAIN ps)
         /\ Chooses(DOMAIN ps, LastOf(ps))
         /\ \A s \in SUBSET DOMAIN ps : s # {} => Max(s) \in s
<1>1. DOMAIN ps = 1 .. Len(ps) /\ Len(ps) \in Nat
  OBVIOUS
<1>2. IsFiniteSet(DOMAIN ps)
  BY <1>1, FS_Interval
<1>3. \A s \in SUBSET DOMAIN ps : s # {} => Max(s) \in s
  BY <1>1, MaxIn
<1>. QED  BY <1>1, <1>2, <1>3 DEF Chooses, LastOf

(* The fold of Kept. *)
KeepStep(ps, P, kept, i) == IF ps[i] \in P THEN Append(kept, ps[i]) ELSE kept
IsKept(ps, P, g) ==
  g = [s \in SUBSET DOMAIN ps |->
         IF s = {} THEN <<>> ELSE KeepStep(ps, P, g[s \ {Max(s)}], Max(s))]

(* What is kept of ps are members of ps in P. *)
LEMMA KeptType ==
  ASSUME NEW X, NEW ps \in Seq(X), NEW P
  PROVE  Kept(ps, P) \in Seq(X \cap P)
<1>. DEFINE D == DOMAIN ps
            op == [xa \in D \X Seq(X) |-> KeepStep(ps, P, xa[2], xa[1])]
            ch == LastOf(ps)
<1>1. Chooses(D, ch) /\ IsFiniteSet(D) /\ \A s \in SUBSET D : s # {} => Max(s) \in s
  BY LastIsChosen
<1>2. op \in [D \X Seq(X) -> Seq(X)]
  BY DEF KeepStep
<1>3. PICK g : IsFold(D, Seq(X), <<>>, op, ch, g)
  <2>1. <<>> \in Seq(X)
    OBVIOUS
  <2>. HIDE DEF ch, op, D
  <2>. QED  BY <1>1, <1>2, <2>1, FoldExists, Zenon
<1>4. \A s \in SUBSET D : g[s] = IF s = {} THEN <<>> ELSE KeepStep(ps, P, g[s \ {Max(s)}], Max(s))
  <2>. SUFFICES ASSUME NEW s \in SUBSET D, s # {}
                PROVE  g[s] = KeepStep(ps, P, g[s \ {Max(s)}], Max(s))
    BY <1>3 DEF IsFold
  <2>1. ch[s] = Max(s) /\ Max(s) \in D
    BY <1>1 DEF LastOf
  <2>2. s \ {Max(s)} \in SUBSET D
    OBVIOUS
  <2>3. g[s \ {Max(s)}] \in Seq(X)
    BY <1>3, <2>2 DEF IsFold
  <2>4. op[<<Max(s), g[s \ {Max(s)}]>>] = KeepStep(ps, P, g[s \ {Max(s)}], Max(s))
    BY <2>1, <2>3
  <2>. HIDE DEF op, ch
  <2>. QED  BY <1>3, <2>1, <2>4 DEF IsFold
<1>5. IsKept(ps, P, g)
  <2>1. g = [s \in SUBSET D |-> g[s]]
    BY <1>3 DEF IsFold
  <2>. QED  BY <1>4, <2>1 DEF IsKept
<1>6. PICK h : h = CHOOSE f : IsKept(ps, P, f)
  OBVIOUS
<1>7. IsKept(ps, P, h)
  BY <1>5, <1>6
<1>8. \A s \in SUBSET D : h[s] = IF s = {} THEN <<>> ELSE KeepStep(ps, P, h[s \ {Max(s)}], Max(s))
  BY <1>7 DEF IsKept
<1>. DEFINE F == {s \in SUBSET D : h[s] \in Seq(X \cap P)}
<1>9. ASSUME NEW s \in SUBSET D, s # {}, s \ {ch[s]} \in F PROVE s \in F
  <2>1. ch[s] = Max(s) /\ Max(s) \in D
    BY <1>1, <1>9 DEF LastOf
  <2>2. ps[Max(s)] \in X
    BY <2>1
  <2>3. h[s] = KeepStep(ps, P, h[s \ {Max(s)}], Max(s))
    BY <1>8, <1>9
  <2>4. h[s \ {Max(s)}] \in Seq(X \cap P)
    BY <1>9, <2>1
  <2>5. CASE ps[Max(s)] \in P
    <3>1. ps[Max(s)] \in X \cap P
      BY <2>2, <2>5
    <3>2. Append(h[s \ {Max(s)}], ps[Max(s)]) \in Seq(X \cap P)
      BY <2>4, <3>1, AppendProperties
    <3>. QED  BY <2>3, <2>5, <3>2 DEF KeepStep
  <2>6. CASE ps[Max(s)] \notin P
    BY <2>3, <2>4, <2>6 DEF KeepStep
  <2>. QED  BY <2>5, <2>6
<1>10. {} \in F
  <2>1. {} \in SUBSET D
    OBVIOUS
  <2>2. h[{}] = <<>>
    BY <1>8, <2>1, Zenon
  <2>3. h[{}] \in Seq(X \cap P)
    BY <2>2
  <2>. QED  BY <2>1, <2>3
<1>11. SUBSET D \subseteq F
  <2>. HIDE DEF ch, F, D
  <2>. QED  BY <1>1, <1>9, <1>10, FoldInduct
<1>12. Kept(ps, P) = h[D]
  BY <1>6 DEF Kept, FoldLeft, MapThenFoldSet, IsKept, KeepStep
<1>. QED  BY <1>11, <1>12

(* The fold of build_buckets, and the parameters it has placed. *)
NoBuckets == [full |-> <<>>, current |-> <<>>, bytes |-> 0]
Built     == [full : Seq(Seq(Param)), current : Seq(Param), bytes : Nat]
IsBuilt(given, ps, g) ==
  g = [s \in SUBSET DOMAIN ps |->
         IF s = {} THEN NoBuckets ELSE AddToBuckets(given, g[s \ {Max(s)}], ps[Max(s)])]
Placed(acc) == ToSet(acc.current) \cup UNION {ToSet(acc.full[b]) : b \in DOMAIN acc.full}

(* A parameter that is added is placed, and the others stay. *)
LEMMA AddPlaces ==
  ASSUME NEW given \in Scenario, NEW acc \in Built, NEW p \in Param
  PROVE  /\ AddToBuckets(given, acc, p) \in Built
         /\ Placed(acc) \cup {p} \subseteq Placed(AddToBuckets(given, acc, p))
<1>. DEFINE new == acc.bytes + given.bytes[p]
            res == AddToBuckets(given, acc, p)
<1>0. /\ acc.full \in Seq(Seq(Param)) /\ acc.current \in Seq(Param) /\ acc.bytes \in Nat
      /\ given.bytes[p] \in Nat /\ new \in Nat
  BY DEF Built, Scenario
<1>1. CASE acc.current # <<>> /\ new > given.limit
  <2>1. res = [full |-> Append(acc.full, acc.current), current |-> <<p>>, bytes |-> given.bytes[p]]
    BY <1>1 DEF AddToBuckets
  <2>2. res \in Built
    BY <1>0, <2>1 DEF Built
  <2>3. /\ DOMAIN res.full = 1 .. Len(acc.full) + 1
        /\ res.full[Len(acc.full) + 1] = acc.current
        /\ \A b \in DOMAIN acc.full : b \in DOMAIN res.full /\ res.full[b] = acc.full[b]
    BY <1>0, <2>1
  <2>4. Len(acc.full) + 1 \in DOMAIN res.full
    BY <1>0, <2>3
  <2>5. res.current = <<p>> /\ p \in ToSet(<<p>>)
    BY <2>1 DEF ToSet
  <2>. HIDE DEF res
  <2>. QED  BY <2>2, <2>3, <2>4, <2>5 DEF Placed, res
<1>2. CASE ~(acc.current # <<>> /\ new > given.limit)
  <2>1. res = [acc EXCEPT !.current = Append(@, p), !.bytes = new]
    BY <1>2 DEF AddToBuckets
  <2>2. res \in Built /\ res.full = acc.full /\ res.current = Append(acc.current, p)
    <3>1. Append(acc.current, p) \in Seq(Param)
      BY <1>0, AppendProperties
    <3>2. acc = [full |-> acc.full, current |-> acc.current, bytes |-> acc.bytes]
      BY DEF Built
    <3>3. res = [full |-> acc.full, current |-> Append(acc.current, p), bytes |-> new]
      BY <2>1, <3>2
    <3>. QED  BY <1>0, <3>1, <3>3 DEF Built
  <2>3. ToSet(acc.current) \cup {p} \subseteq ToSet(Append(acc.current, p))
    <3>1. /\ DOMAIN Append(acc.current, p) = 1 .. Len(acc.current) + 1
          /\ Append(acc.current, p)[Len(acc.current) + 1] = p
          /\ \A i \in DOMAIN acc.current : /\ i \in DOMAIN Append(acc.current, p)
                                           /\ Append(acc.current, p)[i] = acc.current[i]
      BY <1>0
    <3>2. Len(acc.current) + 1 \in DOMAIN Append(acc.current, p)
      BY <1>0, <3>1
    <3>. QED  BY <3>1, <3>2 DEF ToSet
  <2>. HIDE DEF res
  <2>. QED  BY <2>2, <2>3 DEF Placed, res
<1>. QED  BY <1>1, <1>2

(* Every parameter of the module is in a bucket. *)
LEMMA EveryParameterHasABucket ==
  ASSUME NEW given \in Scenario
  PROVE  /\ build_buckets(given) \in Seq(Seq(Param))
         /\ \A p \in ToSet(given.params) :
              \E b \in 1 .. Len(build_buckets(given)) : p \in ToSet(build_buckets(given)[b])
<1>. DEFINE ps == Reverse(given.params)
<1>1. ps \in Seq(Param) /\ \A p \in ToSet(given.params) : \E i \in DOMAIN ps : ps[i] = p
  <2>1. given.params \in Seq(Param)
    BY DEF Scenario
  <2>2. ps \in Seq(Param) /\ Len(ps) = Len(given.params) /\ DOMAIN ps = 1 .. Len(given.params)
    BY <2>1 DEF Reverse
  <2>. SUFFICES ASSUME NEW p \in ToSet(given.params) PROVE \E i \in DOMAIN ps : ps[i] = p
    BY <2>2
  <2>3. PICK j \in DOMAIN given.params : given.params[j] = p
    BY DEF ToSet
  <2>4. j \in 1 .. Len(given.params) /\ Len(given.params) \in Nat
    BY <2>1
  <2>5. (Len(given.params) - j) + 1 \in 1 .. Len(given.params)
    BY <2>4
  <2>6. (Len(given.params) - ((Len(given.params) - j) + 1)) + 1 = j
    BY <2>4
  <2>7. ps[(Len(given.params) - j) + 1] = p
    BY <2>3, <2>5, <2>6 DEF Reverse
  <2>. QED  BY <2>2, <2>5, <2>7
<1>. HIDE DEF ps
<1>. DEFINE D == DOMAIN ps
            op == [xa \in D \X Built |-> AddToBuckets(given, xa[2], ps[xa[1]])]
            ch == LastOf(ps)
<1>2. Chooses(D, ch) /\ IsFiniteSet(D) /\ \A s \in SUBSET D : s # {} => Max(s) \in s
  BY <1>1, LastIsChosen
<1>3. \A i \in D : ps[i] \in Param
  BY <1>1
<1>4. op \in [D \X Built -> Built]
  BY <1>3, AddPlaces
<1>5. NoBuckets \in Built
  BY DEF NoBuckets, Built
<1>6. PICK g : IsFold(D, Built, NoBuckets, op, ch, g)
  <2>. HIDE DEF ch, op, D
  <2>. QED  BY <1>2, <1>4, <1>5, FoldExists, Zenon
<1>7. \A s \in SUBSET D :
        g[s] = IF s = {} THEN NoBuckets ELSE AddToBuckets(given, g[s \ {Max(s)}], ps[Max(s)])
  <2>. SUFFICES ASSUME NEW s \in SUBSET D, s # {}
                PROVE  g[s] = AddToBuckets(given, g[s \ {Max(s)}], ps[Max(s)])
    BY <1>6 DEF IsFold
  <2>1. ch[s] = Max(s) /\ Max(s) \in D
    BY <1>2 DEF LastOf
  <2>2. s \ {Max(s)} \in SUBSET D
    OBVIOUS
  <2>3. g[s \ {Max(s)}] \in Built
    BY <1>6, <2>2 DEF IsFold
  <2>4. op[<<Max(s), g[s \ {Max(s)}]>>] = AddToBuckets(given, g[s \ {Max(s)}], ps[Max(s)])
    BY <2>1, <2>3
  <2>. HIDE DEF op, ch
  <2>. QED  BY <1>6, <2>1, <2>4 DEF IsFold
<1>8. IsBuilt(given, ps, g)
  <2>1. g = [s \in SUBSET D |-> g[s]]
    BY <1>6 DEF IsFold
  <2>. QED  BY <1>7, <2>1 DEF IsBuilt
<1>9. PICK h : h = CHOOSE f : IsBuilt(given, ps, f)
  OBVIOUS
<1>10. \A s \in SUBSET D :
        h[s] = IF s = {} THEN NoBuckets ELSE AddToBuckets(given, h[s \ {Max(s)}], ps[Max(s)])
  <2>1. IsBuilt(given, ps, h)
    BY <1>8, <1>9
  <2>. QED  BY <2>1 DEF IsBuilt
<1>. DEFINE F == {s \in SUBSET D : h[s] \in Built /\ \A i \in s : ps[i] \in Placed(h[s])}
<1>11. ASSUME NEW s \in SUBSET D, s # {}, s \ {ch[s]} \in F PROVE s \in F
  <2>1. ch[s] = Max(s) /\ Max(s) \in D
    BY <1>2, <1>11 DEF LastOf
  <2>2. ps[Max(s)] \in Param
    BY <1>3, <2>1
  <2>3. h[s] = AddToBuckets(given, h[s \ {Max(s)}], ps[Max(s)])
    BY <1>10, <1>11
  <2>4. h[s \ {Max(s)}] \in Built /\ \A i \in s \ {Max(s)} : ps[i] \in Placed(h[s \ {Max(s)}])
    BY <1>11, <2>1
  <2>5. h[s] \in Built /\ Placed(h[s \ {Max(s)}]) \cup {ps[Max(s)]} \subseteq Placed(h[s])
    BY <2>2, <2>3, <2>4, AddPlaces
  <2>6. \A i \in s : ps[i] \in Placed(h[s])
    BY <2>4, <2>5
  <2>. QED  BY <2>5, <2>6
<1>12. {} \in F
  <2>1. {} \in SUBSET D
    OBVIOUS
  <2>2. h[{}] = NoBuckets
    BY <1>10, <2>1, Zenon
  <2>. QED  BY <1>5, <2>1, <2>2
<1>13. D \in F
  <2>. HIDE DEF ch, F, D
  <2>1. SUBSET D \subseteq F
    BY <1>2, <1>11, <1>12, FoldInduct
  <2>. QED  BY <2>1
<1>14. build_buckets(given) = IF h[D].current = <<>> THEN h[D].full
                              ELSE Append(h[D].full, h[D].current)
  BY <1>9 DEF build_buckets, FoldLeft, MapThenFoldSet, IsBuilt, NoBuckets, ps
<1>. QED
  <2>1. PICK a : a = h[D]
    OBVIOUS
  <2>. HIDE DEF D
  <2>2. a \in Built /\ \A i \in D : ps[i] \in Placed(a)
    BY <1>13, <2>1
  <2>3. a.full \in Seq(Seq(Param)) /\ a.current \in Seq(Param)
    BY <2>2 DEF Built
  <2>4. \A p \in ToSet(given.params) : p \in Placed(a)
    BY <1>1, <2>2 DEF D
  <2>5. CASE a.current = <<>>
    <3>1. build_buckets(given) = a.full /\ ToSet(a.current) = {}
      BY <1>14, <2>1, <2>5 DEF ToSet
    <3>2. DOMAIN a.full = 1 .. Len(a.full)
      BY <2>3
    <3>. QED  BY <2>3, <2>4, <3>1, <3>2 DEF Placed
  <2>6. CASE a.current # <<>>
    <3>1. build_buckets(given) = Append(a.full, a.current)
      BY <1>14, <2>1, <2>6
    <3>. DEFINE bk == Append(a.full, a.current)
    <3>2. /\ bk \in Seq(Seq(Param)) /\ Len(a.full) + 1 \in 1 .. Len(bk)
          /\ bk[Len(a.full) + 1] = a.current
          /\ \A b \in DOMAIN a.full : b \in 1 .. Len(bk) /\ bk[b] = a.full[b]
      BY <2>3
    <3>. HIDE DEF bk
    <3>3. \A p \in Placed(a) : \E b \in 1 .. Len(bk) : p \in ToSet(bk[b])
      BY <3>2 DEF Placed
    <3>. QED  BY <2>4, <3>1, <3>2, <3>3 DEF bk
  <2>. QED  BY <2>5, <2>6

-----------------------------------------------------------------------------
(* Fine and Erase look at these fields only, apart from the shape. *)
Core == {"stage", "at", "bucket", "queue", "back", "pass", "grad", "override", "flat", "ops"}

(* Changing other fields leaves a rank fine. *)
LEMMA CoreFine ==
  ASSUME NEW g, NEW bk, NEW r, NEW s, NEW c, Fine(g, bk, r, s, c), NEW t,
         t = [k \in Fields |-> t[k]], \A k \in Core : t[k] = s[k]
  PROVE  Fine(g, bk, r, t, c)
<1>1. /\ t.stage = s.stage /\ t.at = s.at /\ t.bucket = s.bucket /\ t.queue = s.queue
      /\ t.back = s.back /\ t.pass = s.pass /\ t.grad = s.grad /\ t.override = s.override
      /\ t.flat = s.flat /\ t.ops = s.ops
  BY DEF Core
<1>2. IsState(bk, t)
  BY <1>1 DEF IsState, Fine
<1>. QED  BY <1>1, <1>2 DEF Fine, PassFine, QueueFine, AwaitFine, FlightFine

(* A view e of a state s, field by field. *)
Values == {"grad", "override", "zeroed", "filled"}
IsErased(bk, s, e) ==
  /\ e = [k \in Fields |-> e[k]]
  /\ \A k \in Fields \ Values : e[k] = s[k]
  /\ e.grad = {p \in Param : s.grad[p] # None}
  /\ e.override = [b \in 1 .. Len(bk) |-> DOMAIN s.override[b]]
  /\ e.zeroed = 0 /\ e.filled = {}

(* Erase is the view ... *)
LEMMA Erased ==
  ASSUME NEW bk, NEW s, IsState(bk, s)
  PROVE  IsErased(bk, s, Erase(bk, s))
BY DEF Erase, IsState, Fields, Values, IsErased

(* ... and there is no other. *)
LEMMA ErasedAre ==
  ASSUME NEW bk, NEW t, IsState(bk, t), NEW e, IsErased(bk, t, e)
  PROVE  Erase(bk, t) = e
<1>. DEFINE d == Erase(bk, t)
<1>1. IsErased(bk, t, d)
  BY Erased
<1>. HIDE DEF d
<1>2. \A k \in Fields : d[k] = e[k]
  BY <1>1 DEF IsErased, Values
<1>3. e = [k \in Fields |-> e[k]] /\ d = [k \in Fields |-> d[k]]
  BY <1>1 DEF IsErased
<1>. QED  BY <1>2, <1>3 DEF d

(* Assignments to fields that Erase keeps are the same in the view. *)
LEMMA ErasedUpdate ==
  ASSUME NEW bk, NEW s, IsState(bk, s), NEW t, IsState(bk, t), NEW f,
         NEW U, U \subseteq Fields \ Values,
         \A k \in Fields \ U : t[k] = s[k],
         f = [k \in Fields |-> f[k]],
         \A k \in Fields \ U : f[k] = Erase(bk, s)[k],
         \A k \in U : f[k] = t[k]
  PROVE  Erase(bk, t) = f
<1>1. IsErased(bk, s, Erase(bk, s))
  BY Erased
<1>2. Values \subseteq Fields \ U
  BY DEF Values, Fields
<1>3. /\ f.grad = Erase(bk, s).grad /\ f.override = Erase(bk, s).override
      /\ f.zeroed = Erase(bk, s).zeroed /\ f.filled = Erase(bk, s).filled
      /\ t.grad = s.grad /\ t.override = s.override
  BY <1>2 DEF Values
<1>4. \A k \in Fields \ Values : f[k] = t[k]
  BY <1>1, <1>2 DEF IsErased
<1>5. IsErased(bk, t, f)
  BY <1>1, <1>3, <1>4 DEF IsErased
<1>. QED  BY <1>5, ErasedAre

(* What a step of a rank must do. *)
Prefix(c, d) == Len(c) <= Len(d) /\ \A n \in 1 .. Len(c) : c[n] = d[n]

Goes(r) ==
  /\ st' = [st EXCEPT ![r] = st'[r]]
  /\ calls' = [calls EXCEPT ![r] = calls'[r]]
  /\ Fine(scenario, buckets, r, st'[r], calls'[r])
  /\ UsesAgree => View(buckets, st'[r], calls'[r])
                    = Follow(scenario, buckets, View(buckets, st[r], calls[r]))
  /\ Prefix(calls[r], calls'[r])

(* Without a call only the state matters. *)
LEMMA QuietStep ==
  ASSUME Types, NEW r \in Rank, NEW t, Becomes(r, t),
         Fine(scenario, buckets, r, t, calls[r]),
         UsesAgree => [self |-> Erase(buckets, t), sent |-> Sent(calls[r])]
                        = Follow(scenario, buckets, View(buckets, st[r], calls[r]))
  PROVE  Goes(r)
<1>1. st = [q \in Rank |-> st[q]] /\ calls = [q \in Rank |-> calls[q]]
  BY DEF Types
<1>2. st' = [st EXCEPT ![r] = t] /\ calls' = calls
  BY DEF Becomes
<1>3. st'[r] = t /\ calls'[r] = calls[r]
  BY <1>1, <1>2
<1>4. calls[r] \in Seq(Seq(Entry))
  BY DEF Types, Fine
<1>5. Prefix(calls[r], calls[r])
  BY <1>4 DEF Prefix
<1>6. calls' = [calls EXCEPT ![r] = calls[r]]
  BY <1>1, <1>2
<1>. QED  BY <1>2, <1>3, <1>5, <1>6 DEF Goes, View

(* The view of a rank between two calls of its program. *)
LEMMA ProgramView ==
  ASSUME Types, NEW r \in Rank, NEW op, AtOp(r, op),
         NEW t, Becomes(r, t), Fine(scenario, buckets, r, t, calls[r]),
         \A e : e = Erase(buckets, st[r]) /\ e.pc = st[r].pc /\ scenario.program[e.pc] = op =>
                  Erase(buckets, t) = FromProgram(scenario, buckets, e)
  PROVE  Goes(r)
<1>1. IsState(buckets, st[r])
  BY DEF Types, Fine
<1>. DEFINE e == Erase(buckets, st[r])
<1>2. e.pc = st[r].pc /\ e.stage = "program"
  <2>1. IsErased(buckets, st[r], e)
    BY <1>1, Erased
  <2>. HIDE DEF e
  <2>2. e.pc = st[r].pc /\ e.stage = st[r].stage
    BY <2>1 DEF IsErased, Fields, Values
  <2>. QED  BY <2>2 DEF AtOp
<1>3. scenario.program[e.pc] = op
  BY <1>2 DEF AtOp
<1>4. Erase(buckets, t) = FromProgram(scenario, buckets, e)
  BY <1>2, <1>3
<1>5. Follow(scenario, buckets, View(buckets, st[r], calls[r]))
        = [self |-> FromProgram(scenario, buckets, e), sent |-> Sent(calls[r])]
  <2>. HIDE DEF e
  <2>1. View(buckets, st[r], calls[r]) = [self |-> e, sent |-> Sent(calls[r])]
    BY DEF View, e
  <2>. QED  BY <1>2, <2>1 DEF Follow
<1>. QED  BY <1>4, <1>5, QuietStep

-----------------------------------------------------------------------------
(* The calls of the program that do not communicate. *)

(* Going on to the next call keeps a rank fine, and its view goes on too. *)
LEMMA AfterGoes ==
  ASSUME NEW g, NEW bk, NEW r, NEW s, NEW c, Fine(g, bk, r, s, c)
  PROVE  Fine(g, bk, r, After(s), c) /\ Erase(bk, After(s)) = After(Erase(bk, s))
<1>0. IsState(bk, s)
  BY DEF Fine
<1>1. After(s) = [k \in Fields |-> After(s)[k]] /\ \A k \in Core : After(s)[k] = s[k]
  BY <1>0 DEF After, IsState, Fields, Core
<1>2. Fine(g, bk, r, After(s), c)
  BY <1>1, CoreFine
<1>3. Erase(bk, After(s)) = After(Erase(bk, s))
  BY <1>0 DEF After, IsState, Erase, Fields
<1>. QED  BY <1>2, <1>3

(* So does reset_buckets(). *)
LEMMA ResetGoes ==
  ASSUME NEW r, NEW s, NEW c, Fine(scenario, buckets, r, s, c)
  PROVE  /\ Fine(scenario, buckets, r, reset_buckets(s), c)
         /\ Erase(buckets, reset_buckets(s)) = Reset(scenario, buckets, Erase(buckets, s))
<1>0. IsState(buckets, s)
  BY DEF Fine
<1>. DEFINE t == reset_buckets(s)
            n == [s EXCEPT !.ops = 0]
<1>1. n = [k \in Fields |-> n[k]] /\ n.ops = 0 /\ \A k \in Fields \ {"ops"} : n[k] = s[k]
  BY <1>0 DEF IsState, Fields
<1>2. Fine(scenario, buckets, r, n, c)
  <2>. HIDE DEF n
  <2>1. /\ n.stage = s.stage /\ n.at = s.at /\ n.bucket = s.bucket /\ n.queue = s.queue
        /\ n.back = s.back /\ n.pass = s.pass /\ n.grad = s.grad /\ n.override = s.override
        /\ n.flat = s.flat
    BY <1>1 DEF Fields
  <2>2. n.ops \in Nat /\ n = [k \in Fields |-> n[k]]
    BY <1>1
  <2>3. IsState(buckets, n)
    BY <1>0, <2>1, <2>2 DEF IsState
  <2>. QED  BY <2>1, <2>3 DEF Fine, PassFine, QueueFine, AwaitFine, FlightFine
<1>3. t = [k \in Fields |-> t[k]] /\ \A k \in Core : t[k] = n[k]
  BY <1>0 DEF reset_buckets, IsState, Fields, Core
<1>4. Fine(scenario, buckets, r, t, c)
  <2>. HIDE DEF t, n
  <2>. QED  BY <1>2, <1>3, CoreFine
<1>5. Erase(buckets, t) = Reset(scenario, buckets, Erase(buckets, s))
  BY <1>0 DEF reset_buckets, Reset, Bucket, IsState, Erase, Fields
<1>. QED  BY <1>4, <1>5

(* forward() *)
LEMMA ForwardGoes ==
  ASSUME Types, NEW r \in Rank, Forward(r)
  PROVE  Goes(r)
<1>1. Fine(scenario, buckets, r, st[r], calls[r])
  BY DEF Types
<1>. DEFINE m == IF st[r].auto THEN reset_buckets(st[r]) ELSE st[r]
<1>2. /\ Fine(scenario, buckets, r, m, calls[r])
      /\ Erase(buckets, m) = IF st[r].auto THEN Reset(scenario, buckets, Erase(buckets, st[r]))
                                           ELSE Erase(buckets, st[r])
  BY <1>1, ResetGoes
<1>3. AtOp(r, "forward") /\ Becomes(r, After(m))
  BY DEF Forward
<1>. HIDE DEF m
<1>4. /\ Fine(scenario, buckets, r, After(m), calls[r])
      /\ Erase(buckets, After(m)) = After(Erase(buckets, m))
  BY <1>2, AfterGoes
<1>5. Erase(buckets, st[r]).auto = st[r].auto
  <2>1. IsErased(buckets, st[r], Erase(buckets, st[r]))
    BY <1>1, Erased DEF Fine
  <2>. QED  BY <2>1 DEF IsErased, Fields, Values
<1>6. ASSUME NEW e, e = Erase(buckets, st[r]), scenario.program[e.pc] = "forward"
      PROVE  Erase(buckets, After(m)) = FromProgram(scenario, buckets, e)
  BY <1>2, <1>4, <1>5, <1>6 DEF FromProgram
<1>. QED  BY <1>3, <1>4, <1>6, ProgramView

(* zero_grad() *)
LEMMA ZeroGradGoes ==
  ASSUME Types, NEW r \in Rank, ZeroGrad(r)
  PROVE  Goes(r)
<1>. DEFINE s == st[r]
            m == [s EXCEPT !.grad = [p \in Param |-> None], !.zeroed = s.pass, !.filled = {}]
<1>1. Fine(scenario, buckets, r, s, calls[r]) /\ IsState(buckets, s) /\ s.stage = "program"
  BY DEF Types, Fine, ZeroGrad, AtOp
<1>2. m = [k \in Fields |-> m[k]] /\ m.grad = [p \in Param |-> None]
      /\ \A k \in Core \ {"grad"} : m[k] = s[k]
  BY <1>1 DEF IsState, Fields, Core
<1>3. Fine(scenario, buckets, r, m, calls[r])
  <2>. HIDE DEF m
  <2>1. /\ m.stage = s.stage /\ m.at = s.at /\ m.bucket = s.bucket /\ m.queue = s.queue
        /\ m.back = s.back /\ m.pass = s.pass /\ m.override = s.override
        /\ m.flat = s.flat /\ m.ops = s.ops
    BY <1>2 DEF Core
  <2>2. IsState(buckets, m)
    BY <1>1, <1>2, <2>1 DEF IsState
  <2>. QED  BY <1>1, <2>1, <2>2 DEF Fine, PassFine, QueueFine, AwaitFine, FlightFine
<1>4. Erase(buckets, m) = [Erase(buckets, s) EXCEPT !.grad = {}]
  <2>1. {p \in Param : [q \in Param |-> None][p] # None} = {}
    OBVIOUS
  <2>. QED  BY <1>1, <2>1 DEF IsState, Erase, Fields
<1>5. AtOp(r, "zero_grad") /\ Becomes(r, After(m))
  BY DEF ZeroGrad
<1>. HIDE DEF m, s
<1>6. /\ Fine(scenario, buckets, r, After(m), calls[r])
      /\ Erase(buckets, After(m)) = After(Erase(buckets, m))
  BY <1>3, AfterGoes
<1>7. ASSUME NEW e, e = Erase(buckets, st[r]), scenario.program[e.pc] = "zero_grad"
      PROVE  Erase(buckets, After(m)) = FromProgram(scenario, buckets, e)
  BY <1>4, <1>6, <1>7 DEF FromProgram, s
<1>. QED  BY <1>5, <1>6, <1>7, ProgramView

(* reset_buckets() *)
LEMMA ResetBucketsGoes ==
  ASSUME Types, NEW r \in Rank, ResetBuckets(r)
  PROVE  Goes(r)
<1>1. Fine(scenario, buckets, r, st[r], calls[r])
  BY DEF Types
<1>. DEFINE m == reset_buckets(st[r])
<1>2. /\ Fine(scenario, buckets, r, m, calls[r])
      /\ Erase(buckets, m) = Reset(scenario, buckets, Erase(buckets, st[r]))
  BY <1>1, ResetGoes
<1>3. AtOp(r, "reset_buckets") /\ Becomes(r, After(m))
  BY DEF ResetBuckets
<1>. HIDE DEF m
<1>4. /\ Fine(scenario, buckets, r, After(m), calls[r])
      /\ Erase(buckets, After(m)) = After(Erase(buckets, m))
  BY <1>2, AfterGoes
<1>5. ASSUME NEW e, e = Erase(buckets, st[r]), scenario.program[e.pc] = "reset_buckets"
      PROVE  Erase(buckets, After(m)) = FromProgram(scenario, buckets, e)
  BY <1>2, <1>4, <1>5 DEF FromProgram
<1>. QED  BY <1>3, <1>4, <1>5, ProgramView

(* set_auto_sync(false) *)
LEMMA AutoSyncOffGoes ==
  ASSUME Types, NEW r \in Rank, AutoSyncOff(r)
  PROVE  Goes(r)
<1>. DEFINE m == [st[r] EXCEPT !.auto = FALSE]
<1>1. Fine(scenario, buckets, r, st[r], calls[r]) /\ IsState(buckets, st[r])
  BY DEF Types, Fine
<1>2. m = [k \in Fields |-> m[k]] /\ \A k \in Core : m[k] = st[r][k]
  BY <1>1 DEF IsState, Fields, Core
<1>3. AtOp(r, "auto_sync_off") /\ Becomes(r, After(m))
  BY DEF AutoSyncOff
<1>4. ASSUME NEW e, e = Erase(buckets, st[r])
      PROVE  Erase(buckets, m) = [e EXCEPT !.auto = FALSE]
  BY <1>1, <1>4 DEF IsState, Erase, Fields
<1>. HIDE DEF m
<1>5. Fine(scenario, buckets, r, m, calls[r])
  BY <1>1, <1>2, CoreFine
<1>6. /\ Fine(scenario, buckets, r, After(m), calls[r])
      /\ Erase(buckets, After(m)) = After(Erase(buckets, m))
  BY <1>5, AfterGoes
<1>7. ASSUME NEW e, e = Erase(buckets, st[r]), scenario.program[e.pc] = "auto_sync_off"
      PROVE  Erase(buckets, After(m)) = FromProgram(scenario, buckets, e)
  BY <1>4, <1>6, <1>7 DEF FromProgram
<1>. QED  BY <1>3, <1>6, <1>7, ProgramView

(* The constructor of the guard *)
LEMMA NoSyncGoes ==
  ASSUME Types, NEW r \in Rank, NoSync(r)
  PROVE  Goes(r)
<1>. DEFINE m == [st[r] EXCEPT !.was_enabled = st[r].auto, !.auto = FALSE]
<1>1. Fine(scenario, buckets, r, st[r], calls[r]) /\ IsState(buckets, st[r])
  BY DEF Types, Fine
<1>2. m = [k \in Fields |-> m[k]] /\ \A k \in Core : m[k] = st[r][k]
  BY <1>1 DEF IsState, Fields, Core
<1>3. AtOp(r, "no_sync") /\ Becomes(r, After(m))
  BY DEF NoSync
<1>4. ASSUME NEW e, e = Erase(buckets, st[r])
      PROVE  Erase(buckets, m) = [e EXCEPT !.was_enabled = e.auto, !.auto = FALSE]
  BY <1>1, <1>4 DEF IsState, Erase, Fields
<1>. HIDE DEF m
<1>5. Fine(scenario, buckets, r, m, calls[r])
  BY <1>1, <1>2, CoreFine
<1>6. /\ Fine(scenario, buckets, r, After(m), calls[r])
      /\ Erase(buckets, After(m)) = After(Erase(buckets, m))
  BY <1>5, AfterGoes
<1>7. ASSUME NEW e, e = Erase(buckets, st[r]), scenario.program[e.pc] = "no_sync"
      PROVE  Erase(buckets, After(m)) = FromProgram(scenario, buckets, e)
  BY <1>4, <1>6, <1>7 DEF FromProgram
<1>. QED  BY <1>3, <1>6, <1>7, ProgramView

(* invalidate_unused_cache() *)
LEMMA InvalidateUnusedCacheGoes ==
  ASSUME Types, NEW r \in Rank, InvalidateUnusedCache(r)
  PROVE  Goes(r)
<1>. DEFINE m == [st[r] EXCEPT !.cached = FALSE, !.unused = {}]
<1>1. Fine(scenario, buckets, r, st[r], calls[r]) /\ IsState(buckets, st[r])
  BY DEF Types, Fine
<1>2. m = [k \in Fields |-> m[k]] /\ \A k \in Core : m[k] = st[r][k]
  BY <1>1 DEF IsState, Fields, Core
<1>3. AtOp(r, "invalidate_unused_cache") /\ Becomes(r, After(m))
  BY DEF InvalidateUnusedCache
<1>4. ASSUME NEW e, e = Erase(buckets, st[r])
      PROVE  Erase(buckets, m) = [e EXCEPT !.cached = FALSE, !.unused = {}]
  BY <1>1, <1>4 DEF IsState, Erase, Fields
<1>. HIDE DEF m
<1>5. Fine(scenario, buckets, r, m, calls[r])
  BY <1>1, <1>2, CoreFine
<1>6. /\ Fine(scenario, buckets, r, After(m), calls[r])
      /\ Erase(buckets, After(m)) = After(Erase(buckets, m))
  BY <1>5, AfterGoes
<1>7. ASSUME NEW e, e = Erase(buckets, st[r]), scenario.program[e.pc] = "invalidate_unused_cache"
      PROVE  Erase(buckets, After(m)) = FromProgram(scenario, buckets, e)
  BY <1>4, <1>6, <1>7 DEF FromProgram
<1>. QED  BY <1>3, <1>6, <1>7, ProgramView

(* backward() begins: there is a pass to come. *)
LEMMA BackwardGoes ==
  ASSUME Types, NEW r \in Rank, Backward(r)
  PROVE  Goes(r)
<1>. DEFINE s == st[r]
            t == [s EXCEPT !.stage = "backward", !.pass = @ + 1, !.at = 1]
<1>1. /\ Fine(scenario, buckets, r, s, calls[r]) /\ IsState(buckets, s)
      /\ s.pass < Len(scenario.uses)
      /\ AtOp(r, "backward") /\ Becomes(r, t)
  BY DEF Types, Fine, Backward
<1>2. Len(scenario.uses) \in Nat /\ s.pass \in Nat
  BY <1>1, ScenarioAssumption DEF Types, Scenario, IsState
<1>3. /\ t = [k \in Fields |-> t[k]] /\ t.stage = "backward" /\ t.pass = s.pass + 1 /\ t.at = 1
      /\ t.queue = s.queue /\ t.grad = s.grad /\ t.override = s.override
      /\ t.flat = s.flat /\ t.ops = s.ops
  BY <1>1 DEF IsState, Fields
<1>5. IsState(buckets, t)
  <2>. HIDE DEF t
  <2>1. t.at \in Nat /\ t.pass \in Nat
    BY <1>2, <1>3
  <2>. QED  BY <1>1, <1>3, <2>1 DEF IsState
<1>4. Erase(buckets, t) = [Erase(buckets, s) EXCEPT !.stage = "backward", !.pass = @ + 1, !.at = 1]
  <2>. DEFINE e == Erase(buckets, s)
              f == [e EXCEPT !.stage = "backward", !.pass = @ + 1, !.at = 1]
              U == {"stage", "pass", "at"}
  <2>1. IsErased(buckets, s, e)
    BY <1>1, Erased
  <2>2. /\ f = [k \in Fields |-> f[k]] /\ \A k \in Fields \ U : f[k] = e[k]
        /\ f.stage = "backward" /\ f.pass = e.pass + 1 /\ f.at = 1 /\ e.pass = s.pass
    <3>. HIDE DEF e
    <3>. QED  BY <2>1 DEF IsErased, Fields, Values
  <2>3. \A k \in Fields \ U : t[k] = s[k]
    BY <1>1 DEF IsState, Fields
  <2>4. U \subseteq Fields \ Values /\ \A k \in U : f[k] = t[k]
    BY <1>3, <2>2 DEF Fields, Values
  <2>5. IsState(buckets, s)
    BY <1>1
  <2>. HIDE DEF f, U, t, s
  <2>6. Erase(buckets, t) = f
    BY <1>5, <2>2, <2>3, <2>4, <2>5, ErasedUpdate
  <2>. QED  BY <2>6 DEF f
<1>. HIDE DEF t
<1>6. PassFine(scenario, r, t)
  BY <1>1, <1>2, <1>3 DEF PassFine
<1>7. Fine(scenario, buckets, r, t, calls[r])
  BY <1>1, <1>3, <1>5, <1>6 DEF Fine, QueueFine, AwaitFine, FlightFine
<1>8. ASSUME NEW e, e = Erase(buckets, st[r]), scenario.program[e.pc] = "backward"
      PROVE  Erase(buckets, t) = FromProgram(scenario, buckets, e)
  BY <1>4, <1>8 DEF FromProgram
<1>. QED  BY <1>1, <1>7, <1>8, ProgramView

(* The search for unused parameters sees which gradients exist, no values. *)
LEMMA DetectGoes ==
  ASSUME Types, NEW r, NEW s, NEW c, Fine(scenario, buckets, r, s, c)
  PROVE  /\ Fine(scenario, buckets, r, Detect(s), c)
         /\ Erase(buckets, Detect(s)) = FindUnused(scenario, Erase(buckets, s))
         /\ Detect(s).stage = s.stage
<1>. DEFINE u == {p \in ToSet(scenario.params) : s.grad[p] = None}
            m == [s EXCEPT !.unused = u, !.cached = TRUE]
            e == Erase(buckets, s)
<1>0. IsState(buckets, s)
  BY DEF Fine
<1>1. IsErased(buckets, s, e)
  BY <1>0, Erased
<1>2. e.cached = s.cached /\ e.grad = {p \in Param : s.grad[p] # None}
  <2>. HIDE DEF e
  <2>. QED  BY <1>1 DEF IsErased, Fields, Values
<1>3. u = ToSet(scenario.params) \ e.grad
  <2>1. ToSet(scenario.params) \subseteq Param
    BY ScenarioAssumption DEF Types, Scenario, ToSet
  <2>. HIDE DEF e
  <2>. QED  BY <1>2, <2>1
<1>4. /\ m = [k \in Fields |-> m[k]] /\ m.stage = s.stage
      /\ \A k \in Core : m[k] = s[k]
  <2>. HIDE DEF u
  <2>. QED  BY <1>0 DEF IsState, Fields, Core
<1>5. Erase(buckets, m) = [e EXCEPT !.unused = u, !.cached = TRUE]
  <2>. HIDE DEF u
  <2>. QED  BY <1>0 DEF IsState, Erase, Fields
<1>. HIDE DEF e, u, m
<1>6. Fine(scenario, buckets, r, m, c)
  BY <1>4, CoreFine
<1>7. Detect(s) = IF scenario.find_unused /\ ~s.cached THEN m ELSE s
  BY DEF Detect, m, u
<1>8. FindUnused(scenario, e) = IF scenario.find_unused /\ ~s.cached
                                THEN [e EXCEPT !.unused = u, !.cached = TRUE] ELSE e
  BY <1>2, <1>3 DEF FindUnused
<1>. QED  BY <1>4, <1>5, <1>6, <1>7, <1>8 DEF e

(* The sweep of synchronize_gradients() begins. *)
LEMMA SweepGoes ==
  ASSUME Types, NEW r, NEW s, NEW c, Fine(scenario, buckets, r, s, c), s.stage = "program"
  PROVE  /\ Fine(scenario, buckets, r, Sweep(s), c)
         /\ Erase(buckets, Sweep(s)) = SweepFrom(scenario, Erase(buckets, s))
<1>. DEFINE d == Detect(s)
            t == [d EXCEPT !.stage = "sweep", !.at = 1]
<1>1. /\ Fine(scenario, buckets, r, d, c) /\ IsState(buckets, d)
      /\ Erase(buckets, d) = FindUnused(scenario, Erase(buckets, s))
      /\ d.stage = "program"
  BY DetectGoes DEF Fine
<1>. HIDE DEF d
<1>2. /\ t = [k \in Fields |-> t[k]] /\ t.stage = "sweep" /\ t.pass = d.pass /\ t.at = 1
      /\ t.queue = d.queue /\ t.grad = d.grad /\ t.override = d.override
      /\ t.flat = d.flat /\ t.ops = d.ops
  BY <1>1 DEF IsState, Fields
<1>5. IsState(buckets, t)
  <2>. HIDE DEF t
  <2>1. t.at \in Nat
    BY <1>2
  <2>. QED  BY <1>1, <1>2, <2>1 DEF IsState
<1>3. Erase(buckets, t) = [Erase(buckets, d) EXCEPT !.stage = "sweep", !.at = 1]
  <2>. DEFINE e == Erase(buckets, d)
              f == [e EXCEPT !.stage = "sweep", !.at = 1]
              U == {"stage", "at"}
  <2>1. IsErased(buckets, d, e)
    BY <1>1, Erased
  <2>2. /\ f = [k \in Fields |-> f[k]] /\ \A k \in Fields \ U : f[k] = e[k]
        /\ f.stage = "sweep" /\ f.at = 1
    <3>. HIDE DEF e
    <3>. QED  BY <2>1 DEF IsErased, Fields, Values
  <2>3. \A k \in Fields \ U : t[k] = d[k]
    BY <1>1 DEF IsState, Fields
  <2>4. U \subseteq Fields \ Values /\ \A k \in U : f[k] = t[k]
    BY <1>2, <2>2 DEF Fields, Values
  <2>. HIDE DEF f, U, t
  <2>. QED  BY <1>1, <1>5, <2>2, <2>3, <2>4, ErasedUpdate DEF f
<1>4. Sweep(s) = t
  BY DEF Sweep, d
<1>. HIDE DEF t
<1>6. Fine(scenario, buckets, r, t, c)
  BY <1>1, <1>2, <1>5 DEF Fine, PassFine, QueueFine, AwaitFine, FlightFine
<1>. QED  BY <1>1, <1>3, <1>4, <1>6 DEF SweepFrom

(* synchronize_gradients() *)
LEMMA SynchronizeGradientsGoes ==
  ASSUME Types, NEW r \in Rank, SynchronizeGradients(r)
  PROVE  Goes(r)
<1>1. /\ Fine(scenario, buckets, r, st[r], calls[r]) /\ st[r].stage = "program"
      /\ AtOp(r, "synchronize_gradients") /\ Becomes(r, Sweep(st[r]))
  BY DEF Types, SynchronizeGradients, AtOp
<1>2. /\ Fine(scenario, buckets, r, Sweep(st[r]), calls[r])
      /\ Erase(buckets, Sweep(st[r])) = SweepFrom(scenario, Erase(buckets, st[r]))
  BY <1>1, SweepGoes
<1>3. ASSUME NEW e, e = Erase(buckets, st[r]), scenario.program[e.pc] = "synchronize_gradients"
      PROVE  Erase(buckets, Sweep(st[r])) = FromProgram(scenario, buckets, e)
  BY <1>2, <1>3 DEF FromProgram
<1>. QED  BY <1>1, <1>2, <1>3, ProgramView

(* The destructor of the guard *)
LEMMA EndNoSyncGoes ==
  ASSUME Types, NEW r \in Rank, EndNoSync(r)
  PROVE  Goes(r)
<1>. DEFINE s == st[r]
            m == [s EXCEPT !.auto = s.was_enabled]
            t == IF m.auto THEN Sweep(m) ELSE After(m)
            e == Erase(buckets, s)
            f == [e EXCEPT !.auto = e.was_enabled]
<1>1. /\ Fine(scenario, buckets, r, s, calls[r]) /\ IsState(buckets, s) /\ s.stage = "program"
      /\ AtOp(r, "end_no_sync") /\ Becomes(r, t)
  BY DEF Types, Fine, EndNoSync, AtOp
<1>2. m = [k \in Fields |-> m[k]] /\ m.auto = s.was_enabled /\ \A k \in Core : m[k] = s[k]
  BY <1>1 DEF IsState, Fields, Core
<1>3. Erase(buckets, m) = f /\ e.was_enabled = s.was_enabled
  BY <1>1 DEF IsState, Erase, Fields
<1>. HIDE DEF m, f
<1>4. Fine(scenario, buckets, r, m, calls[r]) /\ m.stage = "program"
  <2>1. Fine(scenario, buckets, r, m, calls[r])
    BY <1>1, <1>2, CoreFine
  <2>2. m.stage = s.stage
    BY <1>2 DEF Core
  <2>. QED  BY <1>1, <2>1, <2>2
<1>5. /\ Fine(scenario, buckets, r, Sweep(m), calls[r])
      /\ Erase(buckets, Sweep(m)) = SweepFrom(scenario, f)
  BY <1>3, <1>4, SweepGoes
<1>6. /\ Fine(scenario, buckets, r, After(m), calls[r])
      /\ Erase(buckets, After(m)) = After(f)
  BY <1>3, <1>4, AfterGoes
<1>7. Fine(scenario, buckets, r, t, calls[r])
  BY <1>5, <1>6
<1>8. ASSUME scenario.program[e.pc] = "end_no_sync"
      PROVE  Erase(buckets, t) = FromProgram(scenario, buckets, e)
  <2>1. FromProgram(scenario, buckets, e) = IF e.was_enabled THEN SweepFrom(scenario, f) ELSE After(f)
    <3>. HIDE DEF e
    <3>. QED  BY <1>8 DEF FromProgram, f
  <2>. QED  BY <1>2, <1>3, <1>5, <1>6, <2>1
<1>. HIDE DEF t
<1>. QED  BY <1>1, <1>7, <1>8, ProgramView

-----------------------------------------------------------------------------
(* Gradient hooks. *)

(* What waits in a bucket are gradients of parameters. *)
LEMMA PartialIs ==
  ASSUME NEW f
  PROVE  f \in Partial <=> f \in [DOMAIN f -> Grad] /\ DOMAIN f \subseteq Param
<1>1. ASSUME f \in Partial PROVE f \in [DOMAIN f -> Grad] /\ DOMAIN f \subseteq Param
  <2>1. PICK S \in SUBSET Param : f \in [S -> Grad]
    BY <1>1 DEF Partial
  <2>. QED  BY <2>1
<1>2. ASSUME f \in [DOMAIN f -> Grad], DOMAIN f \subseteq Param PROVE f \in Partial
  BY <1>2 DEF Partial
<1>. QED  BY <1>1, <1>2

(* What a rank computes is a gradient, and so is a sum of two. *)
LEMMA GradientTypes ==
  ASSUME NEW r, NEW k
  PROVE  /\ Local(r, k) \in Grad
         /\ \A old \in Grad \cup {None} : \A g \in Grad : Accumulate(old, g) \in Grad
<1>1. World \in Nat
  BY RankAssumption, FS_CardinalityType DEF World
<1>. QED  BY <1>1, NoneAssumption DEF Local, Accumulate, Grad

(* A hook is one of a parameter in a bucket, and all ranks are at it when   *)
(* they have the same view.                                                 *)
LEMMA HookFacts ==
  ASSUME Types, NEW r \in Rank, st[r].pass # 0, st[r].at # 0
  PROVE  /\ st[r].pass \in DOMAIN scenario.uses /\ Uses(r) \in Seq(Param)
         /\ st[r].at <= Len(Uses(r)) => /\ Hooked(r) \in Param
                                        /\ BucketOf(Hooked(r)) \in Bucket
         /\ UsesAgree => Order(scenario, Erase(buckets, st[r])) = Uses(r)
         /\ UsesAgree => HookAt(scenario, Erase(buckets, st[r])) = Hooked(r)
         /\ Computed(r) \in Grad
<1>. DEFINE s == st[r]
            e == Erase(buckets, s)
<1>1. /\ IsState(buckets, s) /\ s.pass \in Nat /\ s.at \in Nat /\ s.pass <= Len(scenario.uses)
      /\ scenario.uses \in Seq([Rank -> Seq(Param)]) /\ scenario \in Scenarios
  BY ScenarioAssumption DEF Types, Fine, PassFine, IsState, Scenario
<1>2. s.pass \in DOMAIN scenario.uses
  BY <1>1
<1>3. Uses(r) \in Seq(Param)
  BY <1>1, <1>2 DEF Uses
<1>4. ASSUME s.at <= Len(Uses(r))
      PROVE  Hooked(r) \in Param /\ BucketOf(Hooked(r)) \in Bucket
  <2>1. s.at \in DOMAIN Uses(r)
    BY <1>1, <1>3, <1>4
  <2>2. Hooked(r) \in Param /\ Hooked(r) \in ToSet(Uses(r))
    BY <1>3, <2>1 DEF Hooked, ToSet
  <2>3. Hooked(r) \in ToSet(scenario.params)
    BY <1>1, <1>2, <2>2, ScenarioAssumption DEF Uses
  <2>4. \E b \in Bucket : Hooked(r) \in ToSet(buckets[b])
    BY <2>3 DEF Types
  <2>. QED  BY <2>2, <2>4 DEF BucketOf
<1>5. e.pass = s.pass /\ e.at = s.at
  <2>1. IsErased(buckets, s, e)
    BY <1>1, Erased
  <2>. HIDE DEF e
  <2>. QED  BY <2>1 DEF IsErased, Fields, Values
<1>6. ASSUME UsesAgree PROVE Order(scenario, e) = Uses(r)
  <2>1. (CHOOSE q \in Rank : TRUE) \in Rank
    BY RankAssumption
  <2>. HIDE DEF e
  <2>. QED  BY <1>2, <1>5, <1>6, <2>1 DEF Order, Uses, UsesAgree
<1>7. UsesAgree => HookAt(scenario, e) = Hooked(r)
  BY <1>5, <1>6 DEF HookAt, Hooked
<1>8. Computed(r) \in Grad
  BY GradientTypes DEF Computed
<1>. QED  BY <1>2, <1>3, <1>4, <1>6, <1>7, <1>8

(* The engine stores what a hook returned. *)
LEMMA DeliverGoes ==
  ASSUME Types, NEW r \in Rank, NEW s, IsState(buckets, s), NEW c \in Seq(Seq(Entry)),
         s.pass # 0, s.pass <= Len(scenario.uses), FlightFine(buckets, s, c),
         NEW p \in Param, NEW x \in Grad
  PROVE  /\ Fine(scenario, buckets, r, Deliver(s, p, x), c)
         /\ Erase(buckets, Deliver(s, p, x)) = Take(Erase(buckets, s), p)
<1>. DEFINE y == Accumulate(s.grad[p], x)
            t == [s EXCEPT !.grad[p] = y, !.at = @ + 1, !.stage = "backward"]
<1>1. y \in Grad /\ y # None
  <2>1. s.grad[p] \in Grad \cup {None}
    BY DEF IsState
  <2>. QED  BY <2>1, GradientTypes, NoneAssumption
<1>2. Deliver(s, p, x) = t
  BY DEF Deliver
<1>. HIDE DEF y
<1>3. /\ t = [k \in Fields |-> t[k]] /\ t.stage = "backward" /\ t.pass = s.pass /\ t.at = s.at + 1
      /\ t.queue = s.queue /\ t.grad = [s.grad EXCEPT ![p] = y] /\ t.override = s.override
      /\ t.flat = s.flat /\ t.ops = s.ops
  BY DEF IsState, Fields
<1>8. \A k \in Fields \ {"grad", "at", "stage"} : t[k] = s[k]
  BY DEF IsState, Fields
<1>. HIDE DEF t
<1>5. IsState(buckets, t)
  <2>1. t.at \in Nat /\ t.at # 0
    BY <1>3 DEF IsState
  <2>2. t.grad \in [Param -> Grad \cup {None}]
    BY <1>1, <1>3 DEF IsState
  <2>. QED  BY <1>3, <2>1, <2>2 DEF IsState
<1>4. Erase(buckets, t) = Take(Erase(buckets, s), p)
  <2>. DEFINE e == Erase(buckets, s)
              f == Take(e, p)
  <2>1. {q \in Param : t.grad[q] # None} = {q \in Param : s.grad[q] # None} \cup {p}
    BY <1>1, <1>3 DEF IsState
  <2>2. IsErased(buckets, s, e)
    BY Erased
  <2>. HIDE DEF e
  <2>3. /\ f = [k \in Fields |-> f[k]]
        /\ \A k \in Fields \ {"grad", "at", "stage"} : f[k] = e[k]
        /\ f.grad = e.grad \cup {p} /\ f.at = e.at + 1 /\ f.stage = "backward" /\ e.at = s.at
    BY <2>2 DEF IsErased, Fields, Values, Take
  <2>. HIDE DEF f
  <2>4. \A k \in Fields \ Values : f[k] = t[k]
    BY <1>3, <1>8, <2>2, <2>3 DEF IsErased, Values
  <2>5. /\ f.override = e.override /\ f.zeroed = e.zeroed /\ f.filled = e.filled
    BY <2>3 DEF Fields
  <2>7. f.grad = {q \in Param : t.grad[q] # None}
    BY <2>1, <2>2, <2>3 DEF IsErased
  <2>8. f.override = [b \in 1 .. Len(buckets) |-> DOMAIN t.override[b]]
    BY <1>3, <2>2, <2>5 DEF IsErased
  <2>9. f.zeroed = 0 /\ f.filled = {}
    BY <2>2, <2>5 DEF IsErased
  <2>6. IsErased(buckets, t, f)
    BY <2>3, <2>4, <2>7, <2>8, <2>9 DEF IsErased
  <2>. QED  BY <1>5, <2>6, ErasedAre DEF e, f
<1>6. PassFine(scenario, r, t)
  <2>1. t.at # 0
    BY <1>3 DEF IsState
  <2>. QED  BY <1>3, <2>1 DEF PassFine
<1>7. Fine(scenario, buckets, r, t, c)
  BY <1>3, <1>5, <1>6 DEF Fine, QueueFine, AwaitFine, FlightFine
<1>. QED  BY <1>2, <1>4, <1>7

(* mark_param_ready() *)
LEMMA MarkGoes ==
  ASSUME Types, NEW r \in Rank, st[r].pass # 0, st[r].at # 0, st[r].at <= Len(Uses(r))
  PROVE  LET s == st[r]
             m == mark_param_ready(r)
             b == BucketOf(Hooked(r))
         IN  /\ IsState(buckets, m)
             /\ \A k \in Fields \ {"override", "pending"} : m[k] = s[k]
             /\ Erase(buckets, m) = Mark(Erase(buckets, s), Hooked(r), b)
             /\ FlightFine(buckets, m, calls[r])
<1>. DEFINE s == st[r]
            h == Hooked(r)
            b == BucketOf(h)
            x == Computed(r)
            o == [p \in DOMAIN s.override[b] \cup {h} |-> IF p = h THEN x ELSE s.override[b][p]]
            m == [s EXCEPT !.override[b] = o, !.pending[b] = @ + 1]
<1>1. h \in Param /\ b \in 1 .. Len(buckets) /\ x \in Grad
  BY HookFacts DEF Bucket
<1>2. mark_param_ready(r) = m
  BY DEF mark_param_ready
<1>3. IsState(buckets, s) /\ FlightFine(buckets, s, calls[r])
  BY DEF Types, Fine
<1>. HIDE DEF b, h, s, x
<1>4. o \in Partial /\ DOMAIN o = DOMAIN s.override[b] \cup {h}
  <2>1. s.override[b] \in Partial
    BY <1>1, <1>3 DEF IsState
  <2>2. s.override[b] \in [DOMAIN s.override[b] -> Grad] /\ DOMAIN s.override[b] \subseteq Param
    BY <2>1, PartialIs
  <2>3. o \in [DOMAIN s.override[b] \cup {h} -> Grad]
    BY <1>1, <2>2
  <2>4. DOMAIN s.override[b] \cup {h} \in SUBSET Param
    BY <1>1, <2>2
  <2>. QED  BY <2>3, <2>4 DEF Partial
<1>. HIDE DEF o
<1>5. /\ m = [k \in Fields |-> m[k]] /\ m.override = [s.override EXCEPT ![b] = o]
      /\ m.pending = [s.pending EXCEPT ![b] = @ + 1]
      /\ \A k \in Fields \ {"override", "pending"} : m[k] = s[k]
  BY <1>3 DEF IsState, Fields
<1>. HIDE DEF m
<1>7. /\ m.stage = s.stage /\ m.at = s.at /\ m.queue = s.queue /\ m.pass = s.pass
      /\ m.grad = s.grad /\ m.flat = s.flat /\ m.ops = s.ops
  BY <1>5 DEF Fields
<1>8. m.override \in [1 .. Len(buckets) -> Partial]
  BY <1>1, <1>3, <1>4, <1>5 DEF IsState
<1>9. IsState(buckets, m)
  BY <1>3, <1>5, <1>7, <1>8 DEF IsState
<1>6. Erase(buckets, m) = Mark(Erase(buckets, s), h, b)
  <2>. DEFINE e == Erase(buckets, s)
              f == Mark(e, h, b)
  <2>1. [a \in 1 .. Len(buckets) |-> DOMAIN m.override[a]]
          = [[a \in 1 .. Len(buckets) |-> DOMAIN s.override[a]] EXCEPT ![b] = @ \cup {h}]
    BY <1>1, <1>3, <1>4, <1>5 DEF IsState
  <2>2. IsErased(buckets, s, e)
    BY <1>3, Erased
  <2>. HIDE DEF e
  <2>3. /\ f = [k \in Fields |-> f[k]]
        /\ \A k \in Fields \ {"override", "pending"} : f[k] = e[k]
        /\ f.override = [e.override EXCEPT ![b] = @ \cup {h}]
        /\ f.pending = [e.pending EXCEPT ![b] = @ + 1] /\ e.pending = s.pending
    BY <2>2 DEF IsErased, Fields, Values, Mark
  <2>. HIDE DEF f
  <2>4. \A k \in Fields \ Values : f[k] = m[k]
    BY <1>5, <2>2, <2>3 DEF IsErased, Values
  <2>5. f.grad = e.grad /\ f.zeroed = e.zeroed /\ f.filled = e.filled
    BY <2>3 DEF Fields
  <2>6. f.override = [a \in 1 .. Len(buckets) |-> DOMAIN m.override[a]]
    BY <2>1, <2>2, <2>3 DEF IsErased
  <2>8. f.grad = {q \in Param : m.grad[q] # None}
    BY <1>7, <2>2, <2>5 DEF IsErased
  <2>9. f.zeroed = 0 /\ f.filled = {}
    BY <2>2, <2>5 DEF IsErased
  <2>7. IsErased(buckets, m, f)
    BY <2>3, <2>4, <2>6, <2>8, <2>9 DEF IsErased
  <2>. QED  BY <1>9, <2>7, ErasedAre DEF e, f
<1>10. FlightFine(buckets, m, calls[r])
  BY <1>3, <1>7 DEF FlightFine
<1>. QED  BY <1>2, <1>5, <1>6, <1>9, <1>10 DEF s, h, b

(* Which rule a view follows. *)
LEMMA FollowIs ==
  ASSUME Types, NEW r \in Rank, NEW v, v = View(buckets, st[r], calls[r])
  PROVE  /\ v.self = Erase(buckets, st[r]) /\ v.sent = Sent(calls[r])
         /\ v = [self |-> v.self, sent |-> v.sent]
         /\ \A k \in Fields \ Values : v.self[k] = st[r][k]
         /\ st[r].stage = "backward" => Follow(scenario, buckets, v) = FromBackward(scenario, buckets, v)
         /\ st[r].stage = "reduce" => Follow(scenario, buckets, v) = FromReduce(scenario, v)
         /\ st[r].stage = "wait" =>
              Follow(scenario, buckets, v) = [self |-> FromWait(v.self), sent |-> v.sent]
         /\ st[r].stage = "sweep" => Follow(scenario, buckets, v) = FromSweep(scenario, buckets, v)
<1>1. v.self = Erase(buckets, st[r]) /\ v.sent = Sent(calls[r]) /\ v = [self |-> v.self, sent |-> v.sent]
  BY DEF View
<1>2. IsErased(buckets, st[r], v.self)
  BY <1>1, Erased DEF Types, Fine
<1>3. \A k \in Fields \ Values : v.self[k] = st[r][k]
  BY <1>2 DEF IsErased
<1>4. v.self.stage = st[r].stage
  BY <1>3 DEF Fields, Values
<1>. QED  BY <1>1, <1>3, <1>4 DEF Follow

(* The hook that a view is at. *)
LEMMA HookView ==
  ASSUME Types, NEW r \in Rank, AtHook(r)
  PROVE  /\ st[r].stage = "backward"
         /\ st[r].pass # 0 /\ st[r].at # 0 /\ st[r].at <= Len(Uses(r)) /\ Len(Uses(r)) \in Nat
         /\ st[r].pass <= Len(scenario.uses)
         /\ Hooked(r) \in Param /\ BucketOf(Hooked(r)) \in Bucket /\ Computed(r) \in Grad
         /\ UsesAgree => LET e == Erase(buckets, st[r])
                         IN  /\ HookAt(scenario, e) = Hooked(r)
                             /\ BucketFor(buckets, Hooked(r)) = BucketOf(Hooked(r))
                             /\ ~(e.at > Len(Order(scenario, e)))
                             /\ e.auto = st[r].auto /\ e.ready = st[r].ready
<1>1. /\ st[r].stage = "backward"
      /\ st[r].pass # 0 /\ st[r].at # 0 /\ st[r].at <= Len(Uses(r)) /\ st[r].at \in Nat
      /\ st[r].pass <= Len(scenario.uses)
  BY DEF Types, Fine, PassFine, AtHook, IsState
<1>2. Hooked(r) \in Param /\ BucketOf(Hooked(r)) \in Bucket /\ Uses(r) \in Seq(Param) /\ Computed(r) \in Grad
  BY <1>1, HookFacts
<1>3. ASSUME UsesAgree, NEW e, e = Erase(buckets, st[r])
      PROVE  /\ HookAt(scenario, e) = Hooked(r)
             /\ BucketFor(buckets, Hooked(r)) = BucketOf(Hooked(r))
             /\ ~(e.at > Len(Order(scenario, e)))
             /\ e.auto = st[r].auto /\ e.ready = st[r].ready
  <2>1. HookAt(scenario, e) = Hooked(r) /\ Order(scenario, e) = Uses(r)
    BY <1>1, <1>3, HookFacts
  <2>2. IsErased(buckets, st[r], e)
    BY <1>3, Erased DEF Types, Fine
  <2>3. e.auto = st[r].auto /\ e.ready = st[r].ready /\ e.at = st[r].at
    BY <2>2 DEF IsErased, Fields, Values
  <2>4. BucketFor(buckets, Hooked(r)) = BucketOf(Hooked(r))
    BY DEF BucketFor, BucketOf, Bucket
  <2>5. ~(e.at > Len(Order(scenario, e)))
    BY <1>1, <1>2, <2>1, <2>3
  <2>. QED  BY <2>1, <2>3, <2>4, <2>5
<1>. QED  BY <1>1, <1>2, <1>3

(* A hook that is not counted. *)
LEMMA HookPassesGoes ==
  ASSUME Types, NEW r \in Rank, HookPasses(r)
  PROVE  Goes(r)
<1>. DEFINE t == Deliver(st[r], Hooked(r), Computed(r))
            v == View(buckets, st[r], calls[r])
            e == Erase(buckets, st[r])
<1>1. AtHook(r) /\ ~Counts(r) /\ Becomes(r, t)
  BY DEF HookPasses
<1>2. Fine(scenario, buckets, r, t, calls[r]) /\ Erase(buckets, t) = Take(e, Hooked(r))
  BY <1>1, HookView, DeliverGoes DEF Types, Fine
<1>3. ASSUME UsesAgree
      PROVE  Follow(scenario, buckets, v) = [self |-> Take(e, Hooked(r)), sent |-> Sent(calls[r])]
  <2>1. /\ HookAt(scenario, e) = Hooked(r) /\ BucketFor(buckets, Hooked(r)) = BucketOf(Hooked(r))
        /\ ~(e.at > Len(Order(scenario, e)))
        /\ e.auto = st[r].auto /\ e.ready = st[r].ready
    BY <1>1, <1>3, HookView
  <2>2. /\ Follow(scenario, buckets, v) = FromBackward(scenario, buckets, v)
        /\ v.self = e /\ v.sent = Sent(calls[r])
    BY <1>1, HookView, FollowIs
  <2>3. ~e.auto \/ e.ready[BucketFor(buckets, Hooked(r))]
    BY <1>1, <2>1 DEF Counts
  <2>. HIDE DEF e, v
  <2>. QED  BY <2>1, <2>2, <2>3 DEF FromBackward
<1>. HIDE DEF t, e, v
<1>. QED  BY <1>1, <1>2, <1>3, QuietStep DEF v

(* A hook that is counted and does not fill its bucket. *)
LEMMA HookCountsGoes ==
  ASSUME Types, NEW r \in Rank, HookCounts(r)
  PROVE  Goes(r)
<1>. DEFINE m == mark_param_ready(r)
            h == Hooked(r)
            b == BucketOf(h)
            t == Deliver(m, h, Computed(r))
            v == View(buckets, st[r], calls[r])
            e == Erase(buckets, st[r])
<1>1. AtHook(r) /\ Counts(r) /\ ~Fills(r) /\ Becomes(r, t)
  BY DEF HookCounts
<1>2. /\ IsState(buckets, m) /\ FlightFine(buckets, m, calls[r])
      /\ Erase(buckets, m) = Mark(e, h, b)
      /\ \A k \in Fields \ {"override", "pending"} : m[k] = st[r][k]
  BY <1>1, HookView, MarkGoes
<1>3. m.pass = st[r].pass
  <2>. HIDE DEF m
  <2>. QED  BY <1>2 DEF Fields
<1>4. Fine(scenario, buckets, r, t, calls[r]) /\ Erase(buckets, t) = Take(Mark(e, h, b), h)
  <2>1. calls[r] \in Seq(Seq(Entry))
    BY DEF Types, Fine
  <2>2. h \in Param /\ Computed(r) \in Grad /\ st[r].pass # 0 /\ st[r].pass <= Len(scenario.uses)
    BY <1>1, HookView
  <2>. HIDE DEF m, h, b, e
  <2>. QED  BY <1>2, <1>3, <2>1, <2>2, DeliverGoes
<1>5. Mark(e, h, b).pending = m.pending
  <2>1. IsErased(buckets, m, Mark(e, h, b))
    BY <1>2, Erased
  <2>. HIDE DEF m, h, b, e
  <2>. QED  BY <2>1 DEF IsErased, Fields, Values
<1>6. ASSUME UsesAgree
      PROVE  Follow(scenario, buckets, v) = [self |-> Take(Mark(e, h, b), h), sent |-> Sent(calls[r])]
  <2>1. /\ HookAt(scenario, e) = h /\ BucketFor(buckets, h) = b
        /\ ~(e.at > Len(Order(scenario, e)))
        /\ e.auto = st[r].auto /\ e.ready = st[r].ready
    BY <1>1, <1>6, HookView
  <2>2. /\ Follow(scenario, buckets, v) = FromBackward(scenario, buckets, v)
        /\ v.self = e /\ v.sent = Sent(calls[r])
    BY <1>1, HookView, FollowIs
  <2>3. ~(~e.auto \/ e.ready[b])
    BY <1>1, <2>1 DEF Counts
  <2>4. ~(Mark(e, h, b).pending[b] >= Len(buckets[b]))
    BY <1>1, <1>5 DEF Fills
  <2>. HIDE DEF e, v, h, b
  <2>. QED  BY <2>1, <2>2, <2>3, <2>4 DEF FromBackward
<1>. HIDE DEF t, e, v, h, b
<1>. QED  BY <1>1, <1>4, <1>6, QuietStep DEF v

(* The last hook has returned. *)
LEMMA BackwardReturnsGoes ==
  ASSUME Types, NEW r \in Rank, BackwardReturns(r)
  PROVE  Goes(r)
<1>. DEFINE s == st[r]
            m == [s EXCEPT !.stage = "program"]
            v == View(buckets, s, calls[r])
            e == Erase(buckets, s)
<1>1. /\ s.stage = "backward" /\ s.at > Len(Uses(r)) /\ Becomes(r, After(m))
      /\ Fine(scenario, buckets, r, s, calls[r]) /\ IsState(buckets, s)
      /\ s.pass # 0 /\ s.at # 0
  BY DEF BackwardReturns, Types, Fine, PassFine
<1>2. /\ m = [k \in Fields |-> m[k]] /\ m.stage = "program" /\ m.at = s.at /\ m.pass = s.pass
      /\ m.queue = s.queue /\ m.grad = s.grad /\ m.override = s.override
      /\ m.flat = s.flat /\ m.ops = s.ops
  BY <1>1 DEF IsState, Fields
<1>3. Erase(buckets, m) = [e EXCEPT !.stage = "program"]
  BY <1>1 DEF IsState, Erase, Fields
<1>. HIDE DEF m
<1>4. Fine(scenario, buckets, r, m, calls[r])
  <2>1. IsState(buckets, m)
    BY <1>1, <1>2 DEF IsState
  <2>. QED  BY <1>1, <1>2, <2>1 DEF Fine, PassFine, QueueFine, AwaitFine, FlightFine
<1>5. /\ Fine(scenario, buckets, r, After(m), calls[r])
      /\ Erase(buckets, After(m)) = After([e EXCEPT !.stage = "program"])
  BY <1>3, <1>4, AfterGoes
<1>6. ASSUME UsesAgree
      PROVE  Follow(scenario, buckets, v)
               = [self |-> After([e EXCEPT !.stage = "program"]), sent |-> Sent(calls[r])]
  <2>1. Order(scenario, e) = Uses(r)
    BY <1>1, <1>6, HookFacts
  <2>2. /\ Follow(scenario, buckets, v) = FromBackward(scenario, buckets, v)
        /\ v.self = e /\ v.sent = Sent(calls[r]) /\ \A k \in Fields \ Values : v.self[k] = s[k]
    BY <1>1, FollowIs
  <2>. HIDE DEF e, v, s
  <2>3. e.at = s.at
    BY <2>2 DEF Fields, Values
  <2>4. e.at > Len(Order(scenario, e))
    BY <1>1, <2>1, <2>3
  <2>. QED  BY <2>2, <2>4 DEF FromBackward
<1>. HIDE DEF e, v
<1>. QED  BY <1>1, <1>5, <1>6, QuietStep DEF v

-----------------------------------------------------------------------------
(* What is reduced. *)

(* A function on 1 .. n is a sequence. *)
LEMMA AsSeq ==
  ASSUME NEW X, NEW n \in Nat, NEW f \in [1 .. n -> X]
  PROVE  f \in Seq(X) /\ Len(f) = n
OBVIOUS

(* Which parameters of a bucket have a gradient to reduce shows in the      *)
(* view; those that have are members of the bucket.                         *)
LEMMA ChosenIs ==
  ASSUME Types, NEW s, IsState(buckets, s), NEW b \in 1 .. Len(buckets)
  PROVE  /\ HasGradient(s, b) = Chosen(scenario, buckets, Erase(buckets, s), b)
         /\ HasGradient(s, b) \in Seq(Param)
         /\ \A p \in ToSet(HasGradient(s, b)) : /\ p \in Param
                                                /\ ToReduce(s, b, p) \in Grad
<1>. DEFINE e == Erase(buckets, s)
            P == {p \in Param : ToReduce(s, b, p) # None}
<1>1. e.grad = {p \in Param : s.grad[p] # None} /\ e.override[b] = DOMAIN s.override[b]
  <2>1. IsErased(buckets, s, e)
    BY Erased
  <2>. HIDE DEF e
  <2>. QED  BY <2>1 DEF IsErased
<1>2. s.override[b] \in [DOMAIN s.override[b] -> Grad] /\ DOMAIN s.override[b] \subseteq Param
  BY PartialIs DEF IsState
<1>3. \A p \in Param : ToReduce(s, b, p) # None <=>
         s.grad[p] # None \/ (~scenario.compress /\ p \in DOMAIN s.override[b])
  BY <1>2, NoneAssumption DEF ToReduce
<1>4. P = Present(scenario, e, b)
  <2>. HIDE DEF e
  <2>. QED  BY <1>1, <1>2, <1>3 DEF Present
<1>5. \A p \in P : p \in Param /\ ToReduce(s, b, p) \in Grad
  BY <1>2 DEF ToReduce, IsState
<1>6. HasGradient(s, b) = Kept(buckets[b], P) /\ buckets[b] \in Seq(Param)
  BY DEF HasGradient, Types
<1>. HIDE DEF P, e
<1>7. HasGradient(s, b) \in Seq(Param \cap P)
  BY <1>6, KeptType
<1>8. HasGradient(s, b) \in Seq(Param) /\ ToSet(HasGradient(s, b)) \subseteq P
  BY <1>7 DEF ToSet
<1>. QED  BY <1>4, <1>5, <1>6, <1>8 DEF Chosen, e

(* So do the buffers. *)
LEMMA BuffersAre ==
  ASSUME Types, NEW s, IsState(buckets, s), NEW b \in 1 .. Len(buckets)
  PROVE  /\ Buffers(s, b) = Split(scenario, Chosen(scenario, buckets, Erase(buckets, s), b))
         /\ Buffers(s, b) \in Seq(Seq(Param))
         /\ ~scenario.compress => Len(Buffers(s, b)) <= 1
         /\ \A i \in DOMAIN Buffers(s, b) : \A p \in ToSet(Buffers(s, b)[i]) :
              p \in Param /\ ToReduce(s, b, p) \in Grad
<1>. DEFINE ps == HasGradient(s, b)
<1>1. /\ ps = Chosen(scenario, buckets, Erase(buckets, s), b) /\ ps \in Seq(Param)
      /\ \A p \in ToSet(ps) : p \in Param /\ ToReduce(s, b, p) \in Grad
  BY ChosenIs
<1>2. Buffers(s, b) = Split(scenario, ps)
  BY DEF Buffers, Split
<1>. HIDE DEF ps
<1>3. CASE scenario.compress
  <2>1. Buffers(s, b) = [i \in DOMAIN ps |-> <<ps[i]>>]
    BY <1>2, <1>3 DEF Split
  <2>2. Buffers(s, b) \in Seq(Seq(Param)) /\ DOMAIN Buffers(s, b) = DOMAIN ps
    <3>1. Len(ps) \in Nat /\ DOMAIN ps = 1 .. Len(ps)
      BY <1>1
    <3>2. \A i \in DOMAIN ps : <<ps[i]>> \in Seq(Param)
      BY <1>1
    <3>3. Buffers(s, b) \in [1 .. Len(ps) -> Seq(Param)]
      BY <2>1, <3>1, <3>2
    <3>. QED  BY <2>1, <3>1, <3>3, AsSeq
  <2>3. \A i \in DOMAIN ps : ToSet(Buffers(s, b)[i]) \subseteq ToSet(ps)
    BY <2>1 DEF ToSet
  <2>. QED  BY <1>1, <1>2, <1>3, <2>2, <2>3
<1>4. CASE ~scenario.compress /\ ps = <<>>
  <2>1. Buffers(s, b) = <<>>
    BY <1>2, <1>4 DEF Split
  <2>. QED  BY <1>1, <1>2, <2>1
<1>5. CASE ~scenario.compress /\ ps # <<>>
  <2>1. Buffers(s, b) = <<ps>>
    BY <1>2, <1>5 DEF Split
  <2>. QED  BY <1>1, <1>2, <2>1
<1>. QED  BY <1>3, <1>4, <1>5

(* A packed buffer holds gradients, of the parameters given. *)
LEMMA PackedIs ==
  ASSUME NEW s, NEW b, NEW ps \in Seq(Param), \A p \in ToSet(ps) : ToReduce(s, b, p) \in Grad
  PROVE  /\ Packed(s, b, ps) \in Seq(Entry)
         /\ Len(Packed(s, b, ps)) = Len(ps)
         /\ [i \in DOMAIN Packed(s, b, ps) |-> Packed(s, b, ps)[i].param] = ps
<1>1. \A i \in DOMAIN ps : ps[i] \in Param /\ ToReduce(s, b, ps[i]) \in Grad
  BY DEF ToSet
<1>2. Packed(s, b, ps) \in [1 .. Len(ps) -> Entry] /\ DOMAIN Packed(s, b, ps) = DOMAIN ps
  BY <1>1 DEF Packed, Entry
<1>3. Packed(s, b, ps) \in Seq(Entry) /\ Len(Packed(s, b, ps)) = Len(ps)
  BY <1>2
<1>4. \A i \in DOMAIN ps : Packed(s, b, ps)[i].param = ps[i]
  BY DEF Packed
<1>5. ps = [i \in DOMAIN ps |-> ps[i]]
  OBVIOUS
<1>. QED  BY <1>2, <1>3, <1>4, <1>5

(* Calls that are added, one or several. *)
LEMMA SentIs ==
  ASSUME NEW c \in Seq(Seq(Entry)), NEW d \in Seq(Seq(Entry))
  PROVE  /\ c \o d \in Seq(Seq(Entry))
         /\ Sent(c) \in Seq(Seq(Param)) /\ Len(Sent(c)) = Len(c)
         /\ Sent(c \o d) = Sent(c) \o Sent(d)
         /\ Prefix(c, c \o d)
<1>. DEFINE Par(x) == [i \in DOMAIN x |-> x[i].param]
<1>1. ASSUME NEW x \in Seq(Entry) PROVE Par(x) \in Seq(Param)
  <2>0. Len(x) \in Nat /\ DOMAIN x = 1 .. Len(x) /\ \A i \in DOMAIN x : x[i] \in Entry
    OBVIOUS
  <2>1. \A i \in DOMAIN x : x[i].param \in Param
    BY <2>0 DEF Entry
  <2>2. Par(x) \in [1 .. Len(x) -> Param]
    BY <2>0, <2>1
  <2>. QED  BY <2>0, <2>2, AsSeq
<1>2. \A n \in DOMAIN c : c[n] \in Seq(Entry)
  OBVIOUS
<1>3. \A n \in DOMAIN d : d[n] \in Seq(Entry)
  OBVIOUS
<1>4. Sent(c) = [n \in DOMAIN c |-> Par(c[n])] /\ Sent(d) = [n \in DOMAIN d |-> Par(d[n])]
      /\ Sent(c \o d) = [n \in DOMAIN (c \o d) |-> Par((c \o d)[n])]
  BY DEF Sent
<1>. HIDE DEF Par
<1>5. Sent(c) \in Seq(Seq(Param)) /\ Len(Sent(c)) = Len(c) /\ Sent(d) \in Seq(Seq(Param))
      /\ Len(Sent(d)) = Len(d)
  <2>1. /\ Len(c) \in Nat /\ DOMAIN c = 1 .. Len(c) /\ Len(d) \in Nat /\ DOMAIN d = 1 .. Len(d)
    OBVIOUS
  <2>2. Sent(c) \in [1 .. Len(c) -> Seq(Param)] /\ Sent(d) \in [1 .. Len(d) -> Seq(Param)]
    BY <1>1, <1>2, <1>3, <1>4, <2>1
  <2>. QED  BY <2>1, <2>2, AsSeq
<1>6. /\ c \o d \in Seq(Seq(Entry)) /\ Len(c \o d) = Len(c) + Len(d)
      /\ \A n \in 1 .. Len(c) : (c \o d)[n] = c[n]
      /\ \A n \in 1 .. Len(d) : (c \o d)[Len(c) + n] = d[n]
  BY ConcatProperties
<1>7. Sent(c) \o Sent(d) \in Seq(Seq(Param)) /\ Len(Sent(c) \o Sent(d)) = Len(c) + Len(d)
      /\ \A n \in 1 .. Len(c) + Len(d) :
           (Sent(c) \o Sent(d))[n] = IF n <= Len(c) THEN Sent(c)[n] ELSE Sent(d)[n - Len(c)]
  <2>1. PICK a \in Seq(Seq(Param)), z \in Seq(Seq(Param)) : a = Sent(c) /\ z = Sent(d)
    BY <1>5
  <2>2. a \o z \in Seq(Seq(Param)) /\ Len(a \o z) = Len(a) + Len(z)
        /\ \A n \in 1 .. Len(a) + Len(z) :
             (a \o z)[n] = IF n <= Len(a) THEN a[n] ELSE z[n - Len(a)]
    BY ConcatProperties
  <2>. QED  BY <1>5, <2>1, <2>2
<1>8. ASSUME NEW n \in 1 .. Len(c) + Len(d) PROVE Sent(c \o d)[n] = (Sent(c) \o Sent(d))[n]
  <2>1. Sent(c \o d)[n] = Par((c \o d)[n])
    BY <1>4, <1>6
  <2>2. CASE n <= Len(c)
    <3>1. n \in 1 .. Len(c) /\ n \in DOMAIN c
      BY <2>2
    <3>. QED  BY <1>4, <1>6, <1>7, <2>1, <2>2, <3>1
  <2>3. CASE ~(n <= Len(c))
    <3>1. n - Len(c) \in 1 .. Len(d) /\ n - Len(c) \in DOMAIN d /\ Len(c) + (n - Len(c)) = n
      BY <2>3
    <3>2. (c \o d)[n] = d[n - Len(c)]
      BY <1>6, <3>1
    <3>. QED  BY <1>4, <1>7, <2>1, <2>3, <3>1, <3>2
  <2>. QED  BY <2>2, <2>3
<1>9. DOMAIN Sent(c \o d) = 1 .. Len(c) + Len(d) /\ DOMAIN (Sent(c) \o Sent(d)) = 1 .. Len(c) + Len(d)
  BY <1>4, <1>6, <1>7
<1>10. Sent(c \o d) = Sent(c) \o Sent(d)
  <2>1. Sent(c \o d) = [n \in 1 .. Len(c) + Len(d) |-> Sent(c \o d)[n]]
    BY <1>4, <1>9
  <2>2. Sent(c) \o Sent(d) = [n \in 1 .. Len(c) + Len(d) |-> (Sent(c) \o Sent(d))[n]]
    <3>1. PICK a \in Seq(Seq(Param)) : a = Sent(c) \o Sent(d)
      BY <1>7
    <3>2. a = [n \in 1 .. Len(a) |-> a[n]]
      OBVIOUS
    <3>. QED  BY <1>7, <3>1, <3>2
  <2>. QED  BY <1>8, <2>1, <2>2
<1>11. Prefix(c, c \o d)
  BY <1>6 DEF Prefix
<1>. QED  BY <1>5, <1>6, <1>10, <1>11

(* A blocking reduction of bucket b begins. *)
Begun(s, b, from) ==
  [s EXCEPT !.bucket = b, !.queue = Buffers(s, b), !.stage = "reduce", !.back = from]

(* Its buffers are those the view shows. *)
LEMMA StartGoes ==
  ASSUME Types, NEW r \in Rank, NEW s, IsState(buckets, s), NEW c \in Seq(Seq(Entry)),
         FlightFine(buckets, s, c), s.pass <= Len(scenario.uses),
         NEW b \in 1 .. Len(buckets), NEW from,
         from = "backward" => s.pass # 0 /\ s.at # 0 /\ s.at <= Len(scenario.uses[s.pass][r])
  PROVE  /\ Fine(scenario, buckets, r, Begun(s, b, from), c)
         /\ Erase(buckets, Begun(s, b, from))
              = Starts(scenario, buckets, Erase(buckets, s), b, from)
<1>. DEFINE t == Begun(s, b, from)
            bf == Buffers(s, b)
            e == Erase(buckets, s)
            f == Starts(scenario, buckets, e, b, from)
            U == {"bucket", "queue", "stage", "back"}
<1>1. /\ bf = Split(scenario, Chosen(scenario, buckets, e, b)) /\ bf \in Seq(Seq(Param))
      /\ ~scenario.compress => Len(bf) <= 1
      /\ \A i \in DOMAIN bf : \A p \in ToSet(bf[i]) : p \in Param /\ ToReduce(s, b, p) \in Grad
  BY BuffersAre
<1>2. /\ t = [k \in Fields |-> t[k]] /\ \A k \in Fields \ U : t[k] = s[k]
      /\ t.bucket = b /\ t.queue = bf /\ t.stage = "reduce" /\ t.back = from
  <2>. HIDE DEF bf
  <2>1. t = [s EXCEPT !.bucket = b, !.queue = bf, !.stage = "reduce", !.back = from]
    BY DEF Begun, bf
  <2>. QED  BY <2>1 DEF IsState, Fields
<1>3. /\ t.pass = s.pass /\ t.at = s.at /\ t.grad = s.grad /\ t.override = s.override
      /\ t.flat = s.flat /\ t.ops = s.ops
  <2>. HIDE DEF t
  <2>. QED  BY <1>2 DEF Fields
<1>. HIDE DEF t, bf
<1>4. IsState(buckets, t)
  BY <1>1, <1>2, <1>3 DEF IsState
<1>5. PassFine(scenario, r, t)
  BY <1>2, <1>3 DEF PassFine
<1>6. QueueFine(scenario, buckets, t)
  <2>1. ASSUME NEW i \in DOMAIN bf, NEW p \in ToSet(bf[i])
        PROVE  s.grad[p] # None \/ (~scenario.compress /\ p \in DOMAIN s.override[b])
    <3>1. ToReduce(s, b, p) # None
      BY <1>1, <2>1, NoneAssumption
    <3>. QED  BY <3>1 DEF ToReduce
  <2>. QED  BY <1>1, <1>2, <1>3, <2>1 DEF QueueFine
<1>7. Fine(scenario, buckets, r, t, c)
  BY <1>2, <1>3, <1>4, <1>5, <1>6 DEF Fine, AwaitFine, FlightFine
<1>8. Erase(buckets, t) = f
  <2>1. IsErased(buckets, s, e)
    BY Erased
  <2>2. /\ f = [k \in Fields |-> f[k]] /\ \A k \in Fields \ U : f[k] = e[k]
        /\ f.bucket = b /\ f.queue = bf /\ f.stage = "reduce" /\ f.back = from
    <3>. HIDE DEF e
    <3>1. f = [e EXCEPT !.bucket = b, !.queue = bf, !.stage = "reduce", !.back = from]
      BY <1>1 DEF Starts
    <3>. HIDE DEF f
    <3>. QED  BY <2>1, <3>1 DEF IsErased, Fields, Values
  <2>. HIDE DEF f
  <2>3. \A k \in Fields \ Values : f[k] = t[k]
    <3>. HIDE DEF e
    <3>1. \A k \in Fields \ Values : k \notin U => f[k] = t[k]
      BY <1>2, <2>1, <2>2 DEF IsErased
    <3>2. \A k \in U : f[k] = t[k]
      BY <1>2, <2>2
    <3>. HIDE DEF U
    <3>. QED  BY <3>1, <3>2
  <2>4. /\ f.grad = e.grad /\ f.override = e.override /\ f.zeroed = e.zeroed
        /\ f.filled = e.filled
    <3>. HIDE DEF e
    <3>. QED  BY <2>2 DEF Fields
  <2>5. IsErased(buckets, t, f)
    <3>. HIDE DEF e, U
    <3>1. f.grad = {p \in Param : t.grad[p] # None}
      BY <1>3, <2>1, <2>4 DEF IsErased
    <3>2. f.override = [a \in 1 .. Len(buckets) |-> DOMAIN t.override[a]]
      BY <1>3, <2>1, <2>4 DEF IsErased
    <3>3. f.zeroed = 0 /\ f.filled = {}
      BY <2>1, <2>4 DEF IsErased
    <3>. QED  BY <2>2, <2>3, <3>1, <3>2, <3>3 DEF IsErased
  <2>. QED  BY <1>4, <2>5, ErasedAre
<1>. QED  BY <1>7, <1>8 DEF t

(* Setting a flag of ready changes nothing else. *)
LEMMA ReadyGoes ==
  ASSUME NEW g, NEW bk, NEW r, NEW s, NEW c, Fine(g, bk, r, s, c), NEW b
  PROVE  /\ Fine(g, bk, r, [s EXCEPT !.ready[b] = TRUE], c)
         /\ Erase(bk, [s EXCEPT !.ready[b] = TRUE]) = [Erase(bk, s) EXCEPT !.ready[b] = TRUE]
<1>. DEFINE t == [s EXCEPT !.ready[b] = TRUE]
<1>0. IsState(bk, s)
  BY DEF Fine
<1>1. t = [k \in Fields |-> t[k]] /\ \A k \in Core : t[k] = s[k]
  BY <1>0 DEF IsState, Fields, Core
<1>2. Erase(bk, t) = [Erase(bk, s) EXCEPT !.ready[b] = TRUE]
  BY <1>0 DEF IsState, Erase, Fields
<1>. HIDE DEF t
<1>3. Fine(g, bk, r, t, c)
  BY <1>1, CoreFine
<1>. QED  BY <1>2, <1>3 DEF t

(* What follows a hook of h that has filled its bucket b, with the view k. *)
Blocks(g, bk, k, b, sent) ==
  [self |-> [Starts(g, bk, k, b, "backward") EXCEPT !.ready[b] = TRUE], sent |-> sent]
Leaves(g, bk, k, h, b, sent) ==
  [self |-> Take(Flies(g, bk, k, b, Len(sent)), h), sent |-> sent \o Split(g, Chosen(g, bk, k, b))]
Filled(h, b, k, v) ==
  /\ ~OnStream(scenario) => Follow(scenario, buckets, v) = Blocks(scenario, buckets, k, b, v.sent)
  /\ OnStream(scenario) => Follow(scenario, buckets, v) = Leaves(scenario, buckets, k, h, b, v.sent)

(* The facts of a hook that fills its bucket. *)
LEMMA FillingHook ==
  ASSUME Types, NEW r \in Rank, AtHook(r), Counts(r), Fills(r),
         NEW m, m = mark_param_ready(r), NEW h, h = Hooked(r), NEW b, b = BucketOf(h),
         NEW e, e = Erase(buckets, st[r]), NEW v, v = View(buckets, st[r], calls[r])
  PROVE  /\ IsState(buckets, m) /\ FlightFine(buckets, m, calls[r])
         /\ Erase(buckets, m) = Mark(e, h, b)
         /\ m.pass = st[r].pass /\ m.at = st[r].at
         /\ m.pass # 0 /\ m.at # 0 /\ m.pass <= Len(scenario.uses)
         /\ m.at <= Len(scenario.uses[m.pass][r])
         /\ h \in Param /\ b \in 1 .. Len(buckets) /\ Computed(r) \in Grad
         /\ calls[r] \in Seq(Seq(Entry))
         /\ UsesAgree => Filled(h, b, Mark(e, h, b), v)
<1>1. /\ IsState(buckets, m) /\ FlightFine(buckets, m, calls[r])
      /\ Erase(buckets, m) = Mark(e, h, b)
      /\ \A k \in Fields \ {"override", "pending"} : m[k] = st[r][k]
  BY HookView, MarkGoes
<1>2. m.pass = st[r].pass /\ m.at = st[r].at
  BY <1>1 DEF Fields
<1>3. /\ st[r].pass # 0 /\ st[r].at # 0 /\ st[r].pass <= Len(scenario.uses)
      /\ st[r].at <= Len(Uses(r))
      /\ h \in Param /\ b \in 1 .. Len(buckets) /\ Computed(r) \in Grad
  BY HookView DEF Bucket
<1>4. calls[r] \in Seq(Seq(Entry))
  BY DEF Types, Fine
<1>5. Mark(e, h, b).pending = m.pending
  <2>1. IsErased(buckets, m, Mark(e, h, b))
    BY <1>1, Erased
  <2>. QED  BY <2>1 DEF IsErased, Fields, Values
<1>6. ASSUME UsesAgree
      PROVE  Filled(h, b, Mark(e, h, b), v)
  <2>1. /\ HookAt(scenario, e) = h /\ BucketFor(buckets, h) = b
        /\ ~(e.at > Len(Order(scenario, e)))
        /\ e.auto = st[r].auto /\ e.ready = st[r].ready
    BY <1>6, HookView
  <2>2. /\ Follow(scenario, buckets, v) = FromBackward(scenario, buckets, v)
        /\ v.self = e
    BY HookView, FollowIs
  <2>3. ~(~e.auto \/ e.ready[b])
    BY <2>1 DEF Counts
  <2>4. ~~(Mark(e, h, b).pending[b] >= Len(buckets[b]))
    BY <1>5 DEF Fills
  <2>. QED  BY <2>1, <2>2, <2>3, <2>4 DEF FromBackward, Filled, Blocks, Leaves
<1>. QED  BY <1>1, <1>2, <1>3, <1>4, <1>6 DEF Uses

(* The hook that fills a bucket, blocking ... *)
LEMMA HookReducesGoes ==
  ASSUME Types, NEW r \in Rank, HookReduces(r)
  PROVE  Goes(r)
<1>1. PICK m, h, b, e, v : /\ m = mark_param_ready(r) /\ h = Hooked(r) /\ b = BucketOf(h)
                           /\ e = Erase(buckets, st[r])
                           /\ v = View(buckets, st[r], calls[r])
  OBVIOUS
<1>. DEFINE t == [m EXCEPT !.ready[b] = TRUE, !.bucket = b, !.queue = Buffers(m, b),
                           !.stage = "reduce", !.back = "backward"]
            w == [Begun(m, b, "backward") EXCEPT !.ready[b] = TRUE]
<1>2. AtHook(r) /\ Counts(r) /\ Fills(r) /\ ~OnStream(scenario) /\ Becomes(r, t)
  BY <1>1 DEF HookReduces, Async, OnStream
<1>3. /\ IsState(buckets, m) /\ FlightFine(buckets, m, calls[r])
      /\ Erase(buckets, m) = Mark(e, h, b)
      /\ m.pass # 0 /\ m.at # 0 /\ m.pass <= Len(scenario.uses)
      /\ m.at <= Len(scenario.uses[m.pass][r]) /\ b \in 1 .. Len(buckets)
      /\ calls[r] \in Seq(Seq(Entry))
  BY <1>1, <1>2, FillingHook
<1>8. ASSUME UsesAgree
      PROVE  Follow(scenario, buckets, v) =
              [self |-> [Starts(scenario, buckets, Mark(e, h, b), b, "backward")
                                EXCEPT !.ready[b] = TRUE],
               sent |-> v.sent]
  <2>1. Filled(h, b, Mark(e, h, b), v)
    BY <1>1, <1>2, <1>8, FillingHook
  <2>. QED  BY <1>2, <2>1 DEF Filled, Blocks
<1>4. t = w
  <2>1. PICK q : q = Buffers(m, b)
    OBVIOUS
  <2>. QED  BY <1>3, <2>1 DEF Begun, IsState, Fields
<1>5. /\ Fine(scenario, buckets, r, Begun(m, b, "backward"), calls[r])
      /\ Erase(buckets, Begun(m, b, "backward"))
           = Starts(scenario, buckets, Mark(e, h, b), b, "backward")
  BY <1>3, StartGoes
<1>6. /\ Fine(scenario, buckets, r, w, calls[r])
      /\ Erase(buckets, w) = [Starts(scenario, buckets, Mark(e, h, b), b, "backward")
                                EXCEPT !.ready[b] = TRUE]
  BY <1>5, ReadyGoes
<1>. HIDE DEF t, w
<1>7. v.sent = Sent(calls[r])
  BY <1>1, FollowIs
<1>. QED  BY <1>1, <1>2, <1>4, <1>6, <1>7, <1>8, QuietStep

(* The update of ErasedUpdate. *)
Updated(bk, s, t, f, U) ==
  /\ IsState(bk, s) /\ IsState(bk, t) /\ U \subseteq Fields \ Values
  /\ \A k \in Fields \ U : t[k] = s[k]
  /\ f = [k \in Fields |-> f[k]]
  /\ \A k \in Fields \ U : f[k] = Erase(bk, s)[k]
  /\ \A k \in U : f[k] = t[k]

(* Its view is updated in the same way. *)
LEMMA UpdatedView ==
  ASSUME NEW bk, NEW s, NEW t, NEW f, NEW U, Updated(bk, s, t, f, U)
  PROVE  Erase(bk, t) = f
BY ErasedUpdate DEF Updated

(* All buffers of a bucket, packed. *)
LEMMA PackedAll ==
  ASSUME Types, NEW s, IsState(buckets, s), NEW b \in 1 .. Len(buckets), NEW q, q = Buffers(s, b),
         NEW d, d = [i \in DOMAIN q |-> Packed(s, b, q[i])]
  PROVE  /\ d \in Seq(Seq(Entry)) /\ Sent(d) = q /\ Len(d) = Len(q)
         /\ \A i \in DOMAIN q : Len(d[i]) = Len(q[i])
<1>1. /\ q \in Seq(Seq(Param))
      /\ \A i \in DOMAIN q : \A p \in ToSet(q[i]) : p \in Param /\ ToReduce(s, b, p) \in Grad
  BY BuffersAre
<1>2. ASSUME NEW i \in DOMAIN q
      PROVE  /\ d[i] \in Seq(Entry) /\ Len(d[i]) = Len(q[i])
             /\ [j \in DOMAIN d[i] |-> d[i][j].param] = q[i]
  <2>1. q[i] \in Seq(Param) /\ d[i] = Packed(s, b, q[i])
    BY <1>1, <1>2
  <2>2. \A p \in ToSet(q[i]) : ToReduce(s, b, p) \in Grad
    BY <1>1, <1>2
  <2>. QED  BY <2>1, <2>2, PackedIs
<1>3. Len(q) \in Nat /\ DOMAIN q = 1 .. Len(q) /\ DOMAIN d = DOMAIN q
  BY <1>1
<1>4. d \in [1 .. Len(q) -> Seq(Entry)]
  <2>1. d = [i \in 1 .. Len(q) |-> d[i]]
    BY <1>3
  <2>. QED  BY <1>2, <1>3, <2>1
<1>5. d \in Seq(Seq(Entry)) /\ Len(d) = Len(q)
  BY <1>3, <1>4, AsSeq
<1>6. Sent(d) = q
  <2>1. Sent(d) = [i \in DOMAIN q |-> [j \in DOMAIN d[i] |-> d[i][j].param]]
    BY <1>3 DEF Sent
  <2>2. q = [i \in DOMAIN q |-> q[i]]
    BY <1>1
  <2>. QED  BY <1>2, <2>1, <2>2
<1>. QED  BY <1>2, <1>5, <1>6

(* What packing leaves of a bucket. *)
LEMMA PackGoes ==
  ASSUME NEW bk, NEW s, IsState(bk, s), NEW b \in 1 .. Len(bk), NEW t, t = Pack(s, b)
  PROVE  /\ IsState(bk, t) /\ \A k \in Fields \ {"override"} : t[k] = s[k]
         /\ Erase(bk, t) = Emptied(scenario, Erase(bk, s), b)
<1>1. CASE scenario.compress
  BY <1>1 DEF Emptied, Pack
<1>2. CASE ~scenario.compress
  <2>. DEFINE e == Erase(bk, s)
              f == [e EXCEPT !.override[b] = {}]
  <2>1. t = [s EXCEPT !.override[b] = <<>>]
    BY <1>2 DEF Pack
  <2>2. /\ t = [k \in Fields |-> t[k]] /\ \A k \in Fields \ {"override"} : t[k] = s[k]
        /\ t.override = [s.override EXCEPT ![b] = <<>>]
    BY <2>1 DEF IsState, Fields
  <2>3. /\ t.at = s.at /\ t.pass = s.pass /\ t.queue = s.queue /\ t.grad = s.grad
        /\ t.flat = s.flat /\ t.ops = s.ops
    BY <2>2 DEF Fields
  <2>4. <<>> \in Partial /\ DOMAIN <<>> = {}
    <3>1. <<>> \in [{} -> Grad] /\ {} \in SUBSET Param
      OBVIOUS
    <3>. QED  BY <3>1 DEF Partial
  <2>5. t.override \in [1 .. Len(bk) -> Partial]
    BY <2>2, <2>4 DEF IsState
  <2>6. IsState(bk, t)
    BY <2>2, <2>3, <2>5 DEF IsState
  <2>7. IsErased(bk, s, e)
    BY Erased
  <2>8. [a \in 1 .. Len(bk) |-> DOMAIN t.override[a]]
          = [[a \in 1 .. Len(bk) |-> DOMAIN s.override[a]] EXCEPT ![b] = {}]
    <3>1. PICK z : z = <<>>
      OBVIOUS
    <3>2. DOMAIN z = {} /\ t.override = [s.override EXCEPT ![b] = z]
      BY <2>2, <2>4, <3>1
    <3>. QED  BY ONLY <3>2, IsState(bk, s), b \in 1 .. Len(bk) DEF IsState
  <2>. HIDE DEF e
  <2>9. /\ f = [k \in Fields |-> f[k]] /\ \A k \in Fields \ {"override"} : f[k] = e[k]
        /\ f.override = [e.override EXCEPT ![b] = {}]
    BY <2>7 DEF IsErased, Fields, Values
  <2>. HIDE DEF f
  <2>10. \A k \in Fields \ Values : f[k] = t[k]
    BY <2>2, <2>7, <2>9 DEF IsErased, Values
  <2>11. f.grad = e.grad /\ f.zeroed = e.zeroed /\ f.filled = e.filled
    BY <2>9 DEF Fields
  <2>12. f.override = [a \in 1 .. Len(bk) |-> DOMAIN t.override[a]]
    BY <2>7, <2>8, <2>9 DEF IsErased
  <2>13. f.grad = {p \in Param : t.grad[p] # None}
    BY <2>3, <2>7, <2>11 DEF IsErased
  <2>14. f.zeroed = 0 /\ f.filled = {}
    BY <2>7, <2>11 DEF IsErased
  <2>15. IsErased(bk, t, f)
    BY <2>9, <2>10, <2>12, <2>13, <2>14 DEF IsErased
  <2>16. Erase(bk, t) = f
    BY <2>6, <2>15, ErasedAre
  <2>. QED  BY <1>2, <2>2, <2>6, <2>16 DEF Emptied, e, f
<1>. QED  BY <1>1, <1>2

(* A bucket is left to its stream. *)
LEMMA LaunchedGoes ==
  ASSUME Types, NEW r \in Rank, NEW s, IsState(buckets, s), FlightFine(buckets, s, calls[r]),
         NEW b \in 1 .. Len(buckets), OnStream(scenario),
         NEW d, d = [i \in DOMAIN Buffers(s, b) |-> Packed(s, b, Buffers(s, b)[i])],
         NEW t, t = Launched(r, s, b)
  PROVE  /\ IsState(buckets, t) /\ FlightFine(buckets, t, calls[r] \o d)
         /\ \A k \in Fields \ {"override", "flat", "ops", "ready"} : t[k] = s[k]
         /\ Erase(buckets, t)
              = Flies(scenario, buckets, Erase(buckets, s), b, Len(Sent(calls[r])))
<1>. DEFINE c == calls[r]
            e == Erase(buckets, s)
            ps == HasGradient(s, b)
            x == IF ps = <<>> THEN NoFlight ELSE [call |-> Len(c) + 1, params |-> ps]
            y == Pack(s, b)
            ey == Emptied(scenario, e, b)
<1>1. c \in Seq(Seq(Entry)) /\ buckets \in Seq(Seq(Param)) /\ ~scenario.compress
  BY DEF Types, Fine, OnStream
<1>2. IsState(buckets, y) /\ Erase(buckets, y) = ey /\ \A k \in Fields \ {"override"} : y[k] = s[k]
  BY PackGoes
<1>3. ps = Chosen(scenario, buckets, e, b) /\ ps \in Seq(Param)
  BY ChosenIs
<1>4. d \in Seq(Seq(Entry)) /\ Len(d) = Len(Buffers(s, b))
      /\ \A i \in DOMAIN Buffers(s, b) : Len(d[i]) = Len(Buffers(s, b)[i])
  BY PackedAll
<1>5. Buffers(s, b) = IF ps = <<>> THEN <<>> ELSE <<ps>>
  BY <1>1 DEF Buffers
<1>6. Len(Sent(c)) = Len(c) /\ Len(c) \in Nat
  BY <1>1, SentIs
<1>7. t = [y EXCEPT !.flat[b] = x, !.ops = @ + 1, !.ready[b] = TRUE]
  BY DEF Launched
<1>8. Flies(scenario, buckets, e, b, Len(Sent(c)))
        = [ey EXCEPT !.flat[b] = x, !.ops = @ + 1, !.ready[b] = TRUE]
  BY <1>3, <1>6 DEF Flies
<1>9. x \in Flight
  BY <1>3, <1>6 DEF Flight, NoFlight
<1>. HIDE DEF y, ey, x, e
<1>10. /\ t = [k \in Fields |-> t[k]] /\ t.flat = [y.flat EXCEPT ![b] = x] /\ t.ops = y.ops + 1
       /\ t.ready = [y.ready EXCEPT ![b] = TRUE]
       /\ \A k \in Fields \ {"flat", "ops", "ready"} : t[k] = y[k]
  BY <1>2, <1>7 DEF IsState, Fields
<1>11. /\ t.at = y.at /\ t.pass = y.pass /\ t.queue = y.queue /\ t.grad = y.grad
       /\ t.override = y.override
  BY <1>10 DEF Fields
<1>12. IsState(buckets, t)
  <2>1. y.flat \in [1 .. Len(buckets) -> Flight] /\ y.ops \in Nat
    BY <1>2 DEF IsState
  <2>2. t.flat \in [1 .. Len(buckets) -> Flight]
    BY <1>9, <1>10, <2>1
  <2>3. t.ops \in Nat
    BY <1>10, <2>1
  <2>. QED  BY <1>2, <1>10, <1>11, <2>2, <2>3 DEF IsState
<1>13. Erase(buckets, t) = Flies(scenario, buckets, e, b, Len(Sent(c)))
  <2>. DEFINE f == [ey EXCEPT !.flat[b] = x, !.ops = @ + 1, !.ready[b] = TRUE]
              U == {"flat", "ops", "ready"}
  <2>1. IsErased(buckets, y, ey)
    BY <1>2, Erased
  <2>2. /\ f = [k \in Fields |-> f[k]] /\ \A k \in Fields \ U : f[k] = ey[k]
        /\ f.flat = [ey.flat EXCEPT ![b] = x] /\ f.ops = ey.ops + 1
        /\ f.ready = [ey.ready EXCEPT ![b] = TRUE]
        /\ ey.flat = y.flat /\ ey.ops = y.ops /\ ey.ready = y.ready
    BY <2>1 DEF IsErased, Fields, Values
  <2>. HIDE DEF f
  <2>3. U \subseteq Fields \ Values /\ \A k \in U : f[k] = t[k]
    BY <1>10, <2>2 DEF Fields, Values
  <2>4. \A k \in Fields \ U : t[k] = y[k]
    BY <1>10
  <2>5. f = [k \in Fields |-> f[k]] /\ \A k \in Fields \ U : f[k] = Erase(buckets, y)[k]
    BY <1>2, <2>2
  <2>6. IsState(buckets, y)
    BY <1>2
  <2>. HIDE DEF U
  <2>7. Erase(buckets, t) = f
    <3>1. Updated(buckets, y, t, f, U)
      BY <1>12, <2>3, <2>4, <2>5, <2>6 DEF Updated
    <3>. QED  BY <3>1, UpdatedView
  <2>. QED  BY <1>8, <2>7 DEF f
<1>14. FlightFine(buckets, t, c \o d)
  <2>1. /\ Len(c \o d) = Len(c) + Len(d)
        /\ \A n \in 1 .. Len(c) : (c \o d)[n] = c[n]
        /\ \A n \in 1 .. Len(d) : (c \o d)[Len(c) + n] = d[n]
    BY <1>1, <1>4, ConcatProperties
  <2>2. Len(d) \in Nat
    BY <1>4
  <2>3. t.flat = [s.flat EXCEPT ![b] = x] /\ s.flat \in [1 .. Len(buckets) -> Flight]
    BY <1>2, <1>10 DEF Fields, IsState
  <2>4. ASSUME NEW a \in 1 .. Len(buckets), a # b, t.flat[a] # NoFlight
        PROVE  /\ t.flat[a].call \in 1 .. Len(c \o d)
               /\ Len((c \o d)[t.flat[a].call]) = Len(t.flat[a].params)
    <3>1. t.flat[a] = s.flat[a]
      BY <2>3, <2>4
    <3>2. s.flat[a].call \in 1 .. Len(c) /\ Len(c[s.flat[a].call]) = Len(s.flat[a].params)
      BY <2>4, <3>1 DEF FlightFine
    <3>. QED  BY <1>6, <2>1, <2>2, <3>1, <3>2
  <2>5. ASSUME t.flat[b] # NoFlight
        PROVE  /\ t.flat[b].call \in 1 .. Len(c \o d)
               /\ Len((c \o d)[t.flat[b].call]) = Len(t.flat[b].params)
    <3>1. t.flat[b] = x
      BY <2>3
    <3>2. ps # <<>> /\ x.call = Len(c) + 1 /\ x.params = ps
      BY <2>5, <3>1 DEF x
    <3>3. Buffers(s, b) = <<ps>>
      BY <1>5, <3>2
    <3>4. Len(d) = 1 /\ Len(d[1]) = Len(ps)
      BY <1>4, <3>3
    <3>. QED  BY <1>6, <2>1, <3>1, <3>2, <3>4
  <2>. QED  BY <2>4, <2>5 DEF FlightFine
<1>15. \A k \in Fields \ {"override", "flat", "ops", "ready"} : t[k] = s[k]
  BY <1>2, <1>10
<1>. QED  BY <1>12, <1>13, <1>14, <1>15 DEF e

(* A step that calls what launching bucket b calls. *)
LEMMA LaunchStep ==
  ASSUME Types, NEW r \in Rank, NEW s, IsState(buckets, s), NEW b \in 1 .. Len(buckets), NEW t,
         Launch(r, s, b, t),
         NEW d, d = [i \in DOMAIN Buffers(s, b) |-> Packed(s, b, Buffers(s, b)[i])],
         Fine(scenario, buckets, r, t, calls[r] \o d),
         UsesAgree =>
           Follow(scenario, buckets, View(buckets, st[r], calls[r]))
             = [self |-> Erase(buckets, t),
                sent |-> Sent(calls[r])
                           \o Split(scenario, Chosen(scenario, buckets, Erase(buckets, s), b))]
  PROVE  Goes(r)
<1>1. st = [q \in Rank |-> st[q]] /\ calls = [q \in Rank |-> calls[q]]
  BY DEF Types
<1>2. st' = [st EXCEPT ![r] = t] /\ calls' = [calls EXCEPT ![r] = calls[r] \o d]
  BY DEF Launch
<1>3. st'[r] = t /\ calls'[r] = calls[r] \o d
  BY <1>1, <1>2
<1>4. calls[r] \in Seq(Seq(Entry))
  BY DEF Types, Fine
<1>5. d \in Seq(Seq(Entry)) /\ Sent(d) = Buffers(s, b)
  BY PackedAll
<1>6. Prefix(calls[r], calls[r] \o d) /\ Sent(calls[r] \o d) = Sent(calls[r]) \o Sent(d)
  BY <1>4, <1>5, SentIs
<1>7. Buffers(s, b) = Split(scenario, Chosen(scenario, buckets, Erase(buckets, s), b))
  BY BuffersAre
<1>8. UsesAgree => View(buckets, t, calls[r] \o d)
                     = Follow(scenario, buckets, View(buckets, st[r], calls[r]))
  <2>1. View(buckets, t, calls[r] \o d)
          = [self |-> Erase(buckets, t), sent |-> Sent(calls[r]) \o Buffers(s, b)]
    BY <1>5, <1>6 DEF View
  <2>. QED  BY <1>7, <2>1
<1>9. Fine(scenario, buckets, r, st'[r], calls'[r])
  BY <1>3
<1>10. UsesAgree => View(buckets, st'[r], calls'[r])
                      = Follow(scenario, buckets, View(buckets, st[r], calls[r]))
  BY <1>3, <1>8
<1>11. Prefix(calls[r], calls'[r])
  BY <1>3, <1>6
<1>. QED  BY <1>2, <1>3, <1>9, <1>10, <1>11 DEF Goes

(* ... and on a stream. *)
LEMMA HookLaunchesGoes ==
  ASSUME Types, NEW r \in Rank, HookLaunches(r)
  PROVE  Goes(r)
<1>1. PICK m, h, b, e, v : /\ m = mark_param_ready(r) /\ h = Hooked(r) /\ b = BucketOf(h)
                           /\ e = Erase(buckets, st[r])
                           /\ v = View(buckets, st[r], calls[r])
  OBVIOUS
<1>2. PICK t, l, x, d : /\ l = Launched(r, m, b) /\ x = Computed(r) /\ t = Deliver(l, h, x)
                        /\ d = [i \in DOMAIN Buffers(m, b) |-> Packed(m, b, Buffers(m, b)[i])]
  OBVIOUS
<1>3. AtHook(r) /\ Counts(r) /\ Fills(r) /\ OnStream(scenario) /\ Launch(r, m, b, t)
  BY <1>1, <1>2 DEF HookLaunches, Async, OnStream
<1>4. /\ IsState(buckets, m) /\ FlightFine(buckets, m, calls[r])
      /\ Erase(buckets, m) = Mark(e, h, b)
      /\ m.pass # 0 /\ m.pass <= Len(scenario.uses)
      /\ h \in Param /\ b \in 1 .. Len(buckets) /\ x \in Grad
      /\ calls[r] \in Seq(Seq(Entry))
  BY <1>1, <1>2, <1>3, FillingHook
<1>5. UsesAgree => Filled(h, b, Mark(e, h, b), v)
  BY <1>1, <1>3, FillingHook
<1>6. /\ IsState(buckets, l) /\ FlightFine(buckets, l, calls[r] \o d)
      /\ \A k \in Fields \ {"override", "flat", "ops", "ready"} : l[k] = m[k]
      /\ Erase(buckets, l) = Flies(scenario, buckets, Mark(e, h, b), b, Len(Sent(calls[r])))
  BY <1>2, <1>3, <1>4, LaunchedGoes
<1>7. l.pass = m.pass
  BY <1>6 DEF Fields
<1>8. d \in Seq(Seq(Entry)) /\ calls[r] \o d \in Seq(Seq(Entry))
  <2>1. d \in Seq(Seq(Entry))
    BY <1>2, <1>4, PackedAll
  <2>. QED  BY <1>4, <2>1, SentIs
<1>9. /\ Fine(scenario, buckets, r, t, calls[r] \o d)
      /\ Erase(buckets, t)
           = Take(Flies(scenario, buckets, Mark(e, h, b), b, Len(Sent(calls[r]))), h)
  <2>1. PICK c \in Seq(Seq(Entry)) : c = calls[r] \o d
    BY <1>8
  <2>2. IsState(buckets, l) /\ FlightFine(buckets, l, c)
    BY <1>6, <2>1
  <2>3. l.pass # 0 /\ l.pass <= Len(scenario.uses) /\ h \in Param /\ x \in Grad
    BY <1>4, <1>7
  <2>4. Fine(scenario, buckets, r, t, c) /\ Erase(buckets, t) = Take(Erase(buckets, l), h)
    BY <1>2, <2>2, <2>3, DeliverGoes
  <2>. QED  BY <1>6, <2>1, <2>4
<1>10. v.sent = Sent(calls[r])
  BY <1>1, FollowIs
<1>11. ASSUME UsesAgree
       PROVE  Follow(scenario, buckets, v)
                = [self |-> Erase(buckets, t),
                   sent |-> Sent(calls[r])
                              \o Split(scenario, Chosen(scenario, buckets, Erase(buckets, m), b))]
  <2>1. Follow(scenario, buckets, v) = Leaves(scenario, buckets, Mark(e, h, b), h, b, v.sent)
    BY <1>3, <1>5, <1>11 DEF Filled
  <2>. QED  BY <1>4, <1>9, <1>10, <2>1 DEF Leaves
<1>. QED  BY <1>1, <1>2, <1>3, <1>4, <1>9, <1>11, LaunchStep

-----------------------------------------------------------------------------
(* synchronize_gradients(), bucket by bucket. *)

(* On to the next bucket. *)
LEMMA AdvanceGoes ==
  ASSUME Types, NEW r \in Rank, NEW s, IsState(buckets, s), NEW c \in Seq(Seq(Entry)),
         FlightFine(buckets, s, c), s.pass <= Len(scenario.uses),
         NEW t, t = [s EXCEPT !.stage = "sweep", !.at = @ + 1]
  PROVE  /\ Fine(scenario, buckets, r, t, c)
         /\ Erase(buckets, t) = [Erase(buckets, s) EXCEPT !.stage = "sweep", !.at = @ + 1]
<1>. DEFINE e == Erase(buckets, s)
            f == [e EXCEPT !.stage = "sweep", !.at = @ + 1]
            U == {"stage", "at"}
<1>1. /\ t = [k \in Fields |-> t[k]] /\ t.stage = "sweep" /\ t.at = s.at + 1
      /\ \A k \in Fields \ U : t[k] = s[k]
  BY DEF IsState, Fields
<1>2. /\ t.pass = s.pass /\ t.queue = s.queue /\ t.grad = s.grad /\ t.override = s.override
      /\ t.flat = s.flat /\ t.ops = s.ops
  BY <1>1 DEF Fields
<1>3. IsState(buckets, t)
  <2>1. s.at \in Nat
    BY DEF IsState
  <2>2. t.at \in Nat
    BY <1>1, <2>1
  <2>. QED  BY <1>1, <1>2, <2>2 DEF IsState
<1>4. Fine(scenario, buckets, r, t, c)
  BY <1>1, <1>2, <1>3 DEF Fine, PassFine, QueueFine, AwaitFine, FlightFine
<1>5. IsErased(buckets, s, e)
  BY Erased
<1>6. /\ f = [k \in Fields |-> f[k]] /\ \A k \in Fields \ U : f[k] = e[k]
      /\ f.stage = "sweep" /\ f.at = e.at + 1 /\ e.at = s.at
  <2>. HIDE DEF e
  <2>. QED  BY <1>5 DEF IsErased, Fields, Values
<1>. HIDE DEF f
<1>7. U \subseteq Fields \ Values /\ \A k \in U : f[k] = t[k]
  BY <1>1, <1>6 DEF Fields, Values
<1>. HIDE DEF U
<1>8. Updated(buckets, s, t, f, U)
  BY <1>1, <1>3, <1>6, <1>7 DEF Updated
<1>9. Erase(buckets, t) = f
  BY <1>8, UpdatedView
<1>. QED  BY <1>4, <1>9 DEF f

(* The bucket that a view is at. *)
LEMMA BucketView ==
  ASSUME Types, NEW r \in Rank, st[r].stage = "sweep", NEW s, s = st[r],
         NEW e, e = Erase(buckets, s), NEW v, v = View(buckets, s, calls[r])
  PROVE  /\ IsState(buckets, s) /\ FlightFine(buckets, s, calls[r])
         /\ calls[r] \in Seq(Seq(Entry)) /\ s.pass <= Len(scenario.uses)
         /\ Follow(scenario, buckets, v) = FromSweep(scenario, buckets, v)
         /\ v.self = e /\ v.sent = Sent(calls[r]) /\ e = [k \in Fields |-> e[k]]
         /\ e.at = s.at /\ e.ready = s.ready /\ e.stage = "sweep" /\ e.ops = s.ops
         /\ e.flat = s.flat
<1>1. Fine(scenario, buckets, r, s, calls[r])
  BY DEF Types
<1>2. /\ IsState(buckets, s) /\ FlightFine(buckets, s, calls[r])
      /\ calls[r] \in Seq(Seq(Entry)) /\ s.pass <= Len(scenario.uses)
  BY <1>1 DEF Fine, PassFine
<1>3. /\ Follow(scenario, buckets, v) = FromSweep(scenario, buckets, v)
      /\ v.self = e /\ v.sent = Sent(calls[r])
  BY FollowIs
<1>4. IsErased(buckets, s, e)
  BY <1>2, Erased
<1>5. /\ e = [k \in Fields |-> e[k]] /\ e.at = s.at /\ e.ready = s.ready /\ e.stage = s.stage
      /\ e.ops = s.ops /\ e.flat = s.flat
  BY <1>4 DEF IsErased, Fields, Values
<1>. QED  BY <1>2, <1>3, <1>5

(* A bucket that is reduced already. *)
LEMMA SweepSkipsGoes ==
  ASSUME Types, NEW r \in Rank, SweepSkips(r)
  PROVE  Goes(r)
<1>1. PICK s, e, v : s = st[r] /\ e = Erase(buckets, s) /\ v = View(buckets, s, calls[r])
  OBVIOUS
<1>2. PICK t : t = [s EXCEPT !.stage = "sweep", !.at = @ + 1]
  OBVIOUS
<1>3. /\ s.stage = "sweep" /\ s.at \in 1 .. Len(buckets) /\ s.ready[s.at]
      /\ Becomes(r, [s EXCEPT !.at = @ + 1])
  BY <1>1 DEF SweepSkips, AtBucket, Bucket
<1>4. /\ IsState(buckets, s) /\ FlightFine(buckets, s, calls[r])
      /\ calls[r] \in Seq(Seq(Entry)) /\ s.pass <= Len(scenario.uses)
      /\ Follow(scenario, buckets, v) = FromSweep(scenario, buckets, v)
      /\ v.self = e /\ v.sent = Sent(calls[r]) /\ e = [k \in Fields |-> e[k]]
      /\ e.at = s.at /\ e.ready = s.ready /\ e.stage = "sweep"
  BY <1>1, <1>3, BucketView
<1>5. t = [s EXCEPT !.at = @ + 1]
  BY <1>2, <1>3, <1>4 DEF IsState, Fields
<1>6. [e EXCEPT !.stage = "sweep", !.at = @ + 1] = [e EXCEPT !.at = @ + 1]
  BY <1>4 DEF Fields
<1>7. Fine(scenario, buckets, r, t, calls[r]) /\ Erase(buckets, t) = [e EXCEPT !.at = @ + 1]
  <2>1. /\ Fine(scenario, buckets, r, t, calls[r])
        /\ Erase(buckets, t) = [Erase(buckets, s) EXCEPT !.stage = "sweep", !.at = @ + 1]
    BY <1>2, <1>4, AdvanceGoes
  <2>. QED  BY <1>1, <1>6, <2>1
<1>8. Follow(scenario, buckets, v) = [self |-> [e EXCEPT !.at = @ + 1], sent |-> Sent(calls[r])]
  <2>1. ~(e.at \notin 1 .. Len(buckets)) /\ e.ready[e.at]
    BY <1>3, <1>4
  <2>. QED  BY <1>4, <2>1 DEF FromSweep
<1>9. Becomes(r, t)
  BY <1>3, <1>5
<1>. QED  BY <1>1, <1>7, <1>8, <1>9, QuietStep

(* A bucket that is reduced now, blocking ... *)
LEMMA SweepReducesGoes ==
  ASSUME Types, NEW r \in Rank, SweepReduces(r)
  PROVE  Goes(r)
<1>1. PICK s, e, v : s = st[r] /\ e = Erase(buckets, s) /\ v = View(buckets, s, calls[r])
  OBVIOUS
<1>2. PICK t : t = Begun(s, s.at, "sweep")
  OBVIOUS
<1>3. /\ s.stage = "sweep" /\ s.at \in 1 .. Len(buckets) /\ ~s.ready[s.at] /\ ~OnStream(scenario)
      /\ Becomes(r, t)
  BY <1>1, <1>2 DEF SweepReduces, AtBucket, Bucket, Async, OnStream, Begun
<1>4. /\ IsState(buckets, s) /\ FlightFine(buckets, s, calls[r])
      /\ calls[r] \in Seq(Seq(Entry)) /\ s.pass <= Len(scenario.uses)
      /\ Follow(scenario, buckets, v) = FromSweep(scenario, buckets, v)
      /\ v.self = e /\ v.sent = Sent(calls[r])
      /\ e.at = s.at /\ e.ready = s.ready
  BY <1>1, <1>3, BucketView
<1>5. /\ Fine(scenario, buckets, r, t, calls[r])
      /\ Erase(buckets, t) = Starts(scenario, buckets, e, e.at, "sweep")
  BY <1>1, <1>2, <1>3, <1>4, StartGoes
<1>6. Follow(scenario, buckets, v)
        = [self |-> Starts(scenario, buckets, e, e.at, "sweep"), sent |-> Sent(calls[r])]
  <2>1. ~(e.at \notin 1 .. Len(buckets)) /\ ~e.ready[e.at]
    BY <1>3, <1>4
  <2>. QED  BY <1>3, <1>4, <2>1 DEF FromSweep
<1>. QED  BY <1>1, <1>3, <1>5, <1>6, QuietStep

(* ... or on its stream. *)
LEMMA SweepLaunchesGoes ==
  ASSUME Types, NEW r \in Rank, SweepLaunches(r)
  PROVE  Goes(r)
<1>1. PICK s, e, v, b : /\ s = st[r] /\ e = Erase(buckets, s) /\ v = View(buckets, s, calls[r])
                        /\ b = s.at
  OBVIOUS
<1>2. PICK l, d : /\ l = Launched(r, s, b)
                  /\ d = [i \in DOMAIN Buffers(s, b) |-> Packed(s, b, Buffers(s, b)[i])]
  OBVIOUS
<1>3. PICK t, w : t = [l EXCEPT !.stage = "sweep", !.at = @ + 1] /\ w = [l EXCEPT !.at = @ + 1]
  OBVIOUS
<1>4. /\ s.stage = "sweep" /\ b \in 1 .. Len(buckets) /\ ~s.ready[b] /\ OnStream(scenario)
      /\ Launch(r, s, b, w)
  BY <1>1, <1>2, <1>3 DEF SweepLaunches, AtBucket, Bucket, Async, OnStream
<1>5. /\ IsState(buckets, s) /\ FlightFine(buckets, s, calls[r])
      /\ calls[r] \in Seq(Seq(Entry)) /\ s.pass <= Len(scenario.uses)
      /\ Follow(scenario, buckets, v) = FromSweep(scenario, buckets, v)
      /\ v.self = e /\ v.sent = Sent(calls[r]) /\ e.at = b /\ e.ready = s.ready
  BY <1>1, <1>4, BucketView
<1>6. /\ IsState(buckets, l) /\ FlightFine(buckets, l, calls[r] \o d)
      /\ \A k \in Fields \ {"override", "flat", "ops", "ready"} : l[k] = s[k]
      /\ Erase(buckets, l) = Flies(scenario, buckets, e, b, Len(Sent(calls[r])))
  BY <1>1, <1>2, <1>4, <1>5, LaunchedGoes
<1>7. l.pass = s.pass /\ l.stage = "sweep"
  BY <1>4, <1>6 DEF Fields
<1>8. d \in Seq(Seq(Entry)) /\ calls[r] \o d \in Seq(Seq(Entry))
  <2>1. d \in Seq(Seq(Entry))
    BY <1>2, <1>4, <1>5, PackedAll
  <2>. QED  BY <1>5, <2>1, SentIs
<1>9. t = w
  BY <1>3, <1>6, <1>7 DEF IsState, Fields
<1>10. PICK y : y = Flies(scenario, buckets, e, b, Len(Sent(calls[r])))
  OBVIOUS
<1>11. [y EXCEPT !.stage = "sweep", !.at = @ + 1] = [y EXCEPT !.at = @ + 1]
  <2>1. IsErased(buckets, l, y)
    BY <1>6, <1>10, Erased
  <2>2. y = [k \in Fields |-> y[k]] /\ y.stage = "sweep"
    BY <1>7, <2>1 DEF IsErased, Fields, Values
  <2>. QED  BY <2>2 DEF Fields
<1>12. Fine(scenario, buckets, r, t, calls[r] \o d) /\ Erase(buckets, t) = [y EXCEPT !.at = @ + 1]
  <2>1. PICK c \in Seq(Seq(Entry)) : c = calls[r] \o d
    BY <1>8
  <2>2. IsState(buckets, l) /\ FlightFine(buckets, l, c) /\ l.pass <= Len(scenario.uses)
    BY <1>5, <1>6, <1>7, <2>1
  <2>3. /\ Fine(scenario, buckets, r, t, c)
        /\ Erase(buckets, t) = [Erase(buckets, l) EXCEPT !.stage = "sweep", !.at = @ + 1]
    BY <1>3, <2>2, AdvanceGoes
  <2>. QED  BY <1>6, <1>10, <1>11, <2>1, <2>3
<1>13. Follow(scenario, buckets, v)
         = [self |-> [y EXCEPT !.at = @ + 1],
            sent |-> Sent(calls[r]) \o Split(scenario, Chosen(scenario, buckets, e, b))]
  <2>1. ~(e.at \notin 1 .. Len(buckets)) /\ ~e.ready[e.at]
    BY <1>4, <1>5
  <2>. QED  BY <1>4, <1>5, <1>10, <2>1 DEF FromSweep
<1>14. Launch(r, s, b, t)
  BY <1>4, <1>9 DEF Launch
<1>15. Follow(scenario, buckets, View(buckets, st[r], calls[r]))
         = [self |-> Erase(buckets, t),
            sent |-> Sent(calls[r])
                       \o Split(scenario, Chosen(scenario, buckets, Erase(buckets, s), b))]
  BY <1>1, <1>12, <1>13
<1>. QED  BY <1>2, <1>4, <1>5, <1>12, <1>14, <1>15, LaunchStep

-----------------------------------------------------------------------------
(* A blocking reduction. *)

(* What has been called stays called. *)
LEMMA FlightLonger ==
  ASSUME NEW bk, NEW s, NEW c \in Seq(Seq(Entry)), NEW d \in Seq(Seq(Entry)), FlightFine(bk, s, c),
         NEW t, t.flat = s.flat
  PROVE  FlightFine(bk, t, c \o d)
<1>1. /\ Len(c \o d) = Len(c) + Len(d) /\ Len(c) \in Nat /\ Len(d) \in Nat
      /\ \A n \in 1 .. Len(c) : (c \o d)[n] = c[n]
  BY ConcatProperties
<1>2. 1 .. Len(c) \subseteq 1 .. Len(c \o d)
  BY <1>1
<1>. QED  BY <1>1, <1>2 DEF FlightFine

(* The reduction that a rank is in. *)
LEMMA ReduceView ==
  ASSUME Types, NEW r \in Rank, NEW s, s = st[r], s.stage \in {"reduce", "wait"},
         NEW e, e = Erase(buckets, s)
  PROVE  /\ IsState(buckets, s) /\ FlightFine(buckets, s, calls[r])
         /\ calls[r] \in Seq(Seq(Entry))
         /\ PassFine(scenario, r, s) /\ QueueFine(scenario, buckets, s) /\ AwaitFine(s, calls[r])
         /\ s.bucket \in 1 .. Len(buckets) /\ s.queue \in Seq(Seq(Param))
         /\ IsErased(buckets, s, e)
         /\ e.queue = s.queue /\ e.bucket = s.bucket /\ e.back = s.back
<1>1. Fine(scenario, buckets, r, s, calls[r])
  BY DEF Types
<1>2. /\ IsState(buckets, s) /\ FlightFine(buckets, s, calls[r])
      /\ calls[r] \in Seq(Seq(Entry))
      /\ PassFine(scenario, r, s) /\ QueueFine(scenario, buckets, s) /\ AwaitFine(s, calls[r])
  BY <1>1 DEF Fine
<1>3. s.bucket \in 1 .. Len(buckets) /\ s.queue \in Seq(Seq(Param))
  BY <1>2 DEF QueueFine, IsState
<1>4. IsErased(buckets, s, e)
  BY <1>2, Erased
<1>5. e.queue = s.queue /\ e.bucket = s.bucket /\ e.back = s.back
  BY <1>4 DEF IsErased, Fields, Values
<1>. QED  BY <1>2, <1>3, <1>4, <1>5

(* The first buffer of the queue is to be of parameters with gradients, *)
LEMMA QueueIs ==
  ASSUME Types, NEW r \in Rank, st[r].stage = "reduce", st[r].queue # <<>>,
         NEW hd, hd = Head(st[r].queue)
  PROVE  /\ hd \in Seq(Param)
         /\ \A p \in ToSet(hd) : /\ p \in Param /\ ToReduce(st[r], st[r].bucket, p) \in Grad
                                 /\ scenario.compress => st[r].grad[p] \in Grad
<1>1. PICK s, b : s = st[r] /\ b = s.bucket
  OBVIOUS
<1>2. /\ IsState(buckets, s) /\ QueueFine(scenario, buckets, s)
      /\ b \in 1 .. Len(buckets) /\ s.queue \in Seq(Seq(Param))
  BY <1>1, ReduceView
<1>3. hd \in Seq(Param) /\ 1 \in DOMAIN s.queue /\ hd = s.queue[1]
  BY <1>1, <1>2
<1>4. s.override[b] \in [DOMAIN s.override[b] -> Grad]
  BY <1>2, PartialIs DEF IsState
<1>5. ASSUME NEW p \in ToSet(hd)
      PROVE  p \in Param /\ ToReduce(s, b, p) \in Grad /\ (scenario.compress => s.grad[p] \in Grad)
  <2>1. p \in Param
    BY <1>3, <1>5 DEF ToSet
  <2>2. s.grad[p] # None \/ (~scenario.compress /\ p \in DOMAIN s.override[b])
    BY <1>1, <1>2, <1>3, <1>5 DEF QueueFine
  <2>3. s.grad[p] \in Grad \cup {None}
    BY <1>2, <2>1 DEF IsState
  <2>. QED  BY <1>4, <2>1, <2>2, <2>3 DEF ToReduce
<1>. QED  BY <1>1, <1>3, <1>5

(* and what is compressed is a gradient again. *)
LEMMA FlatIs ==
  ASSUME Types, NEW r \in Rank, NEW p \in Param, NEW found, st[r].grad[p] \in Grad
  PROVE  Flat(r, p, found) \in Grad /\ Zero \in Grad
<1>1. residual[r][p] \in Grad
  BY DEF Types
<1>2. Accumulate(residual[r][p], st[r].grad[p]) \in Grad
  BY <1>1, GradientTypes
<1>3. Zero \in Grad
  BY DEF Zero, Grad
<1>. QED  BY <1>2, <1>3 DEF Flat

(* A compressed buffer is one of the same parameters. *)
LEMMA CompressedIs ==
  ASSUME Types, NEW r \in Rank, NEW ps \in Seq(Param), NEW found, NEW kept, NEW x,
         x = Compressed(r, ps, found, kept), \A p \in ToSet(ps) : st[r].grad[p] \in Grad
  PROVE  x \in Seq(Entry) /\ Len(x) = Len(ps) /\ [i \in DOMAIN x |-> x[i].param] = ps
<1>1. ASSUME NEW i \in DOMAIN ps
      PROVE  ps[i] \in Param /\ Flat(r, ps[i], found) \in Grad /\ Zero \in Grad
  <2>1. ps[i] \in Param /\ ps[i] \in ToSet(ps)
    BY <1>1 DEF ToSet
  <2>. QED  BY <2>1, FlatIs
<1>2. x \in [1 .. Len(ps) -> Entry] /\ DOMAIN x = DOMAIN ps
  BY <1>1 DEF Compressed, Entry
<1>3. x \in Seq(Entry) /\ Len(x) = Len(ps)
  BY <1>2
<1>4. \A i \in DOMAIN ps : x[i].param = ps[i]
  BY DEF Compressed
<1>5. ps = [i \in DOMAIN ps |-> ps[i]]
  OBVIOUS
<1>. QED  BY <1>2, <1>3, <1>4, <1>5

(* The rank calls the collective for the first buffer of its queue ... *)
LEMMA AllReduceGoes ==
  ASSUME Types, NEW r \in Rank, AllReduce(r)
  PROVE  Goes(r)
<1>1. PICK s, e, v, b, c, hd : /\ s = st[r] /\ e = Erase(buckets, s)
                               /\ v = View(buckets, s, calls[r]) /\ b = s.bucket
                               /\ c = calls[r] /\ hd = Head(s.queue)
  OBVIOUS
<1>2. PICK y, x : /\ y = Pack(s, b)
                  /\ Calls(r, [y EXCEPT !.stage = "wait"], x)
                  /\ \/ ~scenario.compress /\ x = Packed(s, b, hd)
                     \/ scenario.compress /\ \E found, kept : x = Compressed(r, hd, found, kept)
  <2>1. PICK y : y = Pack(s, b)
    OBVIOUS
  <2>2. \/ ~scenario.compress /\ Calls(r, [y EXCEPT !.stage = "wait"], Packed(s, b, hd))
        \/ /\ scenario.compress
           /\ \E found, kept \in SUBSET ToSet(hd) :
                 Calls(r, [y EXCEPT !.stage = "wait"], Compressed(r, hd, found, kept))
    BY <1>1, <2>1 DEF AllReduce
  <2>3. CASE ~scenario.compress
    BY <2>1, <2>2, <2>3
  <2>4. CASE scenario.compress
    BY <2>1, <2>2, <2>4
  <2>. QED  BY <2>3, <2>4
<1>3. PICK t, d : t = [y EXCEPT !.stage = "wait"] /\ d = c \o <<x>>
  OBVIOUS
<1>4. /\ s.stage = "reduce" /\ s.queue # <<>>
      /\ st' = [st EXCEPT ![r] = t] /\ calls' = [calls EXCEPT ![r] = Append(c, x)]
  BY <1>1, <1>2, <1>3 DEF AllReduce, Calls
<1>5. /\ IsState(buckets, s) /\ FlightFine(buckets, s, c) /\ c \in Seq(Seq(Entry))
      /\ PassFine(scenario, r, s) /\ QueueFine(scenario, buckets, s)
      /\ b \in 1 .. Len(buckets) /\ s.queue \in Seq(Seq(Param))
      /\ IsErased(buckets, s, e) /\ e.queue = s.queue /\ e.bucket = b
  BY <1>1, <1>4, ReduceView
<1>6. hd \in Seq(Param) /\ 1 \in DOMAIN s.queue /\ hd = s.queue[1]
  BY <1>1, <1>4, <1>5
<1>7. \A p \in ToSet(hd) : ToReduce(s, b, p) \in Grad /\ (scenario.compress => s.grad[p] \in Grad)
  BY <1>1, <1>4, QueueIs
<1>8. x \in Seq(Entry) /\ Len(x) = Len(hd) /\ [i \in DOMAIN x |-> x[i].param] = hd
  <2>1. CASE x = Packed(s, b, hd)
    BY <1>6, <1>7, <2>1, PackedIs
  <2>2. ASSUME scenario.compress, NEW found, NEW kept, x = Compressed(r, hd, found, kept)
        PROVE  x \in Seq(Entry) /\ Len(x) = Len(hd) /\ [i \in DOMAIN x |-> x[i].param] = hd
    BY <1>1, <1>6, <1>7, <2>2, CompressedIs
  <2>. QED  BY <1>2, <2>1, <2>2
<1>9. /\ <<x>> \in Seq(Seq(Entry)) /\ d \in Seq(Seq(Entry)) /\ Append(c, x) = d
      /\ Sent(d) = Sent(c) \o Sent(<<x>>) /\ Prefix(c, d) /\ Sent(c) \in Seq(Seq(Param))
  <2>1. <<x>> \in Seq(Seq(Entry))
    BY <1>8
  <2>2. Append(c, x) = d
    BY <1>3, <1>5, <1>8, AppendIsConcat
  <2>. QED  BY <1>3, <1>5, <2>1, <2>2, SentIs
<1>10. Len(d) = Len(c) + 1 /\ d[Len(d)] = x /\ d # <<>>
  <2>1. /\ Append(c, x) # <<>> /\ Len(Append(c, x)) = Len(c) + 1
        /\ Append(c, x)[Len(c) + 1] = x
    BY <1>5, <1>8, AppendProperties
  <2>. QED  BY <1>9, <2>1
<1>11. Sent(d) = Append(Sent(c), hd)
  <2>1. Sent(<<x>>) = <<hd>>
    <3>1. DOMAIN <<x>> = 1 .. 1 /\ <<x>>[1] = x
      OBVIOUS
    <3>2. Sent(<<x>>) = [n \in 1 .. 1 |-> [i \in DOMAIN <<x>>[n] |-> <<x>>[n][i].param]]
      BY <3>1 DEF Sent
    <3>3. Sent(<<x>>) = [n \in 1 .. 1 |-> hd]
      BY <1>8, <3>1, <3>2
    <3>4. <<hd>> = [n \in 1 .. 1 |-> hd]
      OBVIOUS
    <3>. QED  BY <3>3, <3>4
  <2>2. Append(Sent(c), hd) = Sent(c) \o <<hd>>
    BY <1>6, <1>9, AppendIsConcat
  <2>. QED  BY <1>9, <2>1, <2>2
<1>12. /\ IsState(buckets, y) /\ \A k \in Fields \ {"override"} : y[k] = s[k]
       /\ Erase(buckets, y) = Emptied(scenario, e, b)
  BY <1>1, <1>2, <1>5, PackGoes
<1>13. /\ t = [k \in Fields |-> t[k]] /\ t.stage = "wait"
       /\ \A k \in Fields \ {"stage"} : t[k] = y[k]
  BY <1>3, <1>12 DEF IsState, Fields
<1>14. /\ t.at = s.at /\ t.pass = s.pass /\ t.queue = s.queue /\ t.grad = s.grad
       /\ t.flat = s.flat /\ t.ops = s.ops /\ t.bucket = b /\ t.back = s.back
       /\ t.override = y.override
  BY <1>1, <1>12, <1>13 DEF Fields
<1>15. IsState(buckets, t)
  BY <1>5, <1>12, <1>13, <1>14 DEF IsState
<1>16. Fine(scenario, buckets, r, t, d)
  <2>1. PassFine(scenario, r, t)
    BY <1>4, <1>5, <1>13, <1>14 DEF PassFine
  <2>2. QueueFine(scenario, buckets, t)
    BY <1>4, <1>5, <1>13, <1>14 DEF QueueFine
  <2>3. AwaitFine(t, d)
    BY <1>1, <1>4, <1>8, <1>10, <1>14 DEF AwaitFine
  <2>4. FlightFine(buckets, t, d)
    BY <1>3, <1>5, <1>9, <1>14, FlightLonger
  <2>. QED  BY <1>9, <1>15, <2>1, <2>2, <2>3, <2>4 DEF Fine
<1>17. PICK ey, f : ey = Emptied(scenario, e, b) /\ f = [ey EXCEPT !.stage = "wait"]
  OBVIOUS
<1>18. Erase(buckets, t) = f
  <2>1. IsErased(buckets, y, ey)
    BY <1>12, <1>17, Erased
  <2>2. /\ f = [k \in Fields |-> f[k]] /\ \A k \in Fields \ {"stage"} : f[k] = ey[k]
        /\ f.stage = "wait"
    BY <1>17, <2>1 DEF IsErased, Fields
  <2>3. Updated(buckets, y, t, f, {"stage"})
    BY <1>12, <1>13, <1>15, <1>17, <2>2 DEF Updated, Fields, Values
  <2>. QED  BY <2>3, UpdatedView
<1>19. Follow(scenario, buckets, v) = View(buckets, t, d)
  <2>1. /\ Follow(scenario, buckets, v) = FromReduce(scenario, v)
        /\ v.self = e /\ v.sent = Sent(c)
    BY <1>1, <1>4, FollowIs
  <2>2. e.queue # <<>> /\ Head(e.queue) = hd
    BY <1>1, <1>4, <1>5
  <2>3. FromReduce(scenario, v) = [self |-> f, sent |-> Append(Sent(c), hd)]
    BY <1>5, <1>17, <2>1, <2>2 DEF FromReduce
  <2>. QED  BY <1>11, <1>18, <2>1, <2>3 DEF View
<1>20. /\ st' = [st EXCEPT ![r] = t] /\ calls' = [calls EXCEPT ![r] = d]
       /\ st'[r] = t /\ calls'[r] = d
  <2>1. st = [q \in Rank |-> st[q]] /\ calls = [q \in Rank |-> calls[q]]
    BY DEF Types
  <2>. QED  BY <1>4, <1>9, <2>1
<1>. QED  BY <1>1, <1>9, <1>16, <1>19, <1>20 DEF Goes

(* What a complete collective returns for a place of its buffer. *)
LEMMA CompleteType ==
  ASSUME Types, NEW r \in Rank, NEW n \in 1 .. Len(calls[r]), Complete(n),
         NEW i \in 1 .. Len(calls[r][n])
  PROVE  Averaged(n, i) \in Grad
<1>1. ASSUME NEW q \in Rank
      PROVE  calls[q][n][i].value \in Grad
  <2>1. /\ calls[q] \in Seq(Seq(Entry)) /\ calls[r] \in Seq(Seq(Entry))
        /\ Len(calls[q]) >= n /\ Layout(calls[q][n]) = Layout(calls[r][n])
    BY DEF Types, Fine, Complete
  <2>2. n \in 1 .. Len(calls[q]) /\ calls[q][n] \in Seq(Entry) /\ calls[r][n] \in Seq(Entry)
    BY <2>1
  <2>3. DOMAIN calls[q][n] = DOMAIN calls[r][n]
    BY <2>1 DEF Layout
  <2>4. i \in DOMAIN calls[q][n]
    BY <2>2, <2>3
  <2>5. calls[q][n][i] \in Entry
    BY <2>2, <2>4
  <2>. QED  BY <2>5 DEF Entry
<1>. QED  BY <1>1, AveragedType

(* Unpacking it gives every parameter of the buffer a gradient. *)
LEMMA UnpackType ==
  ASSUME Types, NEW r \in Rank, NEW n \in 1 .. Len(calls[r]), Complete(n),
         NEW ps \in Seq(Param), Len(calls[r][n]) = Len(ps), NEW grad,
         NEW p \in ToSet(ps)
  PROVE  p \in Param /\ Unpack(grad, ps, n)[p] \in Grad
<1>1. \E i \in DOMAIN ps : ps[i] = p
  BY DEF ToSet
<1>2. p \in Param
  BY <1>1
<1>3. PICK i : i = CHOOSE j \in DOMAIN ps : ps[j] = p
  OBVIOUS
<1>4. i \in DOMAIN ps
  BY <1>1, <1>3
<1>5. i \in 1 .. Len(calls[r][n])
  BY <1>4
<1>6. Averaged(n, i) \in Grad
  BY <1>5, CompleteType
<1>7. Unpack(grad, ps, n)[p] = Averaged(n, i)
  BY <1>2, <1>3 DEF Unpack
<1>. QED  BY <1>2, <1>6, <1>7

(* ... and it returns. *)
LEMMA AllReduceReturnsGoes ==
  ASSUME Types, NEW r \in Rank, AllReduceReturns(r)
  PROVE  Goes(r)
<1>1. PICK s, e, v, c, hd, n : /\ s = st[r] /\ e = Erase(buckets, s)
                               /\ v = View(buckets, s, calls[r])
                               /\ c = calls[r] /\ hd = Head(s.queue) /\ n = Len(c)
  OBVIOUS
<1>2. PICK x, tl : x = Unpack(s.grad, hd, n) /\ tl = Tail(s.queue)
  OBVIOUS
<1>3. PICK t : t = [s EXCEPT !.grad = x, !.queue = tl, !.stage = "reduce"]
  OBVIOUS
<1>4. s.stage = "wait" /\ Complete(n) /\ Becomes(r, t)
  BY <1>1, <1>2, <1>3 DEF AllReduceReturns
<1>5. /\ IsState(buckets, s) /\ FlightFine(buckets, s, c) /\ c \in Seq(Seq(Entry))
      /\ PassFine(scenario, r, s) /\ QueueFine(scenario, buckets, s) /\ AwaitFine(s, c)
      /\ s.bucket \in 1 .. Len(buckets) /\ s.queue \in Seq(Seq(Param))
      /\ IsErased(buckets, s, e) /\ e.queue = s.queue
  BY <1>1, <1>4, ReduceView
<1>6. s.queue # <<>> /\ c # <<>> /\ Len(c[n]) = Len(hd)
  BY <1>1, <1>4, <1>5 DEF AwaitFine
<1>7. n \in 1 .. Len(calls[r]) /\ n \in Nat
  BY <1>1, <1>5, <1>6
<1>8. /\ hd \in Seq(Param) /\ tl \in Seq(Seq(Param)) /\ Len(tl) = Len(s.queue) - 1
      /\ \A i \in 1 .. Len(tl) : tl[i] = s.queue[i + 1]
  BY <1>1, <1>2, <1>5, <1>6, HeadTailProperties
<1>9. \A p \in ToSet(hd) : p \in Param /\ x[p] \in Grad
  BY <1>1, <1>2, <1>4, <1>6, <1>7, <1>8, UnpackType
<1>10. x = [p \in Param |-> x[p]] /\ \A p \in Param \ ToSet(hd) : x[p] = s.grad[p]
  BY <1>2 DEF Unpack
<1>11. x \in [Param -> Grad \cup {None}]
  <2>1. \A p \in Param : x[p] \in Grad \cup {None}
    BY <1>5, <1>9, <1>10 DEF IsState
  <2>. QED  BY <1>10, <2>1
<1>12. {p \in Param : x[p] # None} = {p \in Param : s.grad[p] # None} \cup ToSet(hd)
  BY <1>9, <1>10, NoneAssumption
<1>13. /\ t = [k \in Fields |-> t[k]] /\ t.grad = x /\ t.queue = tl /\ t.stage = "reduce"
       /\ \A k \in Fields \ {"grad", "queue", "stage"} : t[k] = s[k]
  BY <1>3, <1>5 DEF IsState, Fields
<1>14. /\ t.at = s.at /\ t.pass = s.pass /\ t.override = s.override
       /\ t.flat = s.flat /\ t.ops = s.ops /\ t.bucket = s.bucket /\ t.back = s.back
  BY <1>13 DEF Fields
<1>15. IsState(buckets, t)
  BY <1>5, <1>8, <1>11, <1>13, <1>14 DEF IsState
<1>16. Fine(scenario, buckets, r, t, c)
  <2>1. PassFine(scenario, r, t)
    BY <1>4, <1>5, <1>13, <1>14 DEF PassFine
  <2>2. Len(s.queue) \in Nat /\ DOMAIN s.queue = 1 .. Len(s.queue) /\ DOMAIN tl = 1 .. Len(tl)
        /\ Len(tl) \in Nat
    BY <1>5, <1>8
  <2>3. ASSUME scenario.compress, NEW i \in DOMAIN tl, NEW p \in ToSet(tl[i])
        PROVE  x[p] # None
    <3>1. i + 1 \in DOMAIN s.queue /\ p \in ToSet(s.queue[i + 1])
      <4>1. i \in 1 .. Len(tl) /\ tl[i] = s.queue[i + 1]
        BY <1>8, <2>2, <2>3
      <4>2. i + 1 \in 1 .. Len(s.queue)
        BY <1>8, <2>2, <4>1
      <4>. QED  BY <2>2, <2>3, <4>1, <4>2
    <3>2. s.grad[p] # None
      BY <1>4, <1>5, <2>3, <3>1 DEF QueueFine
    <3>3. p \in Param
      <4>1. s.queue[i + 1] \in Seq(Param)
        BY <1>5, <3>1
      <4>. QED  BY <3>1, <4>1 DEF ToSet
    <3>. QED  BY <1>12, <3>2, <3>3
  <2>4. ASSUME ~scenario.compress PROVE Len(tl) = 0 /\ DOMAIN tl = {}
    <3>1. Len(s.queue) <= 1
      BY <1>4, <1>5, <2>4 DEF QueueFine
    <3>2. Len(tl) = 0
      <4>1. PICK m \in Nat, k \in Nat : m = Len(tl) /\ k = Len(s.queue)
        BY <2>2
      <4>2. m = k - 1 /\ k <= 1
        BY <1>8, <3>1, <4>1
      <4>3. m = 0
        BY <4>2
      <4>. QED  BY <4>1, <4>3
    <3>. QED  BY <2>2, <3>2
  <2>5. QueueFine(scenario, buckets, t)
    BY <1>5, <1>13, <1>14, <2>3, <2>4 DEF QueueFine
  <2>6. AwaitFine(t, c) /\ FlightFine(buckets, t, c)
    BY <1>5, <1>13, <1>14 DEF AwaitFine, FlightFine
  <2>. QED  BY <1>5, <1>15, <2>1, <2>5, <2>6 DEF Fine
<1>17. PICK f : f = [e EXCEPT !.grad = @ \cup ToSet(hd), !.queue = tl, !.stage = "reduce"]
  OBVIOUS
<1>18. Erase(buckets, t) = f
  <2>1. /\ f = [k \in Fields |-> f[k]] /\ f.grad = e.grad \cup ToSet(hd) /\ f.queue = tl
        /\ f.stage = "reduce" /\ \A k \in Fields \ {"grad", "queue", "stage"} : f[k] = e[k]
    BY <1>5, <1>17 DEF IsErased, Fields
  <2>2. \A k \in Fields \ Values : f[k] = t[k]
    BY <1>5, <1>13, <2>1 DEF IsErased, Values
  <2>3. f.override = e.override /\ f.zeroed = e.zeroed /\ f.filled = e.filled
    BY <2>1 DEF Fields
  <2>4. f.grad = {p \in Param : t.grad[p] # None}
    BY <1>5, <1>12, <1>13, <2>1 DEF IsErased
  <2>5. f.override = [b \in 1 .. Len(buckets) |-> DOMAIN t.override[b]]
    BY <1>5, <1>14, <2>3 DEF IsErased
  <2>6. f.zeroed = 0 /\ f.filled = {}
    BY <1>5, <2>3 DEF IsErased
  <2>7. IsErased(buckets, t, f)
    BY <2>1, <2>2, <2>4, <2>5, <2>6 DEF IsErased
  <2>. QED  BY <1>15, <2>7, ErasedAre
<1>19. Follow(scenario, buckets, v) = [self |-> f, sent |-> Sent(c)]
  <2>1. /\ Follow(scenario, buckets, v) = [self |-> FromWait(v.self), sent |-> v.sent]
        /\ v.self = e /\ v.sent = Sent(c)
    BY <1>1, <1>4, FollowIs
  <2>2. FromWait(e) = f
    <3>1. Head(e.queue) = hd /\ Tail(e.queue) = tl
      BY <1>1, <1>2, <1>5
    <3>. QED  BY <1>17, <3>1 DEF FromWait
  <2>. QED  BY <2>1, <2>2
<1>. QED  BY <1>1, <1>4, <1>16, <1>18, <1>19, QuietStep

(* filled is history. *)
LEMMA FilledGoes ==
  ASSUME NEW g, NEW bk, NEW r, NEW s, NEW c, Fine(g, bk, r, s, c), NEW x,
         NEW t, t = [s EXCEPT !.filled = x]
  PROVE  Fine(g, bk, r, t, c) /\ Erase(bk, t) = Erase(bk, s)
<1>1. IsState(bk, s)
  BY DEF Fine
<1>2. t = [k \in Fields |-> t[k]] /\ \A k \in Core : t[k] = s[k]
  BY <1>1 DEF IsState, Fields, Core
<1>3. Fine(g, bk, r, t, c)
  BY <1>2, CoreFine
<1>4. Erase(bk, t) = Erase(bk, s)
  BY <1>1 DEF IsState, Erase, Fields
<1>. QED  BY <1>3, <1>4

(* All buffers of the bucket are reduced. *)
LEMMA BucketReducedGoes ==
  ASSUME Types, NEW r \in Rank, BucketReduced(r)
  PROVE  Goes(r)
<1>1. PICK s, e, v, b, c, h : /\ s = st[r] /\ e = Erase(buckets, s)
                              /\ v = View(buckets, s, calls[r]) /\ b = s.bucket
                              /\ c = calls[r] /\ h = Hooked(r)
  OBVIOUS
<1>2. PICK y, ey : y = [s EXCEPT !.ready[b] = TRUE] /\ ey = [e EXCEPT !.ready[b] = TRUE]
  OBVIOUS
<1>3. s.stage = "reduce" /\ s.queue = <<>>
  BY <1>1 DEF BucketReduced
<1>4. /\ IsState(buckets, s) /\ c \in Seq(Seq(Entry)) /\ PassFine(scenario, r, s)
      /\ b \in 1 .. Len(buckets)
      /\ IsErased(buckets, s, e) /\ e.queue = s.queue /\ e.bucket = b /\ e.back = s.back
  BY <1>1, <1>3, ReduceView
<1>5. Fine(scenario, buckets, r, y, c) /\ Erase(buckets, y) = ey
  <2>1. Fine(scenario, buckets, r, s, c)
    BY <1>1 DEF Types
  <2>2. /\ Fine(scenario, buckets, r, [s EXCEPT !.ready[b] = TRUE], c)
        /\ Erase(buckets, [s EXCEPT !.ready[b] = TRUE])
             = [Erase(buckets, s) EXCEPT !.ready[b] = TRUE]
    BY <2>1, ReadyGoes
  <2>. QED  BY <1>1, <1>2, <2>2
<1>6. /\ IsState(buckets, y) /\ FlightFine(buckets, y, c) /\ y.pass = s.pass /\ y.back = s.back
      /\ y.pass <= Len(scenario.uses)
  <2>1. IsState(buckets, y) /\ FlightFine(buckets, y, c) /\ PassFine(scenario, r, y)
    BY <1>5 DEF Fine
  <2>2. y.pass = s.pass /\ y.back = s.back
    BY <1>2, <1>4 DEF IsState, Fields
  <2>. QED  BY <2>1, <2>2 DEF PassFine
<1>7. /\ Follow(scenario, buckets, v) = FromReduce(scenario, v)
      /\ v.self = e /\ v.sent = Sent(c)
  BY <1>1, <1>3, FollowIs
<1>8. CASE s.back = "backward"
  <2>1. PICK x, k, t : /\ x = Returned(r) /\ k = Deliver(y, h, x)
                       /\ t = [k EXCEPT !.filled = @ \cup {h}]
    OBVIOUS
  <2>2. Becomes(r, t)
    BY <1>1, <1>2, <1>6, <1>8, <2>1 DEF BucketReduced
  <2>3. s.pass # 0 /\ s.at # 0 /\ s.at <= Len(Uses(r))
    BY <1>1, <1>3, <1>4, <1>8 DEF PassFine, Uses
  <2>4. h \in Param /\ Computed(r) \in Grad /\ (UsesAgree => HookAt(scenario, e) = h)
    BY <1>1, <2>3, HookFacts
  <2>5. x \in Grad
    <3>1. s.grad[h] \in Grad \cup {None}
      BY <1>4, <2>4 DEF IsState
    <3>. QED  BY <1>1, <2>1, <2>4, <3>1 DEF Returned
  <2>6. Fine(scenario, buckets, r, k, c) /\ Erase(buckets, k) = Take(ey, h)
    <3>1. y.pass # 0
      BY <1>6, <2>3
    <3>. QED  BY <1>4, <1>5, <1>6, <2>1, <2>4, <2>5, <3>1, DeliverGoes
  <2>7. Fine(scenario, buckets, r, t, c) /\ Erase(buckets, t) = Take(ey, h)
    BY <2>1, <2>6, FilledGoes
  <2>8. UsesAgree => Follow(scenario, buckets, v) = [self |-> Take(ey, h), sent |-> Sent(c)]
    <3>1. e.queue = <<>> /\ e.back = "backward"
      BY <1>3, <1>4, <1>8
    <3>. QED  BY <1>2, <1>4, <1>7, <2>4, <3>1 DEF FromReduce
  <2>. QED  BY <1>1, <2>2, <2>7, <2>8, QuietStep
<1>9. CASE s.back # "backward"
  <2>1. PICK t, f : /\ t = [y EXCEPT !.stage = "sweep", !.at = @ + 1]
                    /\ f = [ey EXCEPT !.stage = "sweep", !.at = @ + 1]
    OBVIOUS
  <2>2. Becomes(r, t)
    BY <1>1, <1>2, <1>6, <1>9, <2>1 DEF BucketReduced
  <2>3. Fine(scenario, buckets, r, t, c) /\ Erase(buckets, t) = f
    <3>1. /\ Fine(scenario, buckets, r, t, c)
          /\ Erase(buckets, t) = [Erase(buckets, y) EXCEPT !.stage = "sweep", !.at = @ + 1]
      BY <1>4, <1>6, <2>1, AdvanceGoes
    <3>. QED  BY <1>5, <2>1, <3>1
  <2>4. Follow(scenario, buckets, v) = [self |-> f, sent |-> Sent(c)]
    <3>1. e.queue = <<>> /\ e.back # "backward"
      BY <1>3, <1>4, <1>9
    <3>. QED  BY <1>2, <1>4, <1>7, <2>1, <3>1 DEF FromReduce
  <2>. QED  BY <1>1, <2>2, <2>3, <2>4, QuietStep
<1>. QED  BY <1>8, <1>9

-----------------------------------------------------------------------------
(* sync_comm() *)

(* Every stream that is waited for has its result. *)
Arrived(s) == \A b \in InFlight(s) : Complete(s.flat[b].call)

(* UnpackAll gives a gradient to every parameter of a bucket in flight. *)
LEMMA UnpackAllType ==
  ASSUME Types, NEW r \in Rank, NEW s, s = st[r], Arrived(s)
  PROVE  /\ UnpackAll(s) \in [Param -> Grad \cup {None}]
         /\ {p \in Param : UnpackAll(s)[p] # None}
              = {p \in Param : s.grad[p] # None}
                  \cup UNION {ToSet(s.flat[b].params) : b \in 1 .. Len(buckets)}
<1>1. IsState(buckets, s) /\ FlightFine(buckets, s, calls[r])
  BY DEF Types, Fine
<1>2. \A b \in 1 .. Len(buckets) : s.flat[b] \in Flight
  BY <1>1 DEF IsState
<1>. DEFINE B(p) == {b \in InFlight(s) : p \in ToSet(s.flat[b].params)}
            L == UNION {ToSet(s.flat[b].params) : b \in 1 .. Len(buckets)}
            x == UnpackAll(s)
<1>3. ASSUME NEW b \in InFlight(s), NEW p \in ToSet(s.flat[b].params)
      PROVE  p \in Param /\ Unpack(s.grad, s.flat[b].params, s.flat[b].call)[p] \in Grad
  <2>1. b \in 1 .. Len(buckets) /\ s.flat[b] # NoFlight
    BY <1>3 DEF InFlight, Bucket
  <2>2. PICK n, ps : n = s.flat[b].call /\ ps = s.flat[b].params
    OBVIOUS
  <2>3. n \in 1 .. Len(calls[r]) /\ Len(calls[r][n]) = Len(ps)
    BY <1>1, <2>1, <2>2 DEF FlightFine
  <2>4. ps \in Seq(Param)
    BY <1>2, <2>1, <2>2 DEF Flight
  <2>5. Complete(n)
    BY <1>3, <2>2 DEF Arrived
  <2>6. p \in ToSet(ps)
    BY <1>3, <2>2
  <2>7. p \in Param /\ Unpack(s.grad, ps, n)[p] \in Grad
    BY <2>3, <2>4, <2>5, <2>6, UnpackType
  <2>. QED  BY <2>2, <2>7
<1>4. ASSUME NEW p \in Param, B(p) # {}
      PROVE  x[p] \in Grad /\ p \in L
  <2>1. PICK b : b = CHOOSE a \in B(p) : TRUE
    OBVIOUS
  <2>2. b \in B(p)
    BY <1>4, <2>1
  <2>3. b \in InFlight(s) /\ p \in ToSet(s.flat[b].params) /\ b \in 1 .. Len(buckets)
    BY <2>2 DEF InFlight, Bucket
  <2>4. x[p] = Unpack(s.grad, s.flat[b].params, s.flat[b].call)[p]
    BY <1>4, <2>1 DEF UnpackAll
  <2>. QED  BY <1>3, <2>3, <2>4
<1>5. ASSUME NEW p \in Param, B(p) = {}
      PROVE  x[p] = s.grad[p] /\ p \notin L
  <2>1. x[p] = s.grad[p]
    BY <1>5 DEF UnpackAll
  <2>2. ASSUME NEW b \in 1 .. Len(buckets) PROVE p \notin ToSet(s.flat[b].params)
    <3>1. CASE s.flat[b] = NoFlight
      <4>1. s.flat[b].params = <<>>
        BY <3>1 DEF NoFlight
      <4>. QED  BY <4>1 DEF ToSet
    <3>2. CASE s.flat[b] # NoFlight
      <4>1. b \in InFlight(s)
        BY <3>2 DEF InFlight, Bucket
      <4>. QED  BY <1>5, <4>1
    <3>. QED  BY <3>1, <3>2
  <2>. QED  BY <2>1, <2>2
<1>6. L \subseteq Param
  <2>1. ASSUME NEW b \in 1 .. Len(buckets) PROVE ToSet(s.flat[b].params) \subseteq Param
    <3>1. s.flat[b].params \in Seq(Param)
      BY <1>2 DEF Flight
    <3>. QED  BY <3>1 DEF ToSet
  <2>. QED  BY <2>1
<1>7. x = [p \in Param |-> x[p]]
  BY DEF UnpackAll
<1>8. \A p \in Param : /\ x[p] \in Grad \cup {None}
                       /\ x[p] # None <=> s.grad[p] # None \/ p \in L
  <2>. HIDE DEF x, L, B
  <2>1. \A p \in Param : s.grad[p] \in Grad \cup {None}
    BY <1>1 DEF IsState
  <2>. QED  BY <1>4, <1>5, <2>1, NoneAssumption
<1>. HIDE DEF x, L
<1>9. x \in [Param -> Grad \cup {None}]
  BY <1>7, <1>8
<1>10. {p \in Param : x[p] # None} = {p \in Param : s.grad[p] # None} \cup L
  BY <1>6, <1>8
<1>. QED  BY <1>9, <1>10 DEF x, L

(* After it no bucket is in flight, and all that were have gradients. *)
LEMMA LandedGoes ==
  ASSUME Types, NEW r \in Rank, NEW s, s = st[r], s.ops > 0 => Arrived(s),
         NEW y, y = sync_comm(s)
  PROVE  /\ IsState(buckets, y) /\ FlightFine(buckets, y, calls[r]) /\ y.pass = s.pass
         /\ Erase(buckets, y) = Landed(scenario, buckets, Erase(buckets, s))
<1>0. PICK e : e = Erase(buckets, s)
  OBVIOUS
<1>1. IsState(buckets, s) /\ FlightFine(buckets, s, calls[r])
  BY DEF Types, Fine
<1>2. IsErased(buckets, s, e)
  BY <1>0, <1>1, Erased
<1>3. e.ops = s.ops /\ e.flat = s.flat
  BY <1>2 DEF IsErased, Fields, Values
<1>4. CASE ~scenario.gpu \/ s.ops = 0
  <2>1. y = s
    BY <1>4 DEF sync_comm
  <2>2. Landed(scenario, buckets, e) = e
    BY <1>3, <1>4 DEF Landed
  <2>. QED  BY <1>0, <1>1, <2>1, <2>2
<1>5. CASE ~(~scenario.gpu \/ s.ops = 0)
  <2>1. PICK x, z : x = UnpackAll(s) /\ z = [b \in 1 .. Len(buckets) |-> NoFlight]
    OBVIOUS
  <2>2. PICK L : L = UNION {ToSet(s.flat[b].params) : b \in 1 .. Len(buckets)}
    OBVIOUS
  <2>3. y = [s EXCEPT !.grad = x, !.flat = z, !.ops = 0]
    BY <1>5, <2>1 DEF sync_comm, Bucket
  <2>4. Arrived(s)
    BY <1>1, <1>5 DEF IsState
  <2>5. /\ x \in [Param -> Grad \cup {None}]
        /\ {p \in Param : x[p] # None} = {p \in Param : s.grad[p] # None} \cup L
    BY <2>1, <2>2, <2>4, UnpackAllType
  <2>6. /\ y = [k \in Fields |-> y[k]] /\ y.grad = x /\ y.flat = z /\ y.ops = 0
        /\ \A k \in Fields \ {"grad", "flat", "ops"} : y[k] = s[k]
    BY <1>1, <2>3 DEF IsState, Fields
  <2>7. y.at = s.at /\ y.pass = s.pass /\ y.queue = s.queue /\ y.override = s.override
    BY <2>6 DEF Fields
  <2>8. z \in [1 .. Len(buckets) -> Flight]
    BY <2>1 DEF Flight, NoFlight
  <2>9. IsState(buckets, y)
    <3>1. y.grad \in [Param -> Grad \cup {None}] /\ y.flat \in [1 .. Len(buckets) -> Flight]
      BY <2>5, <2>6, <2>8
    <3>2. y.at \in Nat /\ y.pass \in Nat /\ y.ops \in Nat
      BY <1>1, <2>6, <2>7 DEF IsState
    <3>3. y.queue \in Seq(Seq(Param)) /\ y.override \in [1 .. Len(buckets) -> Partial]
      BY <1>1, <2>7 DEF IsState
    <3>4. y = [k \in Fields |-> y[k]]
      BY <2>6
    <3>. QED  BY <3>1, <3>2, <3>3, <3>4 DEF IsState
  <2>10. FlightFine(buckets, y, calls[r])
    BY <2>1, <2>6 DEF FlightFine
  <2>11. PICK f : f = [e EXCEPT !.grad = @ \cup L, !.flat = z, !.ops = 0]
    OBVIOUS
  <2>12. Landed(scenario, buckets, e) = f
    BY <1>3, <1>5, <2>1, <2>2, <2>11 DEF Landed
  <2>13. /\ f = [k \in Fields |-> f[k]] /\ f.grad = e.grad \cup L /\ f.flat = z /\ f.ops = 0
         /\ \A k \in Fields \ {"grad", "flat", "ops"} : f[k] = e[k]
    BY <1>2, <2>11 DEF IsErased, Fields
  <2>14. \A k \in Fields \ Values : f[k] = y[k]
    BY <1>2, <2>6, <2>13 DEF IsErased, Values
  <2>15. f.override = e.override /\ f.zeroed = e.zeroed /\ f.filled = e.filled
    BY <2>13 DEF Fields
  <2>16. f.grad = {p \in Param : y.grad[p] # None}
    BY <1>2, <2>5, <2>6, <2>13 DEF IsErased
  <2>17. f.override = [b \in 1 .. Len(buckets) |-> DOMAIN y.override[b]]
    BY <1>2, <2>7, <2>15 DEF IsErased
  <2>18. f.zeroed = 0 /\ f.filled = {}
    BY <1>2, <2>15 DEF IsErased
  <2>19. IsErased(buckets, y, f)
    BY <2>13, <2>14, <2>16, <2>17, <2>18 DEF IsErased
  <2>20. Erase(buckets, y) = f
    BY <2>9, <2>19, ErasedAre
  <2>. QED  BY <1>0, <2>7, <2>9, <2>10, <2>12, <2>20
<1>. QED  BY <1>4, <1>5

(* The synchronisation ends. *)
LEMMA SyncCommGoes ==
  ASSUME Types, NEW r \in Rank, SyncComm(r)
  PROVE  Goes(r)
<1>1. PICK s, e, v, c : /\ s = st[r] /\ e = Erase(buckets, s)
                        /\ v = View(buckets, s, calls[r]) /\ c = calls[r]
  OBVIOUS
<1>2. PICK y, ey : y = sync_comm(s) /\ ey = Landed(scenario, buckets, e)
  OBVIOUS
<1>3. PICK w, ew : w = [y EXCEPT !.stage = "program"] /\ ew = [ey EXCEPT !.stage = "program"]
  OBVIOUS
<1>4. /\ s.stage = "sweep" /\ s.at \notin 1 .. Len(buckets) /\ (s.ops > 0 => Arrived(s))
      /\ st' = [st EXCEPT ![r] = After(w)] /\ calls' = calls
  BY <1>1, <1>2, <1>3 DEF SyncComm, Bucket, Arrived
<1>5. /\ c \in Seq(Seq(Entry)) /\ s.pass <= Len(scenario.uses)
      /\ Follow(scenario, buckets, v) = FromSweep(scenario, buckets, v)
      /\ v.self = e /\ v.sent = Sent(c) /\ e.at = s.at
  BY <1>1, <1>4, BucketView
<1>6. /\ IsState(buckets, y) /\ FlightFine(buckets, y, c) /\ y.pass = s.pass
      /\ Erase(buckets, y) = ey
  BY <1>1, <1>2, <1>4, LandedGoes
<1>7. /\ w = [k \in Fields |-> w[k]] /\ w.stage = "program"
      /\ \A k \in Fields \ {"stage"} : w[k] = y[k]
  BY <1>3, <1>6 DEF IsState, Fields
<1>8. /\ w.at = y.at /\ w.pass = s.pass /\ w.queue = y.queue /\ w.grad = y.grad
      /\ w.override = y.override /\ w.flat = y.flat /\ w.ops = y.ops
  BY <1>6, <1>7 DEF Fields
<1>9. IsState(buckets, w)
  BY <1>6, <1>7, <1>8 DEF IsState
<1>10. Fine(scenario, buckets, r, w, c)
  BY <1>5, <1>6, <1>7, <1>8, <1>9 DEF Fine, PassFine, QueueFine, AwaitFine, FlightFine
<1>11. Erase(buckets, w) = ew
  <2>1. IsErased(buckets, y, ey)
    BY <1>6, Erased
  <2>2. /\ ew = [k \in Fields |-> ew[k]] /\ \A k \in Fields \ {"stage"} : ew[k] = ey[k]
        /\ ew.stage = "program"
    BY <1>3, <2>1 DEF IsErased, Fields
  <2>3. Updated(buckets, y, w, ew, {"stage"})
    BY <1>6, <1>7, <1>9, <2>2 DEF Updated, Fields, Values
  <2>. QED  BY <2>3, UpdatedView
<1>12. Fine(scenario, buckets, r, After(w), c) /\ Erase(buckets, After(w)) = After(ew)
  BY <1>10, <1>11, AfterGoes
<1>13. Follow(scenario, buckets, v) = [self |-> After(ew), sent |-> Sent(c)]
  BY <1>2, <1>3, <1>4, <1>5 DEF FromSweep
<1>14. st = [q \in Rank |-> st[q]] /\ calls = [q \in Rank |-> calls[q]]
  BY DEF Types
<1>15. st'[r] = After(w) /\ calls'[r] = c /\ calls' = [calls EXCEPT ![r] = c]
  BY <1>1, <1>4, <1>14
<1>16. Prefix(c, c)
  BY <1>5 DEF Prefix
<1>17. View(buckets, After(w), c) = Follow(scenario, buckets, v)
  BY <1>12, <1>13 DEF View
<1>. QED  BY <1>1, <1>4, <1>12, <1>15, <1>16, <1>17 DEF Goes

-----------------------------------------------------------------------------
(* All ranks walk along one chain of views, on which calls are only added. *)

IsChain(g, bk, n, c) ==
  /\ \A i \in 1 .. n : c[i].sent \in Seq(Seq(Param))
  /\ \A i \in 1 .. n : i < n => c[i + 1] = Follow(g, bk, c[i])
  /\ \A i, j \in 1 .. n : i <= j => Prefix(c[i].sent, c[j].sent)

InStep ==
  \E n \in Nat : \E c : /\ IsChain(scenario, buckets, n, c)
                        /\ \A r \in Rank : \E i \in 1 .. n : View(buckets, st[r], calls[r]) = c[i]

CollectivesInv == Types /\ (UsesAgree => InStep)

(* Every step of a rank is one of the above. *)
LEMMA StepGoes ==
  ASSUME Types, NEW r \in Rank, RankStep(r)
  PROVE  Goes(r)
BY ForwardGoes, ZeroGradGoes, ResetBucketsGoes, AutoSyncOffGoes, NoSyncGoes,
   InvalidateUnusedCacheGoes, BackwardGoes, HookPassesGoes, HookCountsGoes, HookReducesGoes,
   HookLaunchesGoes, BackwardReturnsGoes, AllReduceGoes, AllReduceReturnsGoes,
   BucketReducedGoes, SynchronizeGradientsGoes, EndNoSyncGoes, SweepSkipsGoes,
   SweepReducesGoes, SweepLaunchesGoes, SyncCommGoes DEF RankStep

(* What the compressors dropped are gradients. *)
LEMMA ResidualStep ==
  ASSUME Types, NEW r \in Rank, RankStep(r)
  PROVE  residual' \in [Rank -> [Param -> Grad]]
<1>1. residual \in [Rank -> [Param -> Grad]]
  BY DEF Types
<1>2. CASE AllReduce(r)
  <2>1. PICK hd : hd = Head(st[r].queue)
    OBVIOUS
  <2>2. st[r].stage = "reduce" /\ st[r].queue # <<>>
    BY <1>2 DEF AllReduce
  <2>3. ASSUME NEW found, NEW kept, scenario.compress
        PROVE  Dropped(r, hd, found, kept) \in [Param -> Grad]
    <3>1. ASSUME NEW p \in Param, p \in ToSet(hd)
          PROVE  Flat(r, p, found) \in Grad /\ Zero \in Grad
      BY <2>1, <2>2, <2>3, <3>1, QueueIs, FlatIs
    <3>. QED  BY <1>1, <3>1 DEF Dropped
  <2>4. \/ residual' = residual
        \/ scenario.compress
           /\ \E found, kept : residual' = [residual EXCEPT ![r] = Dropped(r, hd, found, kept)]
    BY <1>2, <2>1 DEF AllReduce
  <2>. QED  BY <1>1, <2>3, <2>4
<1>3. CASE ~AllReduce(r)
  <2>1. residual' = residual
    BY <1>3 DEF RankStep, Becomes, Launch, Forward, ZeroGrad, ResetBuckets, AutoSyncOff, NoSync,
       InvalidateUnusedCache, Backward, HookPasses, HookCounts, HookReduces, HookLaunches,
       BackwardReturns, AllReduceReturns, BucketReduced, SynchronizeGradients, EndNoSync,
       SweepSkips, SweepReduces, SweepLaunches, SyncComm
  <2>. QED  BY <1>1, <2>1
<1>. QED  BY <1>2, <1>3

(* The values a rank starts with. *)
LEMMA InitialIsFine ==
  ASSUME NEW r, NEW g, NEW s, s = InitialState, Len(g.uses) \in Nat
  PROVE  Fine(g, buckets, r, s, <<>>)
<1>1. /\ s = [k \in Fields |-> s[k]] /\ s.at = 0 /\ s.pass = 0 /\ s.ops = 0 /\ s.queue = <<>>
      /\ s.stage = "program"
      /\ s.grad = [p \in Param |-> None] /\ s.override = [b \in Bucket |-> <<>>]
      /\ s.flat = [b \in Bucket |-> NoFlight]
  BY DEF InitialState, Fields
<1>2. s.override \in [1 .. Len(buckets) -> Partial]
  <2>1. <<>> \in Partial
    <3>1. <<>> \in [{} -> Grad] /\ {} \in SUBSET Param
      OBVIOUS
    <3>. QED  BY <3>1 DEF Partial
  <2>. QED  BY <1>1, <2>1 DEF Bucket
<1>3. s.flat \in [1 .. Len(buckets) -> Flight]
  <2>1. NoFlight \in Flight
    BY DEF Flight, NoFlight
  <2>. QED  BY <1>1, <2>1 DEF Bucket
<1>4. s.grad \in [Param -> Grad \cup {None}]
  BY <1>1
<1>5. IsState(buckets, s)
  <2>0. <<>> \in Seq(Seq(Param)) /\ 0 \in Nat
    OBVIOUS
  <2>1. s.at \in Nat /\ s.pass \in Nat /\ s.ops \in Nat /\ s.queue \in Seq(Seq(Param))
    <3>1. s.at = 0 /\ s.pass = 0 /\ s.ops = 0 /\ s.queue = <<>>
      BY <1>1
    <3>. QED  BY ONLY <2>0, <3>1
  <2>2. s = [k \in Fields |-> s[k]]
    BY <1>1
  <2>. QED  BY <1>2, <1>3, <1>4, <2>1, <2>2 DEF IsState
<1>6. FlightFine(buckets, s, <<>>)
  BY <1>1 DEF FlightFine, Bucket
<1>. QED  BY <1>1, <1>5, <1>6 DEF Fine, PassFine, QueueFine, AwaitFine

(* At the start all ranks have the same view, a chain of one. *)
LEMMA InitInv == Init => CollectivesInv
<1>. SUFFICES ASSUME Init PROVE CollectivesInv
  OBVIOUS
<1>1. /\ scenario \in Scenarios /\ scenario \in Scenario /\ buckets = build_buckets(scenario)
      /\ st = [r \in Rank |-> InitialState] /\ calls = [r \in Rank |-> <<>>]
  BY ScenarioAssumption DEF Init
<1>2. /\ buckets \in Seq(Seq(Param))
      /\ \A p \in ToSet(scenario.params) : \E b \in Bucket : p \in ToSet(buckets[b])
  BY <1>1, EveryParameterHasABucket DEF Bucket
<1>3. Len(scenario.uses) \in Nat
  BY <1>1 DEF Scenario
<1>4. ASSUME NEW r \in Rank PROVE Fine(scenario, buckets, r, st[r], calls[r])
  <2>1. st[r] = InitialState /\ calls[r] = <<>>
    BY <1>1
  <2>2. Fine(scenario, buckets, r, InitialState, <<>>)
    BY <1>3, InitialIsFine
  <2>. QED  BY <2>1, <2>2
<1>5. st = [r \in Rank |-> st[r]] /\ calls = [r \in Rank |-> calls[r]]
  BY <1>1
<1>6. Types
  <2>1. residual \in [Rank -> [Param -> Grad]]
    BY DEF Init, Zero, Grad
  <2>. QED  BY <1>1, <1>2, <1>4, <1>5, <2>1 DEF Types
<1>7. InStep
  <2>1. PICK v, c : v = View(buckets, InitialState, <<>>) /\ c = [i \in 1 .. 1 |-> v]
    OBVIOUS
  <2>2. ASSUME NEW r \in Rank PROVE View(buckets, st[r], calls[r]) = c[1]
    BY <1>1, <2>1
  <2>3. v.sent = <<>>
    <3>1. v.sent = Sent(<<>>)
      BY <2>1 DEF View
    <3>. QED  BY <3>1 DEF Sent
  <2>4. Prefix(v.sent, v.sent)
    BY <2>3 DEF Prefix
  <2>5. IsChain(scenario, buckets, 1, c)
    <3>1. \A i \in 1 .. 1 : i = 1 /\ c[i] = v
      BY <2>1
    <3>2. v.sent \in Seq(Seq(Param))
      BY <2>3
    <3>. QED  BY <2>4, <3>1, <3>2 DEF IsChain
  <2>. QED  BY <2>2, <2>5 DEF InStep
<1>. QED  BY <1>6, <1>7 DEF CollectivesInv

(* What is called shows in the view. *)
LEMMA SentPrefix ==
  ASSUME NEW c \in Seq(Seq(Entry)), NEW d \in Seq(Seq(Entry)), Prefix(c, d)
  PROVE  Prefix(Sent(c), Sent(d))
<1>1. Len(Sent(c)) = Len(c) /\ Len(Sent(d)) = Len(d)
  BY SentIs
<1>2. \A n \in 1 .. Len(c) : n \in DOMAIN c /\ n \in DOMAIN d /\ c[n] = d[n]
  BY DEF Prefix
<1>3. \A n \in 1 .. Len(c) : Sent(c)[n] = Sent(d)[n]
  BY <1>2 DEF Sent
<1>. QED  BY <1>1, <1>3 DEF Prefix

(* A prefix of a prefix is one. *)
LEMMA PrefixTransitive ==
  ASSUME NEW a \in Seq(Seq(Param)), NEW b \in Seq(Seq(Param)), NEW c \in Seq(Seq(Param)),
         Prefix(a, b), Prefix(b, c)
  PROVE  Prefix(a, c)
<1>1. /\ Len(a) \in Nat /\ Len(b) \in Nat /\ Len(c) \in Nat
      /\ Len(a) <= Len(b) /\ Len(b) <= Len(c)
  BY DEF Prefix
<1>2. Len(a) <= Len(c) /\ 1 .. Len(a) \subseteq 1 .. Len(b)
  BY <1>1
<1>3. \A n \in 1 .. Len(a) : a[n] = b[n] /\ b[n] = c[n]
  BY <1>2 DEF Prefix
<1>. QED  BY <1>2, <1>3 DEF Prefix

(* A step of one rank keeps all of them typed ... *)
LEMMA TypesStep ==
  ASSUME Types, NEW r \in Rank, Goes(r), Fixed, residual' \in [Rank -> [Param -> Grad]]
  PROVE  Types'
<1>1. scenario' = scenario /\ buckets' = buckets
  BY DEF Fixed
<1>2. st = [q \in Rank |-> st[q]] /\ calls = [q \in Rank |-> calls[q]]
  BY DEF Types
<1>3. st' = [st EXCEPT ![r] = st'[r]] /\ calls' = [calls EXCEPT ![r] = calls'[r]]
      /\ Fine(scenario, buckets, r, st'[r], calls'[r])
  BY DEF Goes
<1>4. st' = [q \in Rank |-> st'[q]] /\ calls' = [q \in Rank |-> calls'[q]]
  BY <1>2, <1>3
<1>5. ASSUME NEW q \in Rank PROVE Fine(scenario, buckets, q, st'[q], calls'[q])
  <2>1. CASE q = r
    BY <1>3, <2>1
  <2>2. CASE q # r
    <3>1. st'[q] = st[q] /\ calls'[q] = calls[q]
      BY <1>2, <1>3, <2>2
    <3>. QED  BY <3>1 DEF Types
  <2>. QED  BY <2>1, <2>2
<1>. QED  BY <1>1, <1>4, <1>5 DEF Types, Bucket

(* ... and on the chain. *)
LEMMA ChainStep ==
  ASSUME Types, NEW r \in Rank, Goes(r), Fixed, UsesAgree, InStep
  PROVE  InStep'
<1>1. scenario' = scenario /\ buckets' = buckets
  BY DEF Fixed
<1>0. PICK n \in Nat :
        \E c : /\ IsChain(scenario, buckets, n, c)
               /\ \A q \in Rank : \E i \in 1 .. n : View(buckets, st[q], calls[q]) = c[i]
  BY DEF InStep
<1>2. PICK c : /\ IsChain(scenario, buckets, n, c)
                /\ \A q \in Rank : \E i \in 1 .. n : View(buckets, st[q], calls[q]) = c[i]
  BY <1>0
<1>3. PICK k \in 1 .. n : View(buckets, st[r], calls[r]) = c[k]
  BY <1>2
<1>4. PICK w : w = View(buckets, st'[r], calls'[r])
  OBVIOUS
<1>5. w = Follow(scenario, buckets, c[k])
  BY <1>3, <1>4 DEF Goes
<1>6. \A q \in Rank \ {r} : st'[q] = st[q] /\ calls'[q] = calls[q]
  <2>1. st = [q \in Rank |-> st[q]] /\ calls = [q \in Rank |-> calls[q]]
    BY DEF Types
  <2>2. st' = [st EXCEPT ![r] = st'[r]] /\ calls' = [calls EXCEPT ![r] = calls'[r]]
    BY DEF Goes
  <2>. QED  BY <2>1, <2>2
<1>7. CASE k < n
  <2>1. w = c[k + 1] /\ k + 1 \in 1 .. n
    <3>1. k + 1 \in 1 .. n
      BY <1>7
    <3>2. c[k + 1] = Follow(scenario, buckets, c[k])
      BY <1>2, <1>7 DEF IsChain
    <3>. QED  BY <1>5, <3>1, <3>2
  <2>2. ASSUME NEW q \in Rank PROVE \E i \in 1 .. n : View(buckets, st'[q], calls'[q]) = c[i]
    <3>1. CASE q = r
      BY <1>4, <2>1, <3>1
    <3>2. CASE q # r
      BY <1>2, <1>6, <3>2
    <3>. QED  BY <3>1, <3>2
  <2>. QED  BY <1>1, <1>2, <2>2 DEF InStep
<1>8. CASE ~(k < n)
  <2>1. k = n /\ n + 1 \in Nat /\ n \in 1 .. n
    BY <1>8
  <2>2. PICK d : d = [i \in 1 .. n + 1 |-> IF i = n + 1 THEN w ELSE c[i]]
    OBVIOUS
  <2>3. /\ \A i \in 1 .. n : i \in 1 .. n + 1 /\ d[i] = c[i]
        /\ d[n + 1] = w /\ n + 1 \in 1 .. n + 1
    BY <2>2
  <2>4. ASSUME NEW q \in Rank PROVE \E i \in 1 .. n + 1 : View(buckets, st'[q], calls'[q]) = d[i]
    <3>1. CASE q = r
      BY <1>4, <2>3, <3>1
    <3>2. CASE q # r
      BY <1>2, <1>6, <2>3, <3>2
    <3>. QED  BY <3>1, <3>2
  <2>5. ASSUME NEW i \in 1 .. n + 1, i < n + 1 PROVE d[i + 1] = Follow(scenario, buckets, d[i])
    <3>1. CASE i < n
      <4>1. i \in 1 .. n /\ i + 1 \in 1 .. n
        BY <3>1
      <4>2. d[i] = c[i] /\ d[i + 1] = c[i + 1]
        BY <2>3, <4>1
      <4>3. c[i + 1] = Follow(scenario, buckets, c[i])
        BY <1>2, <3>1, <4>1 DEF IsChain
      <4>. QED  BY <4>2, <4>3
    <3>2. CASE i = n
      BY <1>5, <2>1, <2>3, <3>2
    <3>. QED  BY <2>5, <3>1, <3>2
  <2>6. /\ calls[r] \in Seq(Seq(Entry)) /\ calls'[r] \in Seq(Seq(Entry))
        /\ c[n].sent = Sent(calls[r]) /\ w.sent = Sent(calls'[r])
        /\ Prefix(calls[r], calls'[r])
    <3>1. calls[r] \in Seq(Seq(Entry)) /\ calls'[r] \in Seq(Seq(Entry)) /\ Prefix(calls[r], calls'[r])
      BY DEF Types, Fine, Goes
    <3>2. c[n].sent = Sent(calls[r]) /\ w.sent = Sent(calls'[r])
      BY <1>3, <1>4, <2>1 DEF View
    <3>. QED  BY <3>1, <3>2
  <2>7. Prefix(c[n].sent, w.sent) /\ Prefix(w.sent, w.sent) /\ w.sent \in Seq(Seq(Param))
    <3>1. Prefix(Sent(calls[r]), Sent(calls'[r]))
      BY <2>6, SentPrefix
    <3>2. Sent(calls'[r]) \in Seq(Seq(Param))
      BY <2>6, SentIs
    <3>. QED  BY <2>6, <3>1, <3>2 DEF Prefix
  <2>8. ASSUME NEW i \in 1 .. n PROVE Prefix(c[i].sent, w.sent)
    <3>1. Prefix(c[i].sent, c[n].sent)
      BY <1>2, <2>1 DEF IsChain
    <3>2. c[i].sent \in Seq(Seq(Param)) /\ c[n].sent \in Seq(Seq(Param))
      BY <1>2, <2>1 DEF IsChain
    <3>. QED  BY <2>7, <3>1, <3>2, PrefixTransitive
  <2>9. ASSUME NEW i \in 1 .. n + 1, NEW j \in 1 .. n + 1, i <= j
        PROVE  Prefix(d[i].sent, d[j].sent)
    <3>1. CASE j = n + 1 /\ i = n + 1
      BY <2>3, <2>7, <3>1
    <3>2. CASE j = n + 1 /\ i # n + 1
      <4>1. i \in 1 .. n
        BY <3>2
      <4>. QED  BY <2>3, <2>8, <3>2, <4>1
    <3>3. CASE j # n + 1
      <4>1. i \in 1 .. n /\ j \in 1 .. n
        BY <2>9, <3>3
      <4>2. Prefix(c[i].sent, c[j].sent)
        BY <1>2, <2>9, <4>1 DEF IsChain
      <4>. QED  BY <2>3, <4>1, <4>2
    <3>. QED  BY <3>1, <3>2, <3>3
  <2>10. IsChain(scenario, buckets, n + 1, d)
    <3>1. ASSUME NEW i \in 1 .. n + 1 PROVE d[i].sent \in Seq(Seq(Param))
      <4>1. CASE i = n + 1
        BY <2>3, <2>7, <4>1
      <4>2. CASE i # n + 1
        <5>1. i \in 1 .. n
          BY <4>2
        <5>. QED  BY <1>2, <2>3, <5>1 DEF IsChain
      <4>. QED  BY <4>1, <4>2
    <3>. QED  BY <2>5, <2>9, <3>1 DEF IsChain
  <2>. QED  BY <1>1, <2>1, <2>4, <2>10 DEF InStep
<1>. QED  BY <1>7, <1>8

(* Every step keeps the ranks typed and on the chain. *)
LEMMA NextInv == CollectivesInv /\ [Next /\ Fixed]_vars => CollectivesInv'
<1>. SUFFICES ASSUME CollectivesInv, [Next /\ Fixed]_vars PROVE CollectivesInv'
  OBVIOUS
<1>1. Types /\ (UsesAgree => InStep)
  BY DEF CollectivesInv
<1>2. ASSUME NEW r \in Rank, RankStep(r), Fixed PROVE CollectivesInv'
  <2>1. Goes(r)
    BY <1>1, <1>2, StepGoes
  <2>2. Types'
    BY <1>1, <1>2, <2>1, ResidualStep, TypesStep
  <2>3. UsesAgree' => UsesAgree
    BY <1>2 DEF UsesAgree, Fixed
  <2>4. UsesAgree' => InStep'
    BY <1>1, <1>2, <2>1, <2>3, ChainStep
  <2>. QED  BY <2>2, <2>4 DEF CollectivesInv
<1>3. ASSUME UNCHANGED <<scenario, buckets, st, calls, residual>> PROVE CollectivesInv'
  <2>1. Types'
    BY <1>1, <1>3 DEF Types, Bucket
  <2>2. (UsesAgree => InStep)'
    BY <1>1, <1>3 DEF UsesAgree, InStep
  <2>. QED  BY <2>1, <2>2 DEF CollectivesInv
<1>4. CASE Next /\ Fixed
  <2>1. CASE AllFinished
    BY <1>3, <1>4, <2>1 DEF AllFinished, Fixed
  <2>. QED  BY <1>2, <1>4, <2>1 DEF Next
<1>5. CASE UNCHANGED vars
  BY <1>3, <1>5 DEF vars
<1>. QED  BY <1>4, <1>5

(* Ranks on one chain have made the same calls. *)
LEMMA InStepMatches == Types /\ InStep => CollectivesMatch
<1>. SUFFICES ASSUME Types, InStep, NEW q \in Rank, NEW r \in Rank,
                     NEW m \in DOMAIN calls[q] \cap DOMAIN calls[r]
              PROVE  /\ DOMAIN calls[q][m] = DOMAIN calls[r][m]
                     /\ \A i \in DOMAIN calls[q][m] : calls[q][m][i].param = calls[r][m][i].param
  BY DEF CollectivesMatch
<1>0. PICK n \in Nat :
        \E c : /\ IsChain(scenario, buckets, n, c)
               /\ \A k \in Rank : \E i \in 1 .. n : View(buckets, st[k], calls[k]) = c[i]
  BY DEF InStep
<1>1. PICK c : /\ IsChain(scenario, buckets, n, c)
                /\ \A k \in Rank : \E i \in 1 .. n : View(buckets, st[k], calls[k]) = c[i]
  BY <1>0
<1>2. PICK i \in 1 .. n, j \in 1 .. n : View(buckets, st[q], calls[q]) = c[i]
                                     /\ View(buckets, st[r], calls[r]) = c[j]
  BY <1>1
<1>3. c[i].sent = Sent(calls[q]) /\ c[j].sent = Sent(calls[r])
  BY <1>2 DEF View
<1>4. calls[q] \in Seq(Seq(Entry)) /\ calls[r] \in Seq(Seq(Entry))
  BY DEF Types, Fine
<1>5. m \in 1 .. Len(Sent(calls[q])) /\ m \in 1 .. Len(Sent(calls[r]))
  <2>1. Len(Sent(calls[q])) = Len(calls[q]) /\ Len(Sent(calls[r])) = Len(calls[r])
    BY <1>4, SentIs
  <2>. QED  BY <1>4, <2>1
<1>6. Prefix(c[i].sent, c[j].sent) \/ Prefix(c[j].sent, c[i].sent)
  BY <1>1 DEF IsChain
<1>7. Sent(calls[q])[m] = Sent(calls[r])[m]
  BY <1>3, <1>5, <1>6 DEF Prefix
<1>8. [k \in DOMAIN calls[q][m] |-> calls[q][m][k].param]
        = [k \in DOMAIN calls[r][m] |-> calls[r][m][k].param]
  BY <1>7 DEF Sent
<1>. QED  BY <1>8

-----------------------------------------------------------------------------
(* Every rank stays typed: its gradients and those it waits for are         *)
(* gradients, what it waits for has been called, a hook is one of a         *)
(* parameter with a bucket.                                                 *)
THEOREM RanksAreTyped == Spec => []Types
<1>1. Types /\ [Next /\ Fixed]_vars => Types'
  <2>. SUFFICES ASSUME Types, [Next /\ Fixed]_vars PROVE Types'
    OBVIOUS
  <2>1. ASSUME NEW r \in Rank, RankStep(r), Fixed PROVE Types'
    BY <2>1, StepGoes, ResidualStep, TypesStep
  <2>2. ASSUME UNCHANGED <<scenario, buckets, st, calls, residual>> PROVE Types'
    BY <2>2 DEF Types, Bucket
  <2>3. CASE Next /\ Fixed
    <3>1. CASE AllFinished
      BY <2>2, <2>3, <3>1 DEF AllFinished, Fixed
    <3>. QED  BY <2>1, <2>3, <3>1 DEF Next
  <2>4. CASE UNCHANGED vars
    BY <2>2, <2>4 DEF vars
  <2>. QED  BY <2>3, <2>4
<1>2. Init => Types
  BY InitInv DEF CollectivesInv
<1>. QED  BY <1>1, <1>2, PTL DEF Spec

(* Where the engines of all ranks deliver the gradients of each backward    *)
(* pass in the same order, all ranks make the same collectives in the same  *)
(* order, whatever the program, the backend, the buckets and the            *)
(* interleaving (mark_param_ready, synchronize_gradients,                   *)
(* pack_bucket_flat).                                                       *)
THEOREM SameCollectives == Spec => [](UsesAgree => CollectivesMatch)
<1>1. CollectivesInv => (UsesAgree => CollectivesMatch)
  BY InStepMatches DEF CollectivesInv
<1>. QED  BY <1>1, InitInv, NextInv, PTL DEF Spec
=============================================================================
