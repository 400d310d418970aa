------------------------ MODULE BackwardEngineProofs ------------------------
(***************************************************************************)
(* What holds of the backward engine for every graph, every list of roots  *)
(* and every nesting of calls.  parent_count_ counts edges exactly, so a   *)
(* call's classification of its Functions as shared and unshared is exact  *)
(* when it is made; it stays exact because graphs only grow between calls, *)
(* and because nested calls walk disjoint graphs, each closed under        *)
(* next_functions(): what one tears down hangs above nothing of another.   *)
(***************************************************************************)
EXTENDS BackwardEngine, FiniteSetTheorems, SequenceTheorems, WellFoundedInduction, TLAPS

(* Function f hangs below some Function outside S. *)
HasParentOutside(S, f) == \E g \in Fn \ S : f \in Children(next, Null, g)

(* The graph: a Function has at most MaxInputs edges, and none before it   *)
(* is applied.                                                             *)
GraphShape ==
    /\ scenario \in Scenario /\ created \in 0 .. MaxFn
    /\ DOMAIN next = Fn /\ DOMAIN saved = Fn
    /\ \A f \in Fn : DOMAIN next[f] \subseteq 1 .. MaxInputs
    /\ \A f \in Fn : f > created => next[f] = <<>>

(* The shape of one active call: a record whose walk is a list of distinct *)
(* Functions.                                                              *)
CallShape(c) ==
    /\ c = [roots |-> c.roots, retain |-> c.retain, sorted |-> c.sorted, pos |-> c.pos,
            phase |-> c.phase, unshared |-> c.unshared, saved_accum |-> c.saved_accum]
    /\ c.retain \in BOOLEAN
    /\ c.sorted \in Seq(Fn) /\ IsInjective(c.sorted)
    /\ c.pos \in 0 .. Len(c.sorted)
    /\ c.phase \in {"loop", "call", "unwinding"}
    /\ c.phase = "call" => c.pos > 0
    /\ c.unshared \subseteq Range(c.sorted)

(* The classification made at the start stays exact while the call runs:   *)
(* the shared Functions of the walk are those with a parent outside it.    *)
ClassifiedRight(c) ==
    \A f \in Range(c.sorted) : f \in c.unshared <=> ~HasParentOutside(Range(c.sorted), f)

(* What the loop has passed and may release, it has released. *)
PassedReleased(c) ==
    ~c.retain => \A p \in c.pos + 1 .. Len(c.sorted) :
                    c.sorted[p] \in c.unshared => saved[c.sorted[p]] = "released"

CallInv(c) ==
    /\ CallShape(c)
    /\ ChildrenFirst(next, Null, c.sorted)
    /\ ClassifiedRight(c)
    /\ PassedReleased(c)

(* A sequence, whatever its elements. *)
IsStack(s) == Len(s) \in Nat /\ s = [i \in 1 .. Len(s) |-> s[i]]
CallsInv == IsStack(calls) /\ \A d \in 1 .. Len(calls) : CallInv(calls[d])

(* Nested calls walk disjoint graphs. *)
WalksDisjoint ==
    \A d, e \in 1 .. Len(calls) :
        d # e => Range(calls[d].sorted) \cap Range(calls[e].sorted) = {}

(* What the outermost call has set aside is empty. *)
OutermostIsClean ==
    /\ Idle => accum = NoGrads
    /\ ~Idle => calls[1].saved_accum = NoGrads

(* The inductive invariant. *)
IInv ==
    /\ GraphShape
    /\ ParentCountMatchesEdges
    /\ CallsInv
    /\ WalksDisjoint
    /\ OutermostIsClean
-----------------------------------------------------------------------------
(* The Functions of a program are finitely many, and Null is none of them. *)
LEMMA FnFacts ==
    /\ IsFiniteSet(Fn) /\ Fn \subseteq Nat /\ Null \notin Fn
    /\ MaxFn \in Nat /\ MaxInputs \in Nat /\ IsFiniteSet(1 .. MaxInputs)
<1>1. MaxFn \in Int /\ MaxInputs \in Int /\ MaxFn \in Nat /\ MaxInputs \in Nat
  BY BoundsAssumption
<1>2. IsFiniteSet(1 .. MaxFn) /\ IsFiniteSet(1 .. MaxInputs)
  BY <1>1, FS_Interval
<1>3. Fn \subseteq Nat
  BY <1>1 DEF Fn
<1>4. Null \notin Fn
  BY <1>3, LeafAssumption
<1>. QED  BY <1>1, <1>2, <1>3, <1>4 DEF Fn

(* The edges that Edges counts. *)
EdgeSet(nx, S, f) ==
    {e \in S \X (1 .. MaxInputs) : e[2] \in DOMAIN nx[e[1]] /\ nx[e[1]][e[2]] = f}

(* They are finitely many, ... *)
LEMMA EdgeSetFinite ==
    ASSUME NEW nx, NEW S \in SUBSET Fn, NEW f
    PROVE  /\ IsFiniteSet(EdgeSet(nx, S, f))
           /\ Edges(nx, S, f) = Cardinality(EdgeSet(nx, S, f))
           /\ Edges(nx, S, f) \in Nat
<1>1. IsFiniteSet(S \X (1 .. MaxInputs))
  <2>1. IsFiniteSet(S)
    BY FnFacts, FS_Subset
  <2>. QED  BY <2>1, FnFacts, FS_Product
<1>2. EdgeSet(nx, S, f) \in SUBSET (S \X (1 .. MaxInputs))
  BY DEF EdgeSet
<1>3. IsFiniteSet(EdgeSet(nx, S, f))
  BY <1>1, <1>2, FS_Subset
<1>4. Edges(nx, S, f) = Cardinality(EdgeSet(nx, S, f))
  BY DEF Edges, EdgeSet
<1>. QED  BY <1>3, <1>4, FS_CardinalityType

(* ... add up over disjoint sets of Functions, ... *)
LEMMA EdgesSplit ==
    ASSUME NEW nx, NEW S \in SUBSET Fn, NEW T \in SUBSET Fn, S \cap T = {}, NEW f
    PROVE  Edges(nx, S \cup T, f) = Edges(nx, S, f) + Edges(nx, T, f)
<1>1. EdgeSet(nx, S \cup T, f) = EdgeSet(nx, S, f) \cup EdgeSet(nx, T, f)
  BY DEF EdgeSet
<1>2. EdgeSet(nx, S, f) \cap EdgeSet(nx, T, f) = {}
  BY DEF EdgeSet
<1>3. Cardinality(EdgeSet(nx, S, f) \cap EdgeSet(nx, T, f)) = 0
  BY <1>2, FS_EmptySet
<1>4. Cardinality(EdgeSet(nx, S \cup T, f))
        = Cardinality(EdgeSet(nx, S, f)) + Cardinality(EdgeSet(nx, T, f)) - 0
  BY <1>1, <1>3, EdgeSetFinite, FS_Union
<1>5. S \cup T \in SUBSET Fn
  OBVIOUS
<1>6. /\ Edges(nx, S \cup T, f) = Cardinality(EdgeSet(nx, S \cup T, f))
      /\ Edges(nx, S, f) = Cardinality(EdgeSet(nx, S, f)) /\ Edges(nx, S, f) \in Nat
      /\ Edges(nx, T, f) = Cardinality(EdgeSet(nx, T, f)) /\ Edges(nx, T, f) \in Nat
  BY <1>5, EdgeSetFinite
<1>. QED  BY <1>4, <1>6

(* ... depend on those Functions' edges only, ... *)
LEMMA EdgesSame ==
    ASSUME NEW nx, NEW ny, NEW S \in SUBSET Fn, \A g \in S : nx[g] = ny[g], NEW f
    PROVE  Edges(nx, S, f) = Edges(ny, S, f)
<1>1. EdgeSet(nx, S, f) = EdgeSet(ny, S, f)
  BY DEF EdgeSet
<1>. QED  BY <1>1, EdgeSetFinite

(* ... are none when these have none, ... *)
LEMMA EdgesNone ==
    ASSUME NEW nx, NEW S \in SUBSET Fn, \A g \in S : nx[g] = <<>>, NEW f
    PROVE  Edges(nx, S, f) = 0
<1>1. EdgeSet(nx, S, f) = {}
  BY DEF EdgeSet
<1>. QED  BY <1>1, EdgeSetFinite, FS_EmptySet

(* ... and some just when one of them has f for a child. *)
LEMMA EdgesPositive ==
    ASSUME NEW nx, NEW S \in SUBSET Fn, NEW f \in Fn,
           \A g \in S : DOMAIN nx[g] \subseteq 1 .. MaxInputs
    PROVE  Edges(nx, S, f) # 0 <=> \E g \in S : f \in Children(nx, Null, g)
<1>1. Edges(nx, S, f) # 0 <=> EdgeSet(nx, S, f) # {}
  BY EdgeSetFinite, FS_EmptySet
<1>2. ASSUME NEW e \in EdgeSet(nx, S, f) PROVE \E g \in S : f \in Children(nx, Null, g)
  BY FnFacts DEF EdgeSet, Children
<1>3. ASSUME NEW g \in S, f \in Children(nx, Null, g) PROVE EdgeSet(nx, S, f) # {}
  <2>1. PICK i \in DOMAIN nx[g] : nx[g][i] = f
    BY <1>3 DEF Children
  <2>2. <<g, i>> \in EdgeSet(nx, S, f)
    BY <2>1 DEF EdgeSet
  <2>. QED  BY <2>2
<1>. QED  BY <1>1, <1>2, <1>3

(* The edges of one Function, counted by their places. *)
LEMMA EdgesOfOne ==
    ASSUME NEW nx, NEW g \in Fn, DOMAIN nx[g] \subseteq 1 .. MaxInputs, NEW f
    PROVE  Edges(nx, {g}, f) = Cardinality({i \in DOMAIN nx[g] : nx[g][i] = f})
<1>. DEFINE I == {i \in DOMAIN nx[g] : nx[g][i] = f}
            b == [i \in I |-> <<g, i>>]
<1>1. IsFiniteSet(I)
  <2>1. I \in SUBSET (1 .. MaxInputs)
    OBVIOUS
  <2>. QED  BY <2>1, FnFacts, FS_Subset
<1>2. \A e \in EdgeSet(nx, {g}, f) : e = <<g, e[2]>> /\ e[2] \in I
  BY DEF EdgeSet
<1>3. \A i \in I : <<g, i>> \in EdgeSet(nx, {g}, f)
  BY DEF EdgeSet
<1>4. b \in Bijection(I, EdgeSet(nx, {g}, f))
  <2>1. b \in [I -> EdgeSet(nx, {g}, f)]
    BY <1>3
  <2>2. \A i, j \in I : b[i] = b[j] => i = j
    OBVIOUS
  <2>3. \A e \in EdgeSet(nx, {g}, f) : \E i \in I : b[i] = e
    BY <1>2
  <2>. QED  BY <2>1, <2>2, <2>3 DEF Bijection, Injection, Surjection, IsInjective
<1>5. Cardinality(EdgeSet(nx, {g}, f)) = Cardinality(I)
  BY <1>1, <1>4, FS_Bijection DEF ExistsBijection
<1>. QED  BY <1>5, EdgeSetFinite
-----------------------------------------------------------------------------
(* The stack of calls: what a push, a change of one call and a pop leave. *)
LEMMA StackType ==
    ASSUME NEW s, IsStack(s)
    PROVE  /\ s \in Seq(Range(s)) /\ DOMAIN s = 1 .. Len(s) /\ Len(s) \in Nat
           /\ s = <<>> <=> Len(s) = 0
<1>1. Len(s) \in Nat /\ DOMAIN s = 1 .. Len(s)
  BY DEF IsStack
<1>2. s \in [1 .. Len(s) -> Range(s)]
  BY <1>1 DEF IsStack, Range
<1>3. s \in Seq(Range(s))
  BY <1>1, <1>2
<1>. QED  BY <1>1, <1>3

(* Every sequence is one. *)
LEMMA SeqIsStack ==
    ASSUME NEW S, NEW t \in Seq(S)
    PROVE  IsStack(t)
<1>1. Len(t) \in Nat /\ t \in [1 .. Len(t) -> S]
  BY LenProperties
<1>. QED  BY <1>1 DEF IsStack

(* A sequence over its own elements and one more. *)
LEMMA StackIn ==
    ASSUME NEW s, IsStack(s), NEW x
    PROVE  s \in Seq(Range(s) \cup {x})
<1>1. Len(s) \in Nat /\ DOMAIN s = 1 .. Len(s)
  BY StackType
<1>2. s \in [1 .. Len(s) -> Range(s) \cup {x}]
  BY <1>1 DEF IsStack, Range
<1>. QED  BY <1>1, <1>2

(* A call is pushed, ... *)
LEMMA StackPush ==
    ASSUME NEW s, IsStack(s), NEW x
    PROVE  /\ IsStack(Append(s, x)) /\ Len(Append(s, x)) = Len(s) + 1
           /\ Append(s, x)[Len(s) + 1] = x
           /\ \A i \in 1 .. Len(s) : Append(s, x)[i] = s[i]
<1>1. PICK S : S = Range(s) \cup {x}
  OBVIOUS
<1>2. s \in Seq(S) /\ x \in S
  BY <1>1, StackIn
<1>3. /\ Append(s, x) \in Seq(S) /\ Len(Append(s, x)) = Len(s) + 1
      /\ Append(s, x)[Len(s) + 1] = x
      /\ \A i \in 1 .. Len(s) : Append(s, x)[i] = s[i]
  BY <1>2, AppendProperties
<1>4. IsStack(Append(s, x))
  BY <1>3, SeqIsStack
<1>. QED  BY <1>3, <1>4

(* ... one is changed, ... *)
LEMMA StackSet ==
    ASSUME NEW s, IsStack(s), NEW t, DOMAIN t = DOMAIN s, t = [i \in DOMAIN t |-> t[i]]
    PROVE  IsStack(t) /\ Len(t) = Len(s)
<1>1. Len(s) \in Nat /\ DOMAIN t = 1 .. Len(s)
  BY StackType
<1>2. t \in [1 .. Len(s) -> Range(t)]
  BY <1>1 DEF Range
<1>3. t \in Seq(Range(t))
  BY <1>1, <1>2
<1>4. Len(t) \in Nat /\ DOMAIN t = 1 .. Len(t)
  BY <1>3, LenProperties
<1>5. IsStack(t)
  BY <1>3, SeqIsStack
<1>. QED  BY <1>1, <1>4, <1>5

(* ... and the last is popped. *)
LEMMA StackPop ==
    ASSUME NEW s, IsStack(s), s # <<>>, NEW t \in {SubSeq(s, 1, Len(s) - 1)}
    PROVE  /\ IsStack(t) /\ Len(t) = Len(s) - 1
           /\ \A i \in 1 .. Len(s) - 1 : t[i] = s[i]
<1>1. PICK m : m = Len(s) - 1
  OBVIOUS
<1>2. s \in Seq(Range(s)) /\ Len(s) \in Nat /\ Len(s) # 0 /\ m \in Nat
  BY <1>1, StackType
<1>3. \A i \in 1 .. m : s[i] \in Range(s)
  BY <1>1, <1>2, StackType DEF Range
<1>4. /\ t \in Seq(Range(s)) /\ Len(t) = IF 1 <= m THEN m - 1 + 1 ELSE 0
      /\ \A i \in 1 .. m - 1 + 1 : t[i] = s[1 + i - 1]
  BY <1>1, <1>2, <1>3, SubSeqProperties
<1>5. IsStack(t)
  BY <1>4, SeqIsStack
<1>6. Len(t) = m
  BY <1>2, <1>4
<1>7. \A i \in 1 .. m : t[i] = s[i]
  BY <1>2, <1>4
<1>. QED  BY <1>1, <1>5, <1>6, <1>7
-----------------------------------------------------------------------------
(* The invariant holds at first. *)
LEMMA Initially == Init => IInv
<1>. SUFFICES ASSUME Init PROVE IInv
  OBVIOUS
<1>1. GraphShape
  BY ScenariosAssumption, FnFacts DEF Init, GraphShape
<1>2. ParentCountMatchesEdges
  <2>1. \A f \in Fn : Edges(next, Fn, f) = 0
    BY EdgesNone DEF Init
  <2>. QED  BY <2>1 DEF Init, ParentCountMatchesEdges, NoGrads
<1>3. calls = <<>> /\ Len(calls) = 0 /\ IsStack(calls)
  BY DEF Init, IsStack
<1>4. CallsInv /\ WalksDisjoint
  BY <1>3 DEF CallsInv, WalksDisjoint
<1>5. OutermostIsClean
  BY <1>3 DEF Init, OutermostIsClean, Idle
<1>. QED  BY <1>1, <1>2, <1>4, <1>5 DEF IInv

(* Steps made while no call is active leave nothing to say of calls. *)
LEMMA NoCalls ==
    ASSUME IInv, Idle, UNCHANGED <<calls, accum>>, GraphShape', ParentCountMatchesEdges'
    PROVE  IInv'
<1>1. calls' = <<>> /\ Len(calls') = 0 /\ IsStack(calls')
  BY DEF Idle, IsStack
<1>2. CallsInv' /\ WalksDisjoint'
  BY <1>1 DEF CallsInv, WalksDisjoint
<1>3. OutermostIsClean'
  BY <1>1 DEF IInv, OutermostIsClean, Idle, NoGrads
<1>. QED  BY <1>2, <1>3 DEF IInv

(* An operation: its edges are counted at its children, and it had none.   *)
LEMMA ApplyKeeps ==
    ASSUME IInv, NEW n \in 1 .. MaxInputs, NEW k, NEW ins \in [1 .. n -> held],
           Apply(ins, k), UNCHANGED scenario
    PROVE  IInv'
<1>1. PICK f : f = created + 1
  OBVIOUS
<1>2. PICK nx : nx = [i \in DOMAIN ins |-> grad_fn[ins[i]]]
  OBVIOUS
<1>3. /\ Idle /\ created < scenario.fns /\ created' = f
      /\ next' = [next EXCEPT ![f] = nx]
      /\ parents' = [c \in Fn |-> parents[c] + Cardinality({i \in DOMAIN nx : nx[i] = c})]
      /\ UNCHANGED <<calls, accum, saved>>
  BY <1>1, <1>2 DEF Apply
<1>4. DOMAIN nx = 1 .. n /\ 1 .. n \subseteq 1 .. MaxInputs
  BY <1>2, FnFacts
<1>5. created \in Nat /\ f \in Fn /\ f <= MaxFn /\ f > created
  <2>1. scenario.fns \in 0 .. MaxFn /\ created \in 0 .. MaxFn
    BY DEF IInv, GraphShape, Scenario
  <2>. QED  BY <2>1, <1>1, <1>3, FnFacts DEF Fn
<1>6. /\ DOMAIN next' = Fn /\ next'[f] = nx
      /\ \A g \in Fn : g # f => next'[g] = next[g]
      /\ next[f] = <<>>
  BY <1>3, <1>5 DEF IInv, GraphShape
<1>7. GraphShape'
  <2>1. \A g \in Fn : DOMAIN next'[g] \subseteq 1 .. MaxInputs
    BY <1>4, <1>6 DEF IInv, GraphShape
  <2>2. \A g \in Fn : g > f => next'[g] = <<>>
    BY <1>1, <1>5, <1>6, FnFacts DEF IInv, GraphShape
  <2>3. f \in 0 .. MaxFn
    BY <1>5, FnFacts
  <2>. QED  BY <2>1, <2>2, <2>3, <1>3, <1>6 DEF IInv, GraphShape
<1>8. ASSUME NEW c \in Fn PROVE parents'[c] = Edges(next', Fn, c)
  <2>. DEFINE R == Fn \ {f}
  <2>1. R \in SUBSET Fn /\ {f} \in SUBSET Fn /\ R \cap {f} = {} /\ R \cup {f} = Fn
    BY <1>5
  <2>. HIDE DEF R
  <2>2. Edges(next', Fn, c) = Edges(next', R, c) + Edges(next', {f}, c)
    BY <2>1, EdgesSplit
  <2>3. Edges(next, Fn, c) = Edges(next, R, c) + Edges(next, {f}, c)
    BY <2>1, EdgesSplit
  <2>4. Edges(next', R, c) = Edges(next, R, c)
    <3>1. \A g \in R : next'[g] = next[g]
      BY <2>1, <1>6
    <3>. QED  BY <3>1, <2>1, EdgesSame
  <2>5. Edges(next, {f}, c) = 0
    BY <1>6, <2>1, EdgesNone
  <2>6. Edges(next', {f}, c) = Cardinality({i \in DOMAIN nx : nx[i] = c})
    BY <1>4, <1>5, <1>6, EdgesOfOne
  <2>7. Edges(next, R, c) \in Nat
    BY <2>1, EdgeSetFinite
  <2>8. parents[c] = Edges(next, Fn, c)
    BY DEF IInv, ParentCountMatchesEdges
  <2>9. parents'[c] = parents[c] + Cardinality({i \in DOMAIN nx : nx[i] = c})
    BY <1>3
  <2>. QED  BY <2>2, <2>3, <2>4, <2>5, <2>6, <2>7, <2>8, <2>9
<1>9. ParentCountMatchesEdges'
  BY <1>8 DEF ParentCountMatchesEdges
<1>. QED  BY <1>3, <1>7, <1>9, NoCalls

(* The other calls of a program leave edges and counts alone. *)
LEMMA UserCallKeeps ==
    ASSUME IInv, UserCall, UNCHANGED scenario
    PROVE  IInv'
<1>1. /\ Idle /\ DOMAIN saved' = Fn
      /\ UNCHANGED <<created, next, parents, calls, accum>>
  <2>1. PICK v \in held : \/ ZeroGrad(v)
                          \/ RetainGrad(v)
                          \/ RegisterHook(v)
                          \/ ModifyInPlace(v)
                          \/ DropHandle(v)
    BY DEF UserCall
  <2>2. CASE ZeroGrad(v)
    BY <2>2 DEF ZeroGrad, UserOp, graph, IInv, GraphShape
  <2>3. CASE RetainGrad(v)
    BY <2>3 DEF RetainGrad, UserOp, graph, IInv, GraphShape
  <2>4. CASE RegisterHook(v)
    BY <2>4 DEF RegisterHook, UserOp, graph, IInv, GraphShape
  <2>5. CASE ModifyInPlace(v)
    BY <2>5 DEF ModifyInPlace, UserOp, graph
  <2>6. CASE DropHandle(v)
    BY <2>6 DEF DropHandle, UserOp, graph, IInv, GraphShape
  <2>. QED  BY <2>1, <2>2, <2>3, <2>4, <2>5, <2>6
<1>2. GraphShape'
  BY <1>1 DEF IInv, GraphShape
<1>3. ParentCountMatchesEdges'
  BY <1>1 DEF IInv, ParentCountMatchesEdges
<1>. QED  BY <1>1, <1>2, <1>3, NoCalls
-----------------------------------------------------------------------------
(* While a call runs, Functions only lose their edges.  Its walk keeps its *)
(* order and its classification when those that do so hang above nothing   *)
(* in the walk.                                                            *)
LEMMA CallKept ==
    ASSUME NEW c, CallInv(c), NEW T,
           \A g \in Fn : next'[g] = next[g] \/ (g \in T /\ next'[g] = <<>>),
           \A g \in Fn \cap T : Children(next, Null, g) \cap Range(c.sorted) = {},
           \A f \in Fn : saved[f] = "released" => saved'[f] = "released"
    PROVE  CallInv(c)'
<1>1. CallShape(c) /\ CallShape(c)'
  BY DEF CallInv, CallShape
<1>2. c.sorted \in Seq(Fn) /\ \A p \in DOMAIN c.sorted : c.sorted[p] \in Fn
  BY <1>1 DEF CallShape
<1>3. Range(c.sorted) \subseteq Fn
  BY <1>2 DEF Range
<1>4. \A g \in Fn : Children(next', Null, g) \subseteq Children(next, Null, g)
  BY DEF Children
<1>5. \A g \in Fn : next'[g] = next[g] => Children(next', Null, g) = Children(next, Null, g)
  BY DEF Children
<1>6. ChildrenFirst(next', Null, c.sorted)
  BY <1>2, <1>4 DEF CallInv, ChildrenFirst
<1>7. ASSUME NEW f \in Range(c.sorted)
      PROVE  HasParentOutside(Range(c.sorted), f)' <=> HasParentOutside(Range(c.sorted), f)
  <2>1. ASSUME NEW g \in Fn, f \in Children(next, Null, g)
        PROVE  f \in Children(next', Null, g)
    BY <2>1, <1>5
  <2>. QED  BY <2>1, <1>4 DEF HasParentOutside
<1>8. ClassifiedRight(c)'
  BY <1>7 DEF CallInv, ClassifiedRight
<1>9. PassedReleased(c)'
  <2>1. \A p \in c.pos + 1 .. Len(c.sorted) : c.sorted[p] \in Fn
    BY <1>1, <1>2 DEF CallShape
  <2>. QED  BY <2>1 DEF CallInv, PassedReleased
<1>. QED  BY <1>1, <1>6, <1>8, <1>9 DEF CallInv

(* The walk of a call is closed under next_functions(). *)
LEMMA WalkIsClosed ==
    ASSUME NEW c, CallInv(c), NEW g \in Range(c.sorted)
    PROVE  Children(next, Null, g) \subseteq Range(c.sorted)
  BY DEF CallInv, ChildrenFirst, Range

(* There is an innermost call. *)
LEMMA TopFacts ==
    ASSUME IInv, ~Idle
    PROVE  /\ IsStack(calls) /\ Len(calls) \in 1 .. Len(calls) /\ Len(calls) \in Nat
           /\ 1 \in 1 .. Len(calls)
           /\ calls # <<>> /\ CallInv(Top)
<1>1. IsStack(calls) /\ calls # <<>>
  BY DEF IInv, CallsInv, Idle
<1>2. Len(calls) \in Nat /\ Len(calls) # 0
  BY <1>1, StackType
<1>3. Len(calls) \in 1 .. Len(calls) /\ 1 \in 1 .. Len(calls)
  BY <1>2
<1>. QED  BY <1>1, <1>2, <1>3 DEF IInv, CallsInv, Top

(* A step of the walk: it moves the top call on and releases at most what  *)
(* it passes.                                                              *)
LEMMA TopStep ==
    ASSUME IInv, ~Idle, UNCHANGED <<scenario, created, next, parents>>, DOMAIN saved' = Fn,
           \A f \in Fn : saved[f] = "released" => saved'[f] = "released",
           NEW t, NEW e, t = Top, calls' = SetTop(e), CallShape(e), PassedReleased(e)',
           e.sorted = t.sorted, e.unshared = t.unshared, e.saved_accum = t.saved_accum
    PROVE  IInv'
<1>1. /\ IsStack(calls) /\ Len(calls) \in 1 .. Len(calls) /\ Len(calls) \in Nat
      /\ 1 \in 1 .. Len(calls) /\ CallInv(t) /\ calls # <<>> /\ t = calls[Len(calls)]
  BY TopFacts DEF Top
<1>2. /\ IsStack(calls') /\ Len(calls') = Len(calls) /\ calls'[Len(calls)] = e
      /\ \A i \in 1 .. Len(calls) : i # Len(calls) => calls'[i] = calls[i]
  <2>1. calls' = [calls EXCEPT ![Len(calls)] = e]
    BY DEF SetTop
  <2>2. DOMAIN calls' = DOMAIN calls /\ calls' = [i \in DOMAIN calls' |-> calls'[i]]
    BY <2>1
  <2>3. IsStack(calls') /\ Len(calls') = Len(calls)
    BY <1>1, <2>2, StackSet
  <2>. QED  BY <1>1, <2>1, <2>3, StackType
<1>3. GraphShape' /\ ParentCountMatchesEdges'
  BY DEF IInv, GraphShape, ParentCountMatchesEdges
<1>4. ASSUME NEW c, CallInv(c) PROVE CallInv(c)'
  <2>1. \A g \in Fn : next'[g] = next[g] \/ (g \in {} /\ next'[g] = <<>>)
    OBVIOUS
  <2>. QED  BY <2>1, <1>4, CallKept
<1>5. CallInv(e)'
  <2>1. ChildrenFirst(next', Null, e.sorted) /\ ClassifiedRight(e)'
    BY <1>1 DEF CallInv, ClassifiedRight, HasParentOutside
  <2>2. CallShape(e)'
    BY DEF CallShape
  <2>. QED  BY <2>1, <2>2 DEF CallInv
<1>6. ASSUME NEW d \in 1 .. Len(calls) PROVE CallInv(calls[d])'
  <2>1. PICK c : c = calls[d]
    OBVIOUS
  <2>2. CallInv(c)'
    BY <2>1, <1>4 DEF IInv, CallsInv
  <2>. QED  BY <1>2, <1>5, <2>1, <2>2
<1>7. CallsInv'
  BY <1>2, <1>6 DEF CallsInv
<1>8. \A d \in 1 .. Len(calls) : /\ calls'[d].sorted = calls[d].sorted
                                 /\ calls'[d].saved_accum = calls[d].saved_accum
  BY <1>1, <1>2
<1>9. WalksDisjoint'
  BY <1>2, <1>8 DEF IInv, WalksDisjoint
<1>10. OutermostIsClean'
  <2>1. calls' # <<>>
    BY <1>1, <1>2, StackType
  <2>. QED  BY <2>1, <1>1, <1>8 DEF IInv, OutermostIsClean, Idle, NoGrads
<1>. QED  BY <1>3, <1>7, <1>9, <1>10 DEF IInv

(* A call with another place in its walk and another phase. *)
LEMMA Moved ==
    ASSUME NEW t, CallShape(t), NEW q \in 0 .. Len(t.sorted),
           NEW ph \in {"loop", "call", "unwinding"}, ph = "call" => q > 0,
           NEW e, e \in {[roots |-> t.roots, retain |-> t.retain, sorted |-> t.sorted, pos |-> q,
                          phase |-> ph, unshared |-> t.unshared,
                          saved_accum |-> t.saved_accum]}
    PROVE  /\ CallShape(e) /\ e.pos = q /\ e.phase = ph
           /\ e.roots = t.roots /\ e.retain = t.retain /\ e.sorted = t.sorted
           /\ e.unshared = t.unshared /\ e.saved_accum = t.saved_accum
<1>1. e = [roots |-> t.roots, retain |-> t.retain, sorted |-> t.sorted, pos |-> q,
           phase |-> ph, unshared |-> t.unshared, saved_accum |-> t.saved_accum]
  OBVIOUS
<1>2. /\ e.pos = q /\ e.phase = ph
      /\ e.roots = t.roots /\ e.retain = t.retain /\ e.sorted = t.sorted
      /\ e.unshared = t.unshared /\ e.saved_accum = t.saved_accum
  BY <1>1
<1>. QED  BY <1>1, <1>2 DEF CallShape

(* What the per-Function release does. *)
LEMMA ReleaseFacts ==
    ASSUME IInv, ~Idle, ReleaseCurrent, NEW t, t = Top, t.pos > 0
    PROVE  /\ DOMAIN saved' = Fn
           /\ \A f \in Fn : saved[f] = "released" => saved'[f] = "released"
           /\ \A f \in Fn : f \notin t.unshared => saved'[f] = saved[f]
           /\ t.pos \in DOMAIN t.sorted /\ t.sorted[t.pos] \in Fn
           /\ ~t.retain /\ t.sorted[t.pos] \in t.unshared
                => saved'[t.sorted[t.pos]] = "released"
<1>1. CallShape(t) /\ DOMAIN saved = Fn
  BY TopFacts DEF CallInv, IInv, GraphShape
<1>2. t.pos \in DOMAIN t.sorted /\ t.sorted[t.pos] \in Fn
  BY <1>1 DEF CallShape
<1>3. saved' = IF ~t.retain /\ t.sorted[t.pos] \in t.unshared
               THEN [saved EXCEPT ![t.sorted[t.pos]] = "released"] ELSE saved
  BY DEF ReleaseCurrent, Current, FunctionAt
<1>. QED  BY <1>1, <1>2, <1>3

(* The loop goes on to the next Function, having released this one. *)
LEMMA Advance ==
    ASSUME IInv, ~Idle, UNCHANGED <<scenario, created, next, parents>>, ReleaseCurrent,
           NEW t, t = Top, t.pos > 0,
           NEW e, e = [t EXCEPT !.pos = t.pos - 1, !.phase = "loop"], calls' = SetTop(e)
    PROVE  IInv'
<1>1. CallInv(t) /\ CallShape(t)
  BY TopFacts DEF CallInv
<1>2. t.pos - 1 \in 0 .. Len(t.sorted) /\ t.pos \in Nat /\ Len(t.sorted) \in Nat
  BY <1>1 DEF CallShape
<1>3. /\ CallShape(e) /\ e.pos = t.pos - 1 /\ e.retain = t.retain
      /\ e.sorted = t.sorted /\ e.unshared = t.unshared /\ e.saved_accum = t.saved_accum
  <2>1. e \in {[roots |-> t.roots, retain |-> t.retain, sorted |-> t.sorted, pos |-> t.pos - 1,
                phase |-> "loop", unshared |-> t.unshared, saved_accum |-> t.saved_accum]}
    BY <1>1 DEF CallShape
  <2>. QED  BY <1>1, <1>2, <2>1, Moved
<1>4. PassedReleased(e)'
  <2>. SUFFICES ASSUME ~t.retain, NEW p \in t.pos .. Len(t.sorted),
                       t.sorted[p] \in t.unshared
                PROVE  saved'[t.sorted[p]] = "released"
    BY <1>2, <1>3 DEF PassedReleased
  <2>1. CASE p = t.pos
    BY <2>1, ReleaseFacts
  <2>2. CASE p # t.pos
    <3>1. p \in t.pos + 1 .. Len(t.sorted) /\ t.sorted[p] \in Fn
      BY <1>1, <1>2, <2>2 DEF CallShape
    <3>2. saved[t.sorted[p]] = "released"
      BY <1>1, <3>1 DEF CallInv, PassedReleased
    <3>. QED  BY <3>1, <3>2, ReleaseFacts
  <2>. QED  BY <2>1, <2>2
<1>5. DOMAIN saved' = Fn /\ \A f \in Fn : saved[f] = "released" => saved'[f] = "released"
  BY ReleaseFacts
<1>. QED  BY <1>3, <1>4, <1>5, TopStep

(* Every iteration of the loop keeps the invariant. *)
LEMMA WalkKeeps ==
    ASSUME IInv, UNCHANGED scenario, SkipFunction \/ EnterFunction \/ DeliverGradients
    PROVE  IInv'
<1>1. PICK t : t = Top
  OBVIOUS
<1>2. ~Idle
  BY DEF SkipFunction, EnterFunction, DeliverGradients, InLoop
<1>3. CallInv(t) /\ CallShape(t)
  BY <1>1, <1>2, TopFacts DEF CallInv
<1>4. CASE SkipFunction
  <2>1. t.phase = "loop" /\ t.pos > 0 /\ ReleaseCurrent
        /\ UNCHANGED <<created, next, parents>>
    BY <1>1, <1>4 DEF SkipFunction, InLoop, graph
  <2>2. PICK e : e = [t EXCEPT !.pos = t.pos - 1]
    OBVIOUS
  <2>3. e = [t EXCEPT !.pos = t.pos - 1, !.phase = "loop"]
    BY <2>1, <2>2, <1>3 DEF CallShape
  <2>4. calls' = SetTop(e)
    BY <1>1, <1>4, <2>2 DEF SkipFunction
  <2>. QED  BY <1>1, <1>2, <2>1, <2>3, <2>4, Advance
<1>5. CASE DeliverGradients
  <2>1. t.phase = "call" /\ t.pos > 0 /\ ReleaseCurrent
        /\ UNCHANGED <<created, next, parents>>
    BY <1>1, <1>3, <1>5 DEF DeliverGradients, graph, CallShape
  <2>2. PICK e : e = [t EXCEPT !.pos = t.pos - 1, !.phase = "loop"]
    OBVIOUS
  <2>3. calls' = SetTop(e)
    BY <1>1, <1>5, <2>2 DEF DeliverGradients
  <2>. QED  BY <1>1, <1>2, <2>1, <2>2, <2>3, Advance
<1>6. CASE EnterFunction
  <2>1. t.phase = "loop" /\ t.pos > 0 /\ UNCHANGED <<created, next, parents, saved>>
    BY <1>1, <1>6 DEF EnterFunction, InLoop, graph
  <2>2. PICK e : e = [t EXCEPT !.phase = "call"]
    OBVIOUS
  <2>3. /\ e \in {[roots |-> t.roots, retain |-> t.retain, sorted |-> t.sorted, pos |-> t.pos,
                   phase |-> "call", unshared |-> t.unshared,
                   saved_accum |-> t.saved_accum]}
        /\ t.pos \in 0 .. Len(t.sorted)
    BY <2>2, <1>3 DEF CallShape
  <2>4. calls' = SetTop(e)
    BY <1>1, <1>6, <2>2 DEF EnterFunction
  <2>5. /\ CallShape(e) /\ e.pos = t.pos /\ e.retain = t.retain /\ e.sorted = t.sorted
        /\ e.unshared = t.unshared /\ e.saved_accum = t.saved_accum
    BY <1>3, <2>1, <2>3, Moved
  <2>6. PassedReleased(e)'
    BY <1>3, <2>1, <2>5 DEF CallInv, PassedReleased
  <2>7. DOMAIN saved' = Fn
    BY <2>1 DEF IInv, GraphShape
  <2>. QED  BY <1>1, <1>2, <2>1, <2>4, <2>5, <2>6, <2>7, TopStep
<1>. QED  BY <1>4, <1>5, <1>6
-----------------------------------------------------------------------------
(* The order a sort returns is a list of distinct Functions, children      *)
(* first, and all of them can be reached from the roots.                   *)
LEMMA OrderFacts ==
    ASSUME IInv, NEW R, NEW order \in TopologicalOrders(next, Null, R)
    PROVE  /\ order \in Seq(Fn) /\ IsInjective(order)
           /\ ChildrenFirst(next, Null, order)
           /\ Range(order) \subseteq ReachableFrom(next, Null, R)
           /\ Range(order) \subseteq Fn
<1>1. PICK S : S = ReachableFrom(next, Null, R)
  OBVIOUS
<1>2. S \in SUBSET Fn
  BY <1>1 DEF ReachableFrom, IInv, GraphShape
<1>3. Cardinality(S) \in Nat
  BY <1>2, FnFacts, FS_Subset, FS_CardinalityType
<1>4. /\ order \in [1 .. Cardinality(S) -> S] /\ IsInjective(order)
      /\ ChildrenFirst(next, Null, order)
  BY <1>1 DEF TopologicalOrders
<1>5. order \in Seq(S) /\ order \in Seq(Fn)
  BY <1>2, <1>3, <1>4
<1>6. Range(order) \subseteq S
  BY <1>4 DEF Range
<1>. QED  BY <1>1, <1>2, <1>4, <1>5, <1>6

(* Classifying by parent_count_ is exact: a Function counts as unshared    *)
(* just when no Function outside the walk has it for a child.              *)
LEMMA ClassificationIsExact ==
    ASSUME IInv, NEW order, Range(order) \subseteq Fn, NEW f \in Range(order)
    PROVE  f \in compute_unshared_functions(order) <=> ~HasParentOutside(Range(order), f)
<1>1. PICK R : R = Range(order)
  OBVIOUS
<1>2. R \in SUBSET Fn /\ Fn \ R \in SUBSET Fn /\ R \cap (Fn \ R) = {} /\ R \cup (Fn \ R) = Fn
  BY <1>1
<1>3. f \in Fn /\ f \in R
  BY <1>1
<1>4. Edges(next, Fn, f) = Edges(next, R, f) + Edges(next, Fn \ R, f)
  BY <1>2, EdgesSplit
<1>5. Edges(next, R, f) \in Nat /\ Edges(next, Fn \ R, f) \in Nat
  BY <1>2, EdgeSetFinite
<1>6. Edges(next, Fn \ R, f) # 0 <=> \E g \in Fn \ R : f \in Children(next, Null, g)
  <2>1. \A g \in Fn \ R : DOMAIN next[g] \subseteq 1 .. MaxInputs
    BY DEF IInv, GraphShape
  <2>. QED  BY <1>2, <1>3, <2>1, EdgesPositive
<1>7. f \in compute_unshared_functions(order) <=> Edges(next, R, f) = Edges(next, Fn, f)
  BY <1>1, <1>3 DEF compute_unshared_functions, IInv, ParentCountMatchesEdges
<1>. QED  BY <1>1, <1>4, <1>5, <1>6, <1>7 DEF HasParentOutside

(* A backward call starts: with nothing to walk, or with a new walk.       *)
(* (execute, execute_multi)                                                *)
LEMMA ExecuteKeeps ==
    ASSUME IInv, UNCHANGED scenario, NEW rs, NEW retain \in BOOLEAN, Execute(rs, retain)
    PROVE  IInv'
<1>1. UNCHANGED <<created, next, parents, saved>>
  BY DEF Execute, graph
<1>2. GraphShape' /\ ParentCountMatchesEdges'
  BY <1>1 DEF IInv, GraphShape, ParentCountMatchesEdges
<1>3. ASSUME NEW c, CallInv(c) PROVE CallInv(c)'
  BY <1>1, <1>3 DEF CallInv, CallShape, ClassifiedRight, HasParentOutside, PassedReleased
<1>4. CASE UNCHANGED <<accum, calls>>
  <2>1. ASSUME NEW d \in 1 .. Len(calls) PROVE CallInv(calls[d])'
    <3>1. PICK c : c = calls[d]
      OBVIOUS
    <3>2. CallInv(c)'
      BY <3>1, <1>3 DEF IInv, CallsInv
    <3>. QED  BY <3>1, <3>2, <1>4
  <2>2. CallsInv' /\ WalksDisjoint' /\ OutermostIsClean'
    BY <2>1, <1>4 DEF IInv, CallsInv, WalksDisjoint, OutermostIsClean, Idle, NoGrads
  <2>. QED  BY <1>2, <2>2 DEF IInv
<1>5. CASE ~ UNCHANGED <<accum, calls>>
  <2>1. ReachableFrom(next, Null, RootFns(rs)) \cap ActiveFns = {}
    BY <1>5 DEF Execute
  <2>2. PICK order \in TopologicalOrders(next, Null, RootFns(rs)) :
            calls' = Append(calls, [roots |-> rs, retain |-> retain, sorted |-> order,
                                    pos |-> Len(order), phase |-> "loop",
                                    unshared |-> compute_unshared_functions(order),
                                    saved_accum |-> accum])
    BY <1>5 DEF Execute
  <2>3. /\ order \in Seq(Fn) /\ IsInjective(order) /\ ChildrenFirst(next, Null, order)
        /\ Range(order) \subseteq ReachableFrom(next, Null, RootFns(rs))
        /\ Range(order) \subseteq Fn
    BY OrderFacts
  <2>4. PICK un : un = compute_unshared_functions(order)
    OBVIOUS
  <2>5. \A f \in Range(order) : f \in un <=> ~HasParentOutside(Range(order), f)
    BY <2>3, <2>4, ClassificationIsExact
  <2>6. un \subseteq Range(order)
    BY <2>4 DEF compute_unshared_functions
  <2>7. PICK c : c = [roots |-> rs, retain |-> retain, sorted |-> order,
                      pos |-> Len(order), phase |-> "loop", unshared |-> un,
                      saved_accum |-> accum]
    OBVIOUS
  <2>8. /\ c.roots = rs /\ c.retain = retain /\ c.sorted = order /\ c.pos = Len(order)
        /\ c.phase = "loop" /\ c.unshared = un /\ c.saved_accum = accum
    BY <2>7
  <2>9. calls' = Append(calls, c)
    BY <2>2, <2>4, <2>7
  <2>10. CallInv(c)
    <3>1. Len(order) \in Nat
      BY <2>3
    <3>2. CallShape(c)
      BY <2>3, <2>6, <2>7, <2>8, <3>1 DEF CallShape
    <3>3. ClassifiedRight(c)
      BY <2>5, <2>8 DEF ClassifiedRight
    <3>4. PassedReleased(c)
      BY <2>8, <3>1 DEF PassedReleased
    <3>. QED  BY <2>3, <2>8, <3>2, <3>3, <3>4 DEF CallInv
  <2>11. IsStack(calls) /\ Len(calls) \in Nat
    BY StackType DEF IInv, CallsInv
  <2>12. /\ IsStack(calls') /\ Len(calls') = Len(calls) + 1 /\ calls'[Len(calls) + 1] = c
         /\ \A i \in 1 .. Len(calls) : calls'[i] = calls[i]
    BY <2>9, <2>11, StackPush
  <2>13. ASSUME NEW d \in 1 .. Len(calls) + 1 PROVE CallInv(calls[d])'
    <3>1. CASE d = Len(calls) + 1
      BY <3>1, <1>3, <2>10, <2>12
    <3>2. CASE d # Len(calls) + 1
      <4>1. d \in 1 .. Len(calls)
        BY <3>2, <2>11
      <4>2. PICK b : b = calls[d]
        OBVIOUS
      <4>3. CallInv(b)'
        BY <4>1, <4>2, <1>3 DEF IInv, CallsInv
      <4>. QED  BY <4>1, <4>2, <4>3, <2>12
    <3>. QED  BY <3>1, <3>2
  <2>14. CallsInv'
    BY <2>12, <2>13 DEF CallsInv
  <2>15. \A d \in 1 .. Len(calls) : Range(calls[d].sorted) \cap Range(order) = {}
    <3>1. DOMAIN calls = 1 .. Len(calls)
      BY <2>11, StackType
    <3>. QED  BY <3>1, <2>1, <2>3 DEF ActiveFns
  <2>16. WalksDisjoint'
    <3>. SUFFICES ASSUME NEW d \in 1 .. Len(calls) + 1, NEW e \in 1 .. Len(calls) + 1, d # e
                  PROVE  Range(calls'[d].sorted) \cap Range(calls'[e].sorted) = {}
      BY <2>12 DEF WalksDisjoint
    <3>1. \A i \in 1 .. Len(calls) + 1 :
             \/ i \in 1 .. Len(calls) /\ calls'[i].sorted = calls[i].sorted
             \/ i = Len(calls) + 1 /\ calls'[i].sorted = order
      BY <2>8, <2>11, <2>12
    <3>2. CASE d \in 1 .. Len(calls) /\ e \in 1 .. Len(calls)
      BY <3>2, <2>12 DEF IInv, WalksDisjoint
    <3>3. CASE ~(d \in 1 .. Len(calls) /\ e \in 1 .. Len(calls))
      BY <3>1, <3>3, <2>15
    <3>. QED  BY <3>2, <3>3
  <2>17. OutermostIsClean'
    <3>1. calls' # <<>> /\ (Idle <=> Len(calls) = 0)
      BY <2>11, <2>12, StackType DEF Idle
    <3>2. CASE Idle
      BY <3>1, <3>2, <2>8, <2>12 DEF IInv, OutermostIsClean, Idle, NoGrads
    <3>3. CASE ~Idle
      BY <3>1, <3>3, <2>11, <2>12 DEF IInv, OutermostIsClean, Idle, NoGrads
    <3>. QED  BY <3>2, <3>3
  <2>. QED  BY <1>2, <2>14, <2>16, <2>17 DEF IInv
<1>. QED  BY <1>4, <1>5
-----------------------------------------------------------------------------
(* What cleanup_graph does to the Functions: those torn down are unshared  *)
(* Functions of the walk.                                                  *)
LEMMA CleanupFacts ==
    ASSUME IInv, ~Idle, CleanupGraph(Top), NEW t, t = Top
    PROVE  \E torn \in SUBSET Range(t.sorted) :
              /\ torn = (IF t.retain THEN {} ELSE t.unshared)
              /\ DOMAIN next' = Fn
              /\ \A f \in Fn : next'[f] = IF f \in torn THEN <<>> ELSE next[f]
              /\ \A f \in Fn : inputs'[f] = IF f \in torn THEN <<>> ELSE inputs[f]
              /\ \A f \in Fn : parents'[f] = parents[f] - Edges(next, torn, f)
<1>1. PICK torn : torn = (IF t.retain THEN {} ELSE t.unshared)
  OBVIOUS
<1>2. torn \in SUBSET Range(t.sorted)
  BY <1>1, TopFacts DEF CallInv, CallShape
<1>3. /\ inputs' = [f \in Fn |-> IF f \in torn THEN <<>> ELSE inputs[f]]
      /\ next' = [f \in Fn |-> IF f \in torn THEN <<>> ELSE next[f]]
      /\ parents' = [f \in Fn |-> parents[f] - Edges(next, torn, f)]
  BY <1>1 DEF CleanupGraph
<1>. QED  BY <1>1, <1>2, <1>3

(* A call ends: its Functions are torn down, and the calls around it go    *)
(* on, the innermost of them perhaps with an exception.                    *)
LEMMA CallEnds ==
    ASSUME IInv, ~Idle, UNCHANGED <<scenario, created, saved>>,
           CleanupGraph(Top), RestoreAccumulators(Top),
           IsStack(calls'), Len(calls') = Len(calls) - 1,
           \A i \in 1 .. Len(calls) - 1 :
              \/ calls'[i] = calls[i]
              \/ calls'[i] = [calls[i] EXCEPT !.phase = "unwinding"]
    PROVE  IInv'
<1>1. PICK t : t = Top
  OBVIOUS
<1>2. /\ IsStack(calls) /\ Len(calls) \in 1 .. Len(calls) /\ Len(calls) \in Nat
      /\ 1 \in 1 .. Len(calls) /\ CallInv(t) /\ t = calls[Len(calls)]
  BY <1>1, TopFacts DEF Top
<1>3. PICK torn \in SUBSET Range(t.sorted) :
              /\ DOMAIN next' = Fn
              /\ \A f \in Fn : next'[f] = IF f \in torn THEN <<>> ELSE next[f]
              /\ \A f \in Fn : parents'[f] = parents[f] - Edges(next, torn, f)
  BY <1>1, CleanupFacts
<1>4. torn \in SUBSET Fn
  BY <1>2 DEF CallInv, CallShape, Range
<1>5. GraphShape'
  BY <1>3 DEF IInv, GraphShape
<1>6. ASSUME NEW f \in Fn PROVE parents'[f] = Edges(next', Fn, f)
  <2>1. PICK R : R = Fn \ torn
    OBVIOUS
  <2>2. R \in SUBSET Fn /\ R \cap torn = {} /\ R \cup torn = Fn
    BY <1>4, <2>1
  <2>3. Edges(next', Fn, f) = Edges(next', R, f) + Edges(next', torn, f)
    BY <1>4, <2>2, EdgesSplit
  <2>4. Edges(next, Fn, f) = Edges(next, R, f) + Edges(next, torn, f)
    BY <1>4, <2>2, EdgesSplit
  <2>5. Edges(next', R, f) = Edges(next, R, f)
    <3>1. \A g \in R : next'[g] = next[g]
      BY <1>3, <2>2
    <3>. QED  BY <3>1, <2>2, EdgesSame
  <2>6. Edges(next', torn, f) = 0
    <3>1. \A g \in torn : next'[g] = <<>>
      BY <1>3, <1>4
    <3>. QED  BY <3>1, <1>4, EdgesNone
  <2>7. Edges(next, R, f) \in Nat /\ Edges(next, torn, f) \in Nat
    BY <1>4, <2>2, EdgeSetFinite
  <2>8. parents[f] = Edges(next, Fn, f) /\ parents'[f] = parents[f] - Edges(next, torn, f)
    BY <1>3 DEF IInv, ParentCountMatchesEdges
  <2>. QED  BY <2>3, <2>4, <2>5, <2>6, <2>7, <2>8
<1>7. ParentCountMatchesEdges'
  BY <1>6 DEF ParentCountMatchesEdges
<1>8. ASSUME NEW d \in 1 .. Len(calls) - 1, NEW c, c = calls[d]
      PROVE  CallInv(c)'
  <2>1. d \in 1 .. Len(calls) /\ d # Len(calls)
    BY <1>2
  <2>2. CallInv(c) /\ Range(c.sorted) \cap Range(t.sorted) = {}
    BY <1>2, <1>8, <2>1 DEF IInv, CallsInv, WalksDisjoint
  <2>3. \A g \in Fn \cap torn : Children(next, Null, g) \cap Range(c.sorted) = {}
    BY <1>2, <2>2, WalkIsClosed
  <2>4. \A g \in Fn : next'[g] = next[g] \/ (g \in torn /\ next'[g] = <<>>)
    BY <1>3
  <2>. QED  BY <2>2, <2>3, <2>4, CallKept
<1>9. ASSUME NEW d \in 1 .. Len(calls) - 1
      PROVE  /\ CallInv(calls[d])'
             /\ calls'[d].sorted = calls[d].sorted
             /\ calls'[d].saved_accum = calls[d].saved_accum
  <2>1. PICK c : c = calls[d]
    OBVIOUS
  <2>2. CallInv(c)' /\ CallShape(c)
    BY <1>8, <2>1 DEF CallInv, CallShape
  <2>3. CASE calls'[d] = c
    BY <2>1, <2>2, <2>3
  <2>4. CASE calls'[d] = [c EXCEPT !.phase = "unwinding"]
    <3>1. PICK e : e = [c EXCEPT !.phase = "unwinding"]
      OBVIOUS
    <3>2. /\ e \in {[roots |-> c.roots, retain |-> c.retain, sorted |-> c.sorted, pos |-> c.pos,
                     phase |-> "unwinding", unshared |-> c.unshared,
                     saved_accum |-> c.saved_accum]}
          /\ c.pos \in 0 .. Len(c.sorted)
      BY <2>2, <3>1 DEF CallShape
    <3>3. /\ CallShape(e) /\ e.pos = c.pos /\ e.retain = c.retain /\ e.sorted = c.sorted
          /\ e.unshared = c.unshared /\ e.saved_accum = c.saved_accum
      BY <2>2, <3>2, Moved
    <3>4. CallInv(e)'
      BY <2>2, <3>3 DEF CallInv, CallShape, ClassifiedRight, PassedReleased
    <3>. QED  BY <2>1, <2>4, <3>1, <3>3, <3>4
  <2>. QED  BY <2>1, <2>3, <2>4
<1>10. CallsInv'
  BY <1>9 DEF CallsInv
<1>11. WalksDisjoint'
  <2>. SUFFICES ASSUME NEW d \in 1 .. Len(calls) - 1, NEW e \in 1 .. Len(calls) - 1, d # e
                PROVE  Range(calls'[d].sorted) \cap Range(calls'[e].sorted) = {}
    BY DEF WalksDisjoint
  <2>1. d \in 1 .. Len(calls) /\ e \in 1 .. Len(calls)
    BY <1>2
  <2>. QED  BY <1>9, <2>1 DEF IInv, WalksDisjoint
<1>12. OutermostIsClean'
  <2>1. calls' = <<>> <=> Len(calls) - 1 = 0
    BY StackType
  <2>2. calls[1].saved_accum = NoGrads /\ NoGrads' = NoGrads
    BY DEF IInv, OutermostIsClean, NoGrads
  <2>3. CASE Len(calls) = 1
    BY <1>1, <1>2, <2>1, <2>2, <2>3 DEF OutermostIsClean, Idle, RestoreAccumulators
  <2>4. CASE Len(calls) # 1
    <3>1. 1 \in 1 .. Len(calls) - 1
      BY <1>2, <2>4
    <3>. QED  BY <1>2, <1>9, <2>1, <2>2, <2>4, <3>1 DEF OutermostIsClean, Idle
  <2>. QED  BY <2>3, <2>4
<1>. QED  BY <1>5, <1>7, <1>10, <1>11, <1>12 DEF IInv

(* A call returns or throws. *)
LEMMA EndKeeps ==
    ASSUME IInv, UNCHANGED scenario, Return \/ Throw
    PROVE  IInv'
<1>1. /\ ~Idle /\ UNCHANGED <<created, saved>>
      /\ CleanupGraph(Top) /\ RestoreAccumulators(Top)
  BY DEF Return, Throw
<1>2. /\ IsStack(calls) /\ calls # <<>> /\ Len(calls) \in Nat /\ Len(calls) \in 1 .. Len(calls)
  BY <1>1, TopFacts
<1>3. PICK o : o = Outer
  OBVIOUS
<1>4. IsStack(o) /\ Len(o) = Len(calls) - 1 /\ \A i \in 1 .. Len(calls) - 1 : o[i] = calls[i]
  <2>1. o \in {SubSeq(calls, 1, Len(calls) - 1)}
    BY <1>3 DEF Outer
  <2>. QED  BY <1>2, <2>1, StackPop
<1>5. CASE calls' = o
  BY <1>1, <1>4, <1>5, CallEnds
<1>6. CASE calls' # o
  <2>1. Throw
    BY <1>3, <1>6 DEF Return
  <2>2. CASE Len(calls) = 1
    <3>1. calls' = <<>> /\ o = <<>>
      BY <2>1, <2>2, <1>4, StackType DEF Throw
    <3>. QED  BY <3>1, <1>6
  <2>3. CASE Len(calls) # 1
    <3>1. calls' = [o EXCEPT ![Len(calls) - 1].phase = "unwinding"]
      BY <2>1, <2>3, <1>3 DEF Throw
    <3>2. DOMAIN calls' = DOMAIN o /\ calls' = [i \in DOMAIN calls' |-> calls'[i]]
      BY <3>1
    <3>3. IsStack(calls') /\ Len(calls') = Len(calls) - 1
      BY <1>4, <3>2, StackSet
    <3>4. \A i \in 1 .. Len(calls) - 1 : \/ calls'[i] = calls[i]
                                         \/ calls'[i] = [calls[i] EXCEPT !.phase = "unwinding"]
      <4>1. DOMAIN o = 1 .. Len(calls) - 1
        BY <1>4, StackType
      <4>. QED  BY <1>4, <3>1, <4>1
    <3>. QED  BY <1>1, <3>3, <3>4, CallEnds
  <2>. QED  BY <2>2, <2>3
<1>. QED  BY <1>5, <1>6
-----------------------------------------------------------------------------
(* Every step keeps the invariant, ... *)
LEMMA StepKeeps ==
    ASSUME IInv, Next, UNCHANGED scenario
    PROVE  IInv'
<1>1. CASE ApplyAny
  <2>1. PICK n \in 1 .. MaxInputs, k \in scenario.kinds :
            \E ins \in [1 .. n -> held] : Apply(ins, k)
    BY <1>1 DEF ApplyAny
  <2>. QED  BY <2>1, ApplyKeeps
<1>2. CASE UserCall
  BY <1>2, UserCallKeeps
<1>3. CASE ExecuteAny
  <2>1. PICK k \in 1 .. scenario.roots, retain \in BOOLEAN :
            \E rs \in [1 .. k -> held] : Execute(rs, retain)
    BY <1>3 DEF ExecuteAny
  <2>. QED  BY <2>1, ExecuteKeeps
<1>4. CASE EngineStep
  BY <1>4, WalkKeeps, EndKeeps DEF EngineStep
<1>. QED  BY <1>1, <1>2, <1>3, <1>4 DEF Next

(* ... stuttering does, ... *)
LEMMA StutterKeeps ==
    ASSUME IInv, UNCHANGED <<vars, scenario>>
    PROVE  IInv'
<1>1. UNCHANGED <<scenario, created, next, parents, saved, calls, accum>>
  BY DEF vars
<1>2. GraphShape' /\ ParentCountMatchesEdges' /\ WalksDisjoint' /\ OutermostIsClean'
  BY <1>1 DEF IInv, GraphShape, ParentCountMatchesEdges, WalksDisjoint, OutermostIsClean,
              Idle, NoGrads
<1>3. CallsInv'
  BY <1>1 DEF IInv, CallsInv, CallInv, CallShape, ClassifiedRight, HasParentOutside,
              PassedReleased
<1>. QED  BY <1>2, <1>3 DEF IInv

(* ... and so it holds throughout. *)
THEOREM Inductive == Spec => []IInv
<1>1. IInv /\ [Next /\ UNCHANGED scenario]_<<vars, scenario>> => IInv'
  <2>. SUFFICES ASSUME IInv, [Next /\ UNCHANGED scenario]_<<vars, scenario>> PROVE IInv'
    OBVIOUS
  <2>1. CASE Next /\ UNCHANGED scenario
    BY <2>1, StepKeeps
  <2>2. CASE UNCHANGED <<vars, scenario>>
    BY <2>2, StutterKeeps
  <2>. QED  BY <2>1, <2>2
<1>. QED  BY <1>1, Initially, PTL DEF Spec

(* parent_count_ is the number of edges installed and not removed, across  *)
(* operations and across teardown by calls that return or throw.           *)
(* (set_next_functions, clear_next_functions)                              *)
THEOREM CountsAreExact == Spec => []ParentCountMatchesEdges
<1>1. IInv => ParentCountMatchesEdges
  BY DEF IInv
<1>. QED  BY <1>1, Inductive, PTL

(* Between calls the engine's accumulators are empty, however the calls    *)
(* before ended and nested.  (the scope guards of execute_multi)           *)
THEOREM NothingLeftOver == Spec => []NoLeftoverGradients
<1>1. IInv => NoLeftoverGradients
  BY DEF IInv, OutermostIsClean, NoLeftoverGradients
<1>. QED  BY <1>1, Inductive, PTL

(* A Function's backward() runs only when no Function that still has to    *)
(* run in that walk feeds it.  (the reverse loop over sorted)              *)
THEOREM GradientIsComplete == Spec => []ConsumersRunFirst
<1>1. ASSUME IInv PROVE ConsumersRunFirst
  <2>. SUFFICES ASSUME NEW d \in DOMAIN calls, calls[d].phase = "call",
                       NEW p \in 1 .. calls[d].pos
                PROVE  FunctionAt(calls[d]) \notin
                         Children(next, Null, FunctionAt([calls[d] EXCEPT !.pos = p]))
    BY DEF ConsumersRunFirst
  <2>1. PICK c : c = calls[d]
    OBVIOUS
  <2>2. d \in 1 .. Len(calls)
    BY <1>1, StackType DEF IInv, CallsInv
  <2>3. CallInv(c) /\ CallShape(c)
    BY <1>1, <2>1, <2>2 DEF IInv, CallsInv, CallInv
  <2>4. [c EXCEPT !.pos = p].pos = p /\ [c EXCEPT !.pos = p].sorted = c.sorted
    BY <2>3 DEF CallShape
  <2>5. FunctionAt(c) = c.sorted[c.pos] /\ FunctionAt([c EXCEPT !.pos = p]) = c.sorted[p]
    BY <2>4 DEF FunctionAt
  <2>6. /\ p \in DOMAIN c.sorted /\ c.pos \in DOMAIN c.sorted /\ p <= c.pos
        /\ DOMAIN c.sorted \subseteq Nat
    BY <2>1, <2>3 DEF CallShape
  <2>7. c.sorted[c.pos] \notin Children(next, Null, c.sorted[p])
    <3>. SUFFICES ASSUME c.sorted[c.pos] \in Children(next, Null, c.sorted[p]) PROVE FALSE
      OBVIOUS
    <3>1. PICK q \in DOMAIN c.sorted : q < p /\ c.sorted[q] = c.sorted[c.pos]
      BY <2>3, <2>6 DEF CallInv, ChildrenFirst
    <3>2. q = c.pos
      BY <2>3, <2>6, <3>1 DEF CallShape, IsInjective
    <3>. QED  BY <2>6, <3>1, <3>2
  <2>. QED  BY <2>1, <2>5, <2>7
<1>. QED  BY <1>1, Inductive, PTL

(* Edges from outside the walk, counted, are a parent outside the walk. *)
LEMMA OutsideEdges ==
    ASSUME IInv, NEW t, CallShape(t), NEW f \in Fn
    PROVE  /\ Edges(next, Fn \ Range(t.sorted), f) \in Nat
           /\ Edges(next, Fn \ Range(t.sorted), f) # 0
                <=> HasParentOutside(Range(t.sorted), f)
<1>1. PICK R : R = Fn \ Range(t.sorted)
  OBVIOUS
<1>2. R \in SUBSET Fn /\ \A g \in R : DOMAIN next[g] \subseteq 1 .. MaxInputs
  BY <1>1 DEF IInv, GraphShape
<1>3. Edges(next, R, f) \in Nat
  BY <1>2, EdgeSetFinite
<1>4. Edges(next, R, f) # 0 <=> \E g \in R : f \in Children(next, Null, g)
  BY <1>2, EdgesPositive
<1>. QED  BY <1>1, <1>3, <1>4 DEF HasParentOutside

(* The engine never releases or tears down a Function that has a parent    *)
(* outside the walk.  (compute_unshared_functions, cleanup_graph)          *)
THEOREM SharedSurvive == Spec => DirectlySharedSurvives
<1>1. ASSUME IInv, Next, UNCHANGED scenario, NEW f \in Fn, ~Idle,
             Edges(next, Fn \ Range(Top.sorted), f) > 0
      PROVE  next'[f] = next[f] /\ inputs'[f] = inputs[f] /\ saved'[f] = saved[f]
  <2>1. PICK t : t = Top
    OBVIOUS
  <2>2. CallInv(t) /\ CallShape(t)
    BY <1>1, <2>1, TopFacts DEF CallInv
  <2>3. HasParentOutside(Range(t.sorted), f)
    BY <1>1, <2>1, <2>2, OutsideEdges
  <2>4. f \notin t.unshared
    BY <2>2, <2>3 DEF CallInv, CallShape, ClassifiedRight
  <2>5. CASE ApplyAny
    BY <1>1, <2>5 DEF ApplyAny, Apply
  <2>6. CASE UserCall
    BY <1>1, <2>6 DEF UserCall, UserOp, ZeroGrad, RetainGrad, RegisterHook, ModifyInPlace,
                      DropHandle
  <2>7. CASE ExecuteAny
    BY <2>7 DEF ExecuteAny, Execute, graph
  <2>8. CASE EnterFunction
    BY <2>8 DEF EnterFunction, graph
  <2>9. CASE SkipFunction \/ DeliverGradients
    <3>1. ReleaseCurrent /\ UNCHANGED <<next, inputs>>
      BY <2>9 DEF SkipFunction, DeliverGradients, graph
    <3>2. t.pos > 0
      BY <2>1, <2>2, <2>9 DEF SkipFunction, DeliverGradients, InLoop, CallShape
    <3>3. saved'[f] = saved[f]
      BY <1>1, <2>1, <2>4, <3>1, <3>2, ReleaseFacts
    <3>. QED  BY <3>1, <3>3
  <2>10. CASE Return \/ Throw
    <3>1. CleanupGraph(Top) /\ UNCHANGED saved
      BY <2>10 DEF Return, Throw
    <3>2. PICK torn \in SUBSET Range(t.sorted) :
              /\ torn = (IF t.retain THEN {} ELSE t.unshared)
              /\ \A g \in Fn : next'[g] = IF g \in torn THEN <<>> ELSE next[g]
              /\ \A g \in Fn : inputs'[g] = IF g \in torn THEN <<>> ELSE inputs[g]
      BY <1>1, <2>1, <3>1, CleanupFacts
    <3>3. f \notin torn
      BY <2>4, <3>2
    <3>. QED  BY <3>1, <3>2, <3>3
  <2>. QED  BY <1>1, <2>5, <2>6, <2>7, <2>8, <2>9, <2>10 DEF Next, EngineStep
<1>2. IInv /\ [Next /\ UNCHANGED scenario]_<<vars, scenario>> =>
        [\A f \in Fn :
            ~Idle /\ Edges(next, Fn \ Range(Top.sorted), f) > 0 =>
              next'[f] = next[f] /\ inputs'[f] = inputs[f] /\ saved'[f] = saved[f]]_vars
  BY <1>1
<1>. QED  BY <1>2, Inductive, PTL DEF Spec, DirectlySharedSurvives

(* A call that retains nothing and shares nothing frees all of its walk.   *)
(* (cleanup_graph, and the per-Function release of skipped Functions too)  *)
THEOREM WalkIsFreed == Spec => ExclusiveWalkIsFreed
<1>1. ASSUME IInv, Next, UNCHANGED scenario, ~Idle, Top.phase = "loop",
             Top.pos = 0, ~Top.retain,
             \A g \in Range(Top.sorted) : Edges(next, Fn \ Range(Top.sorted), g) = 0,
             NEW f \in Range(Top.sorted)
      PROVE  next'[f] = <<>> /\ inputs'[f] = <<>> /\ saved'[f] = "released"
  <2>1. PICK t : t = Top
    OBVIOUS
  <2>2. CallInv(t) /\ CallShape(t)
    BY <1>1, <2>1, TopFacts DEF CallInv
  <2>3. f \in Fn /\ \E p \in 1 .. Len(t.sorted) : f = t.sorted[p]
    BY <1>1, <2>1, <2>2 DEF CallShape, Range
  <2>4. Return
    <3>1. ~ApplyAny
      BY <1>1 DEF ApplyAny, Apply
    <3>2. ~UserCall
      BY <1>1 DEF UserCall, UserOp, ZeroGrad, RetainGrad, RegisterHook, ModifyInPlace,
                  DropHandle
    <3>3. ~ExecuteAny
      BY <1>1 DEF ExecuteAny, Execute
    <3>4. ~SkipFunction /\ ~EnterFunction /\ ~DeliverGradients /\ ~Throw
      BY <1>1 DEF SkipFunction, EnterFunction, DeliverGradients, Throw, InLoop
    <3>. QED  BY <1>1, <3>1, <3>2, <3>3, <3>4 DEF Next, EngineStep
  <2>5. f \in t.unshared
    <3>1. ~HasParentOutside(Range(t.sorted), f)
      BY <1>1, <2>1, <2>2, <2>3, OutsideEdges
    <3>. QED  BY <1>1, <2>1, <2>2, <3>1 DEF CallInv, ClassifiedRight
  <2>6. saved[f] = "released"
    BY <1>1, <2>1, <2>2, <2>3, <2>5 DEF CallInv, PassedReleased
  <2>7. CleanupGraph(Top) /\ UNCHANGED saved
    BY <2>4 DEF Return
  <2>8. PICK torn \in SUBSET Range(t.sorted) :
            /\ torn = (IF t.retain THEN {} ELSE t.unshared)
            /\ \A g \in Fn : next'[g] = IF g \in torn THEN <<>> ELSE next[g]
            /\ \A g \in Fn : inputs'[g] = IF g \in torn THEN <<>> ELSE inputs[g]
    BY <1>1, <2>1, <2>7, CleanupFacts
  <2>9. f \in torn
    BY <1>1, <2>1, <2>5, <2>8
  <2>. QED  BY <2>3, <2>6, <2>7, <2>8, <2>9
<1>2. IInv /\ [Next /\ UNCHANGED scenario]_<<vars, scenario>> =>
        [~Idle /\ Top.phase = "loop" /\ Top.pos = 0 /\ ~Top.retain
         /\ (\A f \in Range(Top.sorted) : Edges(next, Fn \ Range(Top.sorted), f) = 0)
         => \A f \in Range(Top.sorted) :
               next'[f] = <<>> /\ inputs'[f] = <<>> /\ saved'[f] = "released"]_vars
  BY <1>1
<1>. QED  BY <1>2, Inductive, PTL DEF Spec, ExclusiveWalkIsFreed
-----------------------------------------------------------------------------
(***************************************************************************)
(* The second half: the gradients themselves.  The library's induction     *)
(* theorems take an operator and cannot be instantiated here; that a       *)
(* non-empty set of natural numbers has a least member can be had without, *)
(* and gives induction over sets of numbers, and from it what sums over    *)
(* finite sets are.                                                        *)
(***************************************************************************)
(* A non-empty set of natural numbers has a least member. *)
LEMMA LeastNat ==
  ASSUME NEW T, T \subseteq Nat, T # {}
  PROVE  \E x \in T : \A y \in T : x <= y
<1>. DEFINE R == OpToRel(<, Nat)
<1>1. \E x \in T : \A y \in T : ~ (<<y, x>> \in R)
  <2>1. IsWellFoundedOn(R, Nat)
    BY NatLessThanWellFounded, Zenon
  <2>. QED  BY <2>1, WFMin, Zenon
<1>2. PICK x \in T : \A y \in T : ~ (<<y, x>> \in R)
  BY <1>1
<1>3. ASSUME NEW y \in T PROVE x <= y
  <2>1. y \in Nat /\ x \in Nat
    OBVIOUS
  <2>2. ~ (y < x)
    BY <1>2, <2>1 DEF OpToRel
  <2>. QED  BY <2>1, <2>2
<1>. QED  BY <1>3

(* Induction: a set with 0 and the successor of each of its numbers has   *)
(* all of Nat.                                                             *)
LEMMA Induct ==
  ASSUME NEW S, 0 \in S, \A n \in Nat : n \in S => n + 1 \in S
  PROVE  Nat \subseteq S
<1>. SUFFICES ASSUME Nat \ S # {} PROVE FALSE
  OBVIOUS
<1>1. PICK x \in Nat \ S : \A y \in Nat \ S : x <= y
  <2>1. (Nat \ S) \subseteq Nat
    OBVIOUS
  <2>. QED  BY <2>1, LeastNat, Zenon
<1>2. x # 0 /\ x \in Nat
  OBVIOUS
<1>3. x - 1 \in Nat /\ x - 1 < x /\ (x-1)+1 = x
  BY <1>2
<1>4. x - 1 \in S
  BY <1>1, <1>3
<1>. QED  BY <1>3, <1>4

(* The recursion that FoldFunctionOnSet is defined by. *)
Pick(s) == CHOOSE x \in s : TRUE

SumsTo(f, g, s) == g[s] = IF s = {} THEN 0 ELSE f[Pick(s)] + g[s \ {Pick(s)}]
IsFold(f, S, g) ==
  g = [s \in SUBSET S |-> IF s = {} THEN 0 ELSE f[Pick(s)] + g[s \ {Pick(s)}]]
Fold(f, S) == CHOOSE g : IsFold(f, S, g)

(* A sum is such a fold, ... *)
LEMMA SumIsFold ==
  ASSUME NEW f, NEW S
  PROVE  SumFunctionOnSet(f, S) = Fold(f, S)[S]
BY DEF SumFunctionOnSet, FoldFunctionOnSet, MapThenFoldSet, Fold, IsFold, Pick

(* ... which takes members out of a set one by one. *)
LEMMA PickIn ==
  ASSUME NEW S, S # {} PROVE Pick(S) \in S
BY DEF Pick

(* The recursion has a solution on a finite set, ... *)
LEMMA FoldExists ==
  ASSUME NEW f, NEW S, IsFiniteSet(S)
  PROVE  \E g : IsFold(f, S, g)
<1>. DEFINE Sub(n) == {s \in SUBSET S : Cardinality(s) <= n}
            Good(n, g) == /\ g = [s \in Sub(n) |-> g[s]]
                          /\ \A s \in Sub(n) : SumsTo(f, g, s)
            T == {n \in Nat : \E g : Good(n, g)}
<1>0. \A s \in SUBSET S : IsFiniteSet(s) /\ Cardinality(s) \in Nat
  BY FS_Subset, FS_CardinalityType
<1>1. 0 \in T
  <2>1. Sub(0) = {{}}
    BY <1>0, FS_EmptySet
  <2>. DEFINE g == [s \in Sub(0) |-> 0]
  <2>2. Good(0, g)
    BY <2>1 DEF SumsTo
  <2>. QED  BY <2>2
<1>2. ASSUME NEW n \in Nat, n \in T PROVE n + 1 \in T
  <2>1. PICK g : Good(n, g)
    BY <1>2
  <2>. DEFINE h == [s \in Sub(n + 1) |-> IF s = {} THEN 0 ELSE f[Pick(s)] + g[s \ {Pick(s)}]]
  <2>2. \A s \in Sub(n) : s \in Sub(n + 1)
    BY <1>0
  <2>3. \A s \in Sub(n) : h[s] = g[s]
    BY <2>1, <2>2 DEF SumsTo
  <2>4. ASSUME NEW s \in Sub(n + 1), s # {} PROVE s \ {Pick(s)} \in Sub(n)
    <3>1. Pick(s) \in s
      BY <2>4, PickIn
    <3>2. Cardinality(s \ {Pick(s)}) = Cardinality(s) - 1
      BY <3>1, <1>0, FS_RemoveElement
    <3>. QED  BY <3>2, <1>0
  <2>5. \A s \in Sub(n + 1) : SumsTo(f, h, s)
    BY <2>3, <2>4 DEF SumsTo
  <2>6. Good(n + 1, h)
    BY <2>5
  <2>. HIDE DEF h, Good
  <2>7. n + 1 \in Nat
    OBVIOUS
  <2>. QED  BY <2>6, <2>7
<1>3. Cardinality(S) \in T
  <2>. HIDE DEF T
  <2>1. Nat \subseteq T
    BY <1>1, <1>2, Induct
  <2>2. Cardinality(S) \in Nat
    BY <1>0
  <2>. QED  BY <2>1, <2>2
<1>4. PICK g : Good(Cardinality(S), g)
  BY <1>3
<1>5. Sub(Cardinality(S)) = SUBSET S
  BY FS_Subset
<1>6. g = [s \in SUBSET S |-> g[s]] /\ \A s \in SUBSET S : SumsTo(f, g, s)
  BY <1>4, <1>5
<1>7. IsFold(f, S, g)
  BY <1>6 DEF SumsTo, IsFold
<1>. QED  BY <1>7

(* ... so the fold obeys its equation. *)
LEMMA FoldUnfolds ==
  ASSUME NEW f, NEW S, IsFiniteSet(S)
  PROVE  \A s \in SUBSET S :
           Fold(f, S)[s] = IF s = {} THEN 0 ELSE f[Pick(s)] + Fold(f, S)[s \ {Pick(s)}]
<1>1. \E g : IsFold(f, S, g)
  BY FoldExists
<1>2. PICK g : g = Fold(f, S)
  OBVIOUS
<1>3. IsFold(f, S, g)
  BY <1>1, <1>2 DEF Fold
<1>4. \A s \in SUBSET S : g[s] = IF s = {} THEN 0 ELSE f[Pick(s)] + g[s \ {Pick(s)}]
  BY <1>3 DEF IsFold
<1>. QED  BY <1>2, <1>4

(* Induction over the subsets of a finite set. *)
LEMMA SetInduct ==
  ASSUME NEW S, IsFiniteSet(S), NEW F, {} \in F,
         \A s \in SUBSET S : \A x \in s : s \ {x} \in F => s \in F
  PROVE  S \in F
<1>. DEFINE T == {n \in Nat : \A s \in SUBSET S : Cardinality(s) = n => s \in F}
<1>0. \A s \in SUBSET S : IsFiniteSet(s) /\ Cardinality(s) \in Nat
  BY FS_Subset, FS_CardinalityType
<1>1. 0 \in T
  BY <1>0, FS_EmptySet
<1>2. ASSUME NEW n \in Nat, n \in T PROVE n + 1 \in T
  <2>. SUFFICES ASSUME NEW s \in SUBSET S, Cardinality(s) = n + 1 PROVE s \in F
    OBVIOUS
  <2>0. n + 1 # 0 /\ Cardinality({}) = 0
    BY FS_EmptySet
  <2>1. s # {}
    BY <2>0
  <2>2. PICK x \in s : TRUE
    BY <2>1
  <2>3. Cardinality(s \ {x}) = n
    BY <1>0, FS_RemoveElement
  <2>4. s \ {x} \in F
    BY <1>2, <2>3
  <2>. QED  BY <2>4
<1>3. Nat \subseteq T
  <2>. HIDE DEF T
  <2>. QED  BY <1>1, <1>2, Induct
<1>. QED  BY <1>0, <1>3

(* Two folds agree where both are defined. *)
LEMMA FoldsAgree ==
  ASSUME NEW f, NEW h, NEW S, IsFiniteSet(S), NEW R \in SUBSET S, \A x \in R : f[x] = h[x]
  PROVE  Fold(f, S)[R] = Fold(h, R)[R]
<1>. DEFINE F == {s \in SUBSET R : Fold(f, S)[s] = Fold(h, R)[s]}
<1>0. IsFiniteSet(R)
  BY FS_Subset
<1>1. \A s \in SUBSET R : s \in SUBSET S
  OBVIOUS
<1>. DEFINE T == {n \in Nat : \A s \in SUBSET R : Cardinality(s) <= n => s \in F}
<1>2. \A s \in SUBSET R : IsFiniteSet(s) /\ Cardinality(s) \in Nat
  BY <1>0, FS_Subset, FS_CardinalityType
<1>3. {} \in F
  BY <1>0, <1>1, FoldUnfolds
<1>4. ASSUME NEW s \in SUBSET R, s # {}, s \ {Pick(s)} \in F PROVE s \in F
  <2>1. Pick(s) \in s
    BY <1>4, PickIn
  <2>2. f[Pick(s)] = h[Pick(s)]
    BY <2>1
  <2>. HIDE DEF F, T
  <2>3. Fold(f, S)[s] = f[Pick(s)] + Fold(f, S)[s \ {Pick(s)}]
    BY <1>1, <1>4, FoldUnfolds
  <2>4. Fold(h, R)[s] = h[Pick(s)] + Fold(h, R)[s \ {Pick(s)}]
    <3>1. \A t \in SUBSET R :
            Fold(h, R)[t] = IF t = {} THEN 0 ELSE h[Pick(t)] + Fold(h, R)[t \ {Pick(t)}]
      BY ONLY <1>0, FoldUnfolds
    <3>. QED  BY <3>1, <1>4
  <2>. QED  BY <1>4, <2>2, <2>3, <2>4 DEF F
<1>5. 0 \in T
  BY <1>2, <1>3, FS_EmptySet
<1>6. ASSUME NEW n \in Nat, n \in T PROVE n + 1 \in T
  <2>. SUFFICES ASSUME NEW s \in SUBSET R, Cardinality(s) <= n + 1, s # {} PROVE s \in F
    BY <1>3
  <2>1. Pick(s) \in s
    BY PickIn
  <2>2. Cardinality(s \ {Pick(s)}) = Cardinality(s) - 1
    BY <1>2, <2>1, FS_RemoveElement
  <2>3. s \ {Pick(s)} \in F
    BY <1>2, <1>6, <2>2
  <2>. QED  BY <1>4, <2>3
<1>7. Nat \subseteq T
  <2>. HIDE DEF T
  <2>. QED  BY <1>5, <1>6, Induct
<1>8. R \in F
  BY <1>2, <1>7
<1>. QED  BY <1>8

(* The sum over a set, by the member CHOOSE picks. *)
LEMMA SumStep ==
  ASSUME NEW f, NEW S, IsFiniteSet(S)
  PROVE  /\ SumFunctionOnSet(f, {}) = 0
         /\ S # {} => SumFunctionOnSet(f, S)
                       = f[Pick(S)] + SumFunctionOnSet(f, S \ {Pick(S)})
<1>1. SumFunctionOnSet(f, {}) = 0
  BY SumIsFold, FoldUnfolds, FS_EmptySet
<1>2. ASSUME S # {}
      PROVE  SumFunctionOnSet(f, S) = f[Pick(S)] + SumFunctionOnSet(f, S \ {Pick(S)})
  <2>1. SumFunctionOnSet(f, S) = f[Pick(S)] + Fold(f, S)[S \ {Pick(S)}]
    BY <1>2, SumIsFold, FoldUnfolds
  <2>2. Fold(f, S)[S \ {Pick(S)}] = Fold(f, S \ {Pick(S)})[S \ {Pick(S)}]
    BY FoldsAgree
  <2>. QED  BY <2>1, <2>2, SumIsFold
<1>. QED  BY <1>1, <1>2

(* A sum depends on the terms of the set only, ... *)
LEMMA SumSame ==
  ASSUME NEW S, IsFiniteSet(S), NEW f, NEW h, \A x \in S : f[x] = h[x]
  PROVE  SumFunctionOnSet(f, S) = SumFunctionOnSet(h, S)
<1>1. S \in SUBSET S
  OBVIOUS
<1>. QED  BY <1>1, FoldsAgree, SumIsFold

(* ... and is a natural number when they are. *)
LEMMA SumType ==
  ASSUME NEW S, IsFiniteSet(S), NEW f, \A x \in S : f[x] \in Nat
  PROVE  SumFunctionOnSet(f, S) \in Nat
<1>. DEFINE T == {n \in Nat : \A s \in SUBSET S :
                     Cardinality(s) = n => SumFunctionOnSet(f, s) \in Nat}
<1>1. \A s \in SUBSET S : IsFiniteSet(s) /\ Cardinality(s) \in Nat
  BY FS_Subset, FS_CardinalityType
<1>2. 0 \in T
  BY <1>1, SumStep, FS_EmptySet
<1>3. ASSUME NEW n \in Nat, n \in T PROVE n + 1 \in T
  <2>. SUFFICES ASSUME NEW s \in SUBSET S, Cardinality(s) = n + 1
                PROVE  SumFunctionOnSet(f, s) \in Nat
    OBVIOUS
  <2>0. n + 1 # 0 /\ Cardinality({}) = 0
    BY FS_EmptySet
  <2>1. s # {}
    BY <2>0
  <2>2. Pick(s) \in s
    BY <2>1, PickIn
  <2>3. Cardinality(s \ {Pick(s)}) = n
    <3>1. Cardinality(s \ {Pick(s)}) = Cardinality(s) - 1
      BY <1>1, <2>2, FS_RemoveElement
    <3>. QED  BY <3>1
  <2>4. SumFunctionOnSet(f, s \ {Pick(s)}) \in Nat
    BY <1>3, <2>3
  <2>5. SumFunctionOnSet(f, s) = f[Pick(s)] + SumFunctionOnSet(f, s \ {Pick(s)})
    BY <1>1, <2>1, SumStep
  <2>. QED  BY <2>2, <2>4, <2>5
<1>4. Nat \subseteq T
  <2>. HIDE DEF T
  <2>. QED  BY <1>2, <1>3, Induct
<1>. QED  BY <1>1, <1>4

(* Any member can be taken out first. *)
LEMMA SumRemove ==
  ASSUME NEW S, IsFiniteSet(S), NEW f, \A x \in S : f[x] \in Nat, NEW x \in S
  PROVE  SumFunctionOnSet(f, S) = f[x] + SumFunctionOnSet(f, S \ {x})
<1>. DEFINE Sum(s) == SumFunctionOnSet(f, s)
            T == {n \in Nat : \A s \in SUBSET S : Cardinality(s) = n =>
                                 \A y \in s : Sum(s) = f[y] + Sum(s \ {y})}
<1>1. \A s \in SUBSET S : IsFiniteSet(s) /\ Cardinality(s) \in Nat /\ Sum(s) \in Nat
  BY FS_Subset, FS_CardinalityType, SumType
<1>2. 0 \in T
  BY <1>1, FS_EmptySet
<1>3. ASSUME NEW n \in Nat, n \in T PROVE n + 1 \in T
  <2>. SUFFICES ASSUME NEW s \in SUBSET S, Cardinality(s) = n + 1, NEW y \in s
                PROVE  Sum(s) = f[y] + Sum(s \ {y})
    OBVIOUS
  <2>1. PICK p : p = Pick(s)
    OBVIOUS
  <2>2. p \in s
    BY <2>1, PickIn
  <2>3. Sum(s) = f[p] + Sum(s \ {p})
    BY <1>1, <2>1, <2>2, SumStep
  <2>4. CASE p = y
    BY <2>3, <2>4
  <2>5. CASE p # y
    <3>1. Cardinality(s \ {p}) = n /\ Cardinality(s \ {y}) = n
      BY <1>1, <2>2, FS_RemoveElement
    <3>2. Sum(s \ {p}) = f[y] + Sum((s \ {p}) \ {y})
      BY <1>3, <2>5, <3>1
    <3>3. Sum(s \ {y}) = f[p] + Sum((s \ {y}) \ {p})
      BY <1>3, <2>2, <2>5, <3>1
    <3>4. (s \ {p}) \ {y} = (s \ {y}) \ {p}
      OBVIOUS
    <3>5. f[y] \in Nat /\ f[p] \in Nat /\ Sum((s \ {y}) \ {p}) \in Nat
      BY <1>1, <2>2
    <3>6. PICK c : c = Sum((s \ {y}) \ {p})
      OBVIOUS
    <3>7. Sum(s) = f[p] + (f[y] + c) /\ Sum(s \ {y}) = f[p] + c /\ c \in Nat
      BY <2>3, <3>2, <3>3, <3>4, <3>5, <3>6
    <3>. HIDE DEF Sum, T
    <3>. QED  BY <3>5, <3>7
  <2>. QED  BY <2>4, <2>5
<1>4. Nat \subseteq T
  <2>. HIDE DEF T
  <2>. QED  BY <1>2, <1>3, Induct
<1>. QED  BY <1>1, <1>4

(* A sum of no terms. *)
LEMMA SumEmpty ==
  \A f : SumFunctionOnSet(f, {}) = 0
BY SumStep, FS_EmptySet

(* Terms that are sums can be summed one by one. *)
LEMMA SumPlus ==
  ASSUME NEW S, IsFiniteSet(S), NEW f, NEW h, NEW k,
         \A x \in S : f[x] \in Nat /\ h[x] \in Nat /\ k[x] = f[x] + h[x]
  PROVE  SumFunctionOnSet(k, S) = SumFunctionOnSet(f, S) + SumFunctionOnSet(h, S)
<1>. DEFINE F == {s \in SUBSET S : SumFunctionOnSet(k, s)
                                     = SumFunctionOnSet(f, s) + SumFunctionOnSet(h, s)}
<1>1. {} \in F
  BY SumEmpty
<1>2. ASSUME NEW s \in SUBSET S, NEW x \in s, s \ {x} \in F PROVE s \in F
  <2>1. IsFiniteSet(s) /\ IsFiniteSet(s \ {x})
    BY FS_Subset
  <2>2. \A y \in s : f[y] \in Nat /\ h[y] \in Nat /\ k[y] \in Nat
    OBVIOUS
  <2>3. /\ SumFunctionOnSet(k, s) = k[x] + SumFunctionOnSet(k, s \ {x})
        /\ SumFunctionOnSet(f, s) = f[x] + SumFunctionOnSet(f, s \ {x})
        /\ SumFunctionOnSet(h, s) = h[x] + SumFunctionOnSet(h, s \ {x})
    BY <2>1, <2>2, SumRemove
  <2>4. SumFunctionOnSet(f, s \ {x}) \in Nat /\ SumFunctionOnSet(h, s \ {x}) \in Nat
    BY <2>1, <2>2, SumType
  <2>5. k[x] = f[x] + h[x] /\ f[x] \in Nat /\ h[x] \in Nat
    OBVIOUS
  <2>. QED  BY <1>2, <2>3, <2>4, <2>5
<1>3. S \in F
  <2>. HIDE DEF F
  <2>. QED  BY <1>1, <1>2, SetInduct
<1>. QED  BY <1>3

(* A factor can be taken out. *)
LEMMA SumScale ==
  ASSUME NEW S, IsFiniteSet(S), NEW c \in Nat, NEW f, NEW k,
         \A x \in S : f[x] \in Nat /\ k[x] = c * f[x]
  PROVE  SumFunctionOnSet(k, S) = c * SumFunctionOnSet(f, S)
<1>. DEFINE F == {s \in SUBSET S : SumFunctionOnSet(k, s) = c * SumFunctionOnSet(f, s)}
<1>1. {} \in F
  BY SumEmpty
<1>2. ASSUME NEW s \in SUBSET S, NEW x \in s, s \ {x} \in F PROVE s \in F
  <2>1. IsFiniteSet(s) /\ IsFiniteSet(s \ {x})
    BY FS_Subset
  <2>2. \A y \in s : f[y] \in Nat /\ k[y] \in Nat
    OBVIOUS
  <2>3. /\ SumFunctionOnSet(k, s) = k[x] + SumFunctionOnSet(k, s \ {x})
        /\ SumFunctionOnSet(f, s) = f[x] + SumFunctionOnSet(f, s \ {x})
    BY <2>1, <2>2, SumRemove
  <2>4. PICK a, b : a = f[x] /\ b = SumFunctionOnSet(f, s \ {x}) /\ a \in Nat /\ b \in Nat
    BY <2>1, <2>2, SumType
  <2>5. c * (a + b) = c * a + c * b
    BY <2>4
  <2>. QED  BY <1>2, <2>3, <2>4, <2>5
<1>3. S \in F
  <2>. HIDE DEF F
  <2>. QED  BY <1>1, <1>2, SetInduct
<1>. QED  BY <1>3

(* A sum of zeros. *)
LEMMA SumZero ==
  ASSUME NEW S, IsFiniteSet(S), NEW f, \A x \in S : f[x] = 0
  PROVE  SumFunctionOnSet(f, S) = 0
<1>. DEFINE F == {s \in SUBSET S : SumFunctionOnSet(f, s) = 0}
<1>1. {} \in F
  BY SumEmpty
<1>2. ASSUME NEW s \in SUBSET S, NEW x \in s, s \ {x} \in F PROVE s \in F
  <2>1. IsFiniteSet(s)
    BY FS_Subset
  <2>2. \A y \in s : f[y] \in Nat
    OBVIOUS
  <2>3. SumFunctionOnSet(f, s) = f[x] + SumFunctionOnSet(f, s \ {x})
    BY <2>1, <2>2, SumRemove
  <2>. QED  BY <1>2, <2>3
<1>3. S \in F
  <2>. HIDE DEF F
  <2>. QED  BY <1>1, <1>2, SetInduct
<1>. QED  BY <1>3

(* A sum over a part, as one over the whole. *)
LEMMA SumOfPart ==
  ASSUME NEW S, IsFiniteSet(S), NEW K \in SUBSET S, NEW f, NEW k,
         \A x \in S : f[x] \in Nat /\ k[x] = IF x \in K THEN f[x] ELSE 0
  PROVE  SumFunctionOnSet(f, K) = SumFunctionOnSet(k, S)
<1>. DEFINE F == {s \in SUBSET S : SumFunctionOnSet(f, s \cap K) = SumFunctionOnSet(k, s)}
<1>1. {} \in F
  <2>1. {} \cap K = {}
    OBVIOUS
  <2>. QED  BY <2>1, SumEmpty
<1>2. ASSUME NEW s \in SUBSET S, NEW x \in s, s \ {x} \in F PROVE s \in F
  <2>1. IsFiniteSet(s) /\ IsFiniteSet(s \cap K)
    BY FS_Subset
  <2>2. \A y \in s : f[y] \in Nat /\ k[y] \in Nat
    OBVIOUS
  <2>3. SumFunctionOnSet(k, s) = k[x] + SumFunctionOnSet(k, s \ {x})
    BY <2>1, <2>2, SumRemove
  <2>4. SumFunctionOnSet(k, s \ {x}) \in Nat
    <3>1. IsFiniteSet(s \ {x})
      BY FS_Subset
    <3>. QED  BY <3>1, <2>2, SumType
  <2>5. CASE x \in K
    <3>1. x \in s \cap K /\ (s \cap K) \ {x} = (s \ {x}) \cap K
      BY <2>5
    <3>2. SumFunctionOnSet(f, s \cap K) = f[x] + SumFunctionOnSet(f, (s \cap K) \ {x})
      BY <2>1, <2>2, <3>1, SumRemove
    <3>. QED  BY <1>2, <2>3, <2>5, <3>1, <3>2
  <2>6. CASE x \notin K
    <3>1. s \cap K = (s \ {x}) \cap K
      BY <2>6
    <3>2. k[x] = 0
      BY <2>6
    <3>3. SumFunctionOnSet(k, s) = SumFunctionOnSet(k, s \ {x})
      BY <2>3, <2>4, <3>2
    <3>4. SumFunctionOnSet(f, s \cap K) = SumFunctionOnSet(k, s \ {x})
      BY <1>2, <3>1
    <3>. QED  BY <3>3, <3>4
  <2>. QED  BY <2>5, <2>6
<1>3. S \in F
  <2>. HIDE DEF F
  <2>. QED  BY <1>1, <1>2, SetInduct
<1>4. S \cap K = K
  OBVIOUS
<1>. QED  BY <1>3, <1>4

(* Counting is summing ones. *)
LEMMA CardinalityIsSum ==
  ASSUME NEW S, IsFiniteSet(S), NEW f, \A x \in S : f[x] = 1
  PROVE  Cardinality(S) = SumFunctionOnSet(f, S)
<1>. DEFINE F == {s \in SUBSET S : Cardinality(s) = SumFunctionOnSet(f, s)}
<1>1. {} \in F
  BY SumEmpty, FS_EmptySet
<1>2. ASSUME NEW s \in SUBSET S, NEW x \in s, s \ {x} \in F PROVE s \in F
  <2>1. IsFiniteSet(s) /\ Cardinality(s) \in Nat
    BY FS_Subset, FS_CardinalityType
  <2>2. \A y \in s : f[y] \in Nat
    OBVIOUS
  <2>3. SumFunctionOnSet(f, s) = f[x] + SumFunctionOnSet(f, s \ {x})
    BY <2>1, <2>2, SumRemove
  <2>4. Cardinality(s \ {x}) = Cardinality(s) - 1
    BY <2>1, FS_RemoveElement
  <2>5. f[x] = 1
    OBVIOUS
  <2>. QED  BY <1>2, <2>1, <2>3, <2>4, <2>5
<1>3. S \in F
  <2>. HIDE DEF F
  <2>. QED  BY <1>1, <1>2, SetInduct
<1>. QED  BY <1>3

(* Terms w[i] collected by the place x[i] they go to, ... *)
SumFor(w, I, x, q) == SumFunctionOnSet(w, {i \in I : x[i] = q})

Collected(I, Q, w, x, D, k, m) ==
  /\ \A i \in I : w[i] \in Nat
  /\ \A q \in Q : D[q] \in Nat
  /\ \A q \in Q : k[q] = SumFor(w, I, x, q) * D[q]
  /\ \A i \in I : m[i] = IF x[i] \in Q THEN w[i] * D[x[i]] ELSE 0

(* ... sum up place by place to what they sum up to term by term. *)
LEMMA SumByTarget ==
  ASSUME NEW I, IsFiniteSet(I), NEW Q, IsFiniteSet(Q), NEW w, NEW x, NEW D, NEW k, NEW m,
         Collected(I, Q, w, x, D, k, m)
  PROVE  SumFunctionOnSet(k, Q) = SumFunctionOnSet(m, I)
<1>0. /\ \A i \in I : w[i] \in Nat
      /\ \A q \in Q : D[q] \in Nat
      /\ \A q \in Q : k[q] = SumFor(w, I, x, q) * D[q]
      /\ \A i \in I : m[i] = IF x[i] \in Q THEN w[i] * D[x[i]] ELSE 0
  BY DEF Collected
<1>. DEFINE To(s, q) == {i \in s : x[i] = q}
            kk(s) == [q \in Q |-> SumFunctionOnSet(w, To(s, q)) * D[q]]
            F == {s \in SUBSET I : SumFunctionOnSet(kk(s), Q) = SumFunctionOnSet(m, s)}
<1>1. {} \in F
  <2>1. \A q \in Q : kk({})[q] = 0
    <3>1. \A q \in Q : To({}, q) = {}
      OBVIOUS
    <3>2. SumFunctionOnSet(w, {}) = 0
      BY SumEmpty
    <3>3. \A q \in Q : D[q] \in Nat /\ 0 * D[q] = 0
      BY <1>0
    <3>. QED  BY <3>1, <3>2, <3>3
  <2>2. SumFunctionOnSet(kk({}), Q) = 0
    <3>. HIDE DEF kk
    <3>. QED  BY <2>1, SumZero
  <2>3. SumFunctionOnSet(m, {}) = 0
    BY SumEmpty
  <2>. QED  BY <2>2, <2>3
<1>2. ASSUME NEW s \in SUBSET I, NEW i \in s, s \ {i} \in F PROVE s \in F
  <2>1. /\ IsFiniteSet(s) /\ IsFiniteSet(s \ {i})
        /\ \A q \in Q : IsFiniteSet(To(s, q)) /\ IsFiniteSet(To(s \ {i}, q))
    <3>1. \A q \in Q : To(s, q) \in SUBSET I /\ To(s \ {i}, q) \in SUBSET I
      OBVIOUS
    <3>2. \A u \in SUBSET I : IsFiniteSet(u)
      BY FS_Subset
    <3>. QED  BY <3>1, <3>2
  <2>2. \A j \in s : w[j] \in Nat /\ m[j] \in Nat
    BY <1>0
  <2>3. SumFunctionOnSet(m, s) = m[i] + SumFunctionOnSet(m, s \ {i})
    BY <2>1, <2>2, SumRemove
  <2>4. \A q \in Q : /\ SumFunctionOnSet(w, To(s \ {i}, q)) \in Nat
                     /\ kk(s \ {i})[q] \in Nat /\ kk(s)[q] \in Nat
    <3>1. \A q \in Q : /\ SumFunctionOnSet(w, To(s \ {i}, q)) \in Nat
                       /\ SumFunctionOnSet(w, To(s, q)) \in Nat
      BY <2>1, <2>2, SumType
    <3>2. \A a, b \in Nat : a * b \in Nat
      OBVIOUS
    <3>3. \A q \in Q : D[q] \in Nat
      BY <1>0
    <3>4. \A q \in Q : /\ kk(s \ {i})[q] = SumFunctionOnSet(w, To(s \ {i}, q)) * D[q]
                       /\ kk(s)[q] = SumFunctionOnSet(w, To(s, q)) * D[q]
      OBVIOUS
    <3>. HIDE DEF kk, To
    <3>. QED  BY <3>1, <3>2, <3>3, <3>4
  <2>5. \A q \in Q : q # x[i] => kk(s)[q] = kk(s \ {i})[q]
    <3>1. \A q \in Q : q # x[i] => To(s, q) = To(s \ {i}, q)
      OBVIOUS
    <3>. HIDE DEF To
    <3>. QED  BY <3>1
  <2>6. CASE x[i] \in Q
    <3>1. PICK q : q = x[i]
      OBVIOUS
    <3>2. i \in To(s, q) /\ To(s, q) \ {i} = To(s \ {i}, q) /\ q \in Q
      BY <2>6, <3>1
    <3>3. SumFunctionOnSet(w, To(s, q)) = w[i] + SumFunctionOnSet(w, To(s \ {i}, q))
      <4>1. \A j \in To(s, q) : w[j] \in Nat
        BY <2>2
      <4>2. SumFunctionOnSet(w, To(s, q)) = w[i] + SumFunctionOnSet(w, To(s, q) \ {i})
        <5>. HIDE DEF To
        <5>. QED  BY <2>1, <3>2, <4>1, SumRemove
      <4>. QED  BY <3>2, <4>2
    <3>4. kk(s)[q] = w[i] * D[q] + kk(s \ {i})[q]
      <4>1. PICK a, b, c : /\ a = w[i] /\ b = SumFunctionOnSet(w, To(s \ {i}, q)) /\ c = D[q]
                           /\ a \in Nat /\ b \in Nat /\ c \in Nat
        BY <1>0, <2>2, <2>4, <3>2
      <4>2. (a + b) * c = a * c + b * c
        BY <4>1
      <4>. QED  BY <3>2, <3>3, <4>1, <4>2
    <3>5. m[i] = w[i] * D[q] /\ m[i] \in Nat
      BY <1>0, <2>2, <2>6, <3>1
    <3>. HIDE DEF kk
    <3>6. SumFunctionOnSet(kk(s), Q) = kk(s)[q] + SumFunctionOnSet(kk(s), Q \ {q})
      BY <2>4, <3>2, SumRemove
    <3>7. SumFunctionOnSet(kk(s \ {i}), Q) = kk(s \ {i})[q] + SumFunctionOnSet(kk(s \ {i}), Q \ {q})
      BY <2>4, <3>2, SumRemove
    <3>8. IsFiniteSet(Q \ {q})
      BY FS_Subset
    <3>9. SumFunctionOnSet(kk(s), Q \ {q}) = SumFunctionOnSet(kk(s \ {i}), Q \ {q})
      BY <2>5, <3>1, <3>8, SumSame
    <3>10. SumFunctionOnSet(kk(s \ {i}), Q \ {q}) \in Nat
      BY <2>4, <3>8, SumType
    <3>11. SumFunctionOnSet(kk(s \ {i}), Q) = SumFunctionOnSet(m, s \ {i})
      BY <1>2
    <3>12. SumFunctionOnSet(kk(s), Q) = SumFunctionOnSet(m, s)
      <4>1. kk(s \ {i})[q] \in Nat
        BY <2>4, <3>2
      <4>2. PICK a, b, c : /\ a = kk(s \ {i})[q] /\ b = SumFunctionOnSet(kk(s \ {i}), Q \ {q})
                           /\ c = m[i] /\ a \in Nat /\ b \in Nat /\ c \in Nat
        BY <3>5, <3>10, <4>1
      <4>3. SumFunctionOnSet(kk(s), Q) = (c + a) + b
        BY <3>4, <3>5, <3>6, <3>9, <4>2
      <4>4. SumFunctionOnSet(m, s) = c + (a + b)
        BY <2>3, <3>7, <3>11, <4>2
      <4>. QED  BY <4>2, <4>3, <4>4
    <3>. QED  BY <3>12
  <2>7. CASE x[i] \notin Q
    <3>1. m[i] = 0
      BY <1>0, <2>7
    <3>2. SumFunctionOnSet(kk(s), Q) = SumFunctionOnSet(kk(s \ {i}), Q)
      <4>1. \A q \in Q : kk(s)[q] = kk(s \ {i})[q]
        BY <2>5, <2>7
      <4>. HIDE DEF kk
      <4>. QED  BY <4>1, SumSame
    <3>3. SumFunctionOnSet(m, s \ {i}) \in Nat
      BY <2>1, <2>2, SumType
    <3>. QED  BY <1>2, <2>3, <3>1, <3>2, <3>3
  <2>. QED  BY <2>6, <2>7
<1>3. I \in F
  <2>. HIDE DEF F
  <2>. QED  BY <1>1, <1>2, SetInduct
<1>4. \A q \in Q : k[q] = kk(I)[q]
  BY <1>0 DEF SumFor
<1>5. SumFunctionOnSet(k, Q) = SumFunctionOnSet(kk(I), Q)
  <2>. HIDE DEF kk
  <2>. QED  BY <1>4, SumSame
<1>. QED  BY <1>3, <1>5

-----------------------------------------------------------------------------
(***************************************************************************)
(* A gradient is conserved: what a Variable has and what the active calls  *)
(* still owe it, each Function to be run its gradient times its derivative *)
(* by the Variable, is what it should have in the end.                     *)
(***************************************************************************)

(* The derivative of the output of f by t, given those of f's inputs. *)
DerivativeAt(t, D, f) ==
    SumFunction([i \in 1 .. Returned(f, Len(built[f])) |->
        HookScale(built[f][i]) *
          ((IF built[f][i] = t THEN 1 ELSE 0) +
           (IF built[f][i] \in Fn THEN D[built[f][i]] ELSE 0))])
IsDerivative(t, D) == D = [f \in Fn |-> DerivativeAt(t, D, f)]
Derivative(t) == CHOOSE D : IsDerivative(t, D)

(* An operation is applied to leaves and to results of earlier operations. *)
BuiltInOrder ==
    /\ built = [f \in Fn |-> built[f]]
    /\ \A f \in Fn : built[f] \in Seq(Var)
    /\ \A f \in Fn : \A i \in 1 .. Len(built[f]) : built[f][i] \in Fn => built[f][i] < f
    /\ held \subseteq Leaf \cup 1 .. created

(* A Variable has the Function that made it or none, a leaf has none. *)
GradFnShape ==
    /\ DOMAIN grad_fn = Var
    /\ \A v \in Leaf : grad_fn[v] = Null
    /\ \A v \in Fn : grad_fn[v] \in {v, Null}
    /\ \A f \in Fn : Len(inputs[f]) \in Nat /\ Len(next[f]) \in Nat

Counters ==
    /\ grad \in [Var -> Nat] /\ expected \in [Var -> Nat] /\ accum \in [Fn -> Nat]
    /\ tainted \in BOOLEAN /\ retains \subseteq Var
    /\ \A d \in 1 .. Len(calls) : calls[d].saved_accum \in [Fn -> Nat]

(* The walks of untainted calls are as forward() built them. *)
WalksIntact ==
    ~tainted => \A d \in 1 .. Len(calls) : \A f \in Range(calls[d].sorted) :
                   inputs[f] = built[f] /\ next[f] = BuiltNext[f]

(* The Functions a call has still to run, and what it will deliver to a    *)
(* Variable: their gradients a times their derivatives D by it.            *)
ToRun(c) == {c.sorted[p] : p \in 1 .. c.pos}
OwedBy(c, a, D) == SumFunctionOnSet([f \in Fn |-> a[f] * D[f]], ToRun(c))

(* What all active calls cs will: the gradients of the innermost are in    *)
(* the accumulators a, those of another were set aside by the next.        *)
Owed(cs, a, D) ==
    SumFunctionOnSet([d \in 1 .. Len(cs) |->
                         OwedBy(cs[d], IF d = Len(cs) THEN a ELSE cs[d + 1].saved_accum, D)],
                     1 .. Len(cs))

(* What a Variable has and what the calls still owe it is what it should   *)
(* have in the end.                                                        *)
Conserved ==
    ~tainted => \A t \in Leaf \cup retains :
                   grad[t] + Owed(calls, accum, Derivative(t)) = expected[t]

GradientInv == BuiltInOrder /\ GradFnShape /\ Counters /\ WalksIntact /\ Conserved

-----------------------------------------------------------------------------
(* PathGradient, by way of the derivative. *)
LEMMA PathGradientIs ==
    ASSUME NEW r, NEW t
    PROVE  PathGradient(r, t) = (IF r = t THEN 1 ELSE 0)
                                  + (IF r \in Fn THEN Derivative(t)[r] ELSE 0)
BY DEF PathGradient, Derivative, IsDerivative, DerivativeAt

(* How many gradients backward() returns. *)
LEMMA ReturnedFacts ==
    ASSUME NEW f, NEW n \in Nat
    PROVE  /\ Returned(f, n) \in Nat /\ Returned(f, n) <= n
           /\ IsFiniteSet(1 .. Returned(f, n)) /\ 1 .. Returned(f, n) \subseteq 1 .. n
<1>1. Returned(f, n) \in Nat /\ Returned(f, n) <= n
  BY DEF Returned
<1>2. Returned(f, n) \in Int
  BY <1>1
<1>. QED  BY <1>1, <1>2, FS_Interval

(* The terms of a derivative. *)
Term(t, D, f, i) ==
    HookScale(built[f][i]) *
      ((IF built[f][i] = t THEN 1 ELSE 0) +
       (IF built[f][i] \in Fn THEN D[built[f][i]] ELSE 0))

(* The derivative is their sum. *)
LEMMA DerivativeAtSum ==
    ASSUME NEW t, NEW D, NEW f
    PROVE  DerivativeAt(t, D, f)
             = SumFunctionOnSet([i \in 1 .. Returned(f, Len(built[f])) |-> Term(t, D, f, i)],
                                1 .. Returned(f, Len(built[f])))
BY DEF DerivativeAt, Term, SumFunction

(* A hook's factor and so each term is a natural number. *)
LEMMA HookScaleNat == \A v : HookScale(v) \in Nat
BY DEF HookScale

(* (for a term, when the derivatives it uses are) *)
LEMMA TermNat ==
    ASSUME NEW t, NEW D, NEW f \in Fn, NEW i, built[f][i] \in Fn => D[built[f][i]] \in Nat
    PROVE  Term(t, D, f, i) \in Nat
<1>1. PICK a, b, c : /\ a = HookScale(built[f][i]) /\ b = (IF built[f][i] = t THEN 1 ELSE 0)
                     /\ c = (IF built[f][i] \in Fn THEN D[built[f][i]] ELSE 0)
                     /\ a \in Nat /\ b \in Nat /\ c \in Nat
  BY HookScaleNat
<1>2. a * (b + c) \in Nat
  BY <1>1
<1>. QED  BY <1>1, <1>2 DEF Term

(* It looks at earlier Functions only. *)
LEMMA DerivativeLooksBack ==
    ASSUME BuiltInOrder, NEW t, NEW D, NEW f \in Fn,
           \A g \in Fn : g < f => D[g] \in Nat
    PROVE  /\ DerivativeAt(t, D, f) \in Nat
           /\ \A E : (\A g \in Fn : g < f => D[g] = E[g])
                        => DerivativeAt(t, E, f) = DerivativeAt(t, D, f)
<1>1. PICK n : n = Returned(f, Len(built[f]))
  OBVIOUS
<1>2. built[f] \in Seq(Var) /\ Len(built[f]) \in Nat
  BY DEF BuiltInOrder
<1>3. IsFiniteSet(1 .. n) /\ 1 .. n \subseteq 1 .. Len(built[f])
  BY <1>1, <1>2, ReturnedFacts
<1>4. \A i \in 1 .. n : built[f][i] \in Fn => built[f][i] < f
  BY <1>3 DEF BuiltInOrder
<1>5. \A i \in 1 .. n : Term(t, D, f, i) \in Nat
  BY <1>4, TermNat
<1>6. PICK k : k = [i \in 1 .. n |-> Term(t, D, f, i)]
  OBVIOUS
<1>7. DerivativeAt(t, D, f) = SumFunctionOnSet(k, 1 .. n)
  BY <1>1, <1>6, DerivativeAtSum
<1>8. DerivativeAt(t, D, f) \in Nat
  <2>1. \A i \in 1 .. n : k[i] \in Nat
    BY <1>5, <1>6
  <2>. QED  BY <1>3, <1>7, <2>1, SumType
<1>9. ASSUME NEW E, \A g \in Fn : g < f => D[g] = E[g]
      PROVE  DerivativeAt(t, E, f) = DerivativeAt(t, D, f)
  <2>1. \A i \in 1 .. n : Term(t, D, f, i) = Term(t, E, f, i)
    BY <1>4, <1>9 DEF Term
  <2>2. [i \in 1 .. n |-> Term(t, D, f, i)] = [i \in 1 .. n |-> Term(t, E, f, i)]
    BY <2>1
  <2>3. DerivativeAt(t, E, f) = SumFunctionOnSet([i \in 1 .. n |-> Term(t, E, f, i)], 1 .. n)
    BY <1>1, DerivativeAtSum
  <2>. QED  BY <1>6, <1>7, <2>2, <2>3
<1>. QED  BY <1>8, <1>9

(* There is a derivative: graphs have no cycles. *)
LEMMA DerivativeExists ==
    ASSUME BuiltInOrder, NEW t
    PROVE  \E D : IsDerivative(t, D)
<1>. DEFINE Upto(n) == {f \in Fn : f <= n}
            Good(n, D) == /\ D = [f \in Upto(n) |-> D[f]]
                          /\ \A f \in Upto(n) : D[f] \in Nat /\ D[f] = DerivativeAt(t, D, f)
            T == {n \in Nat : \E D : Good(n, D)}
<1>1. 0 \in T
  <2>1. Upto(0) = {}
    BY FnFacts DEF Fn
  <2>. DEFINE D == [f \in Upto(0) |-> 0]
  <2>2. Good(0, D)
    BY <2>1
  <2>. HIDE DEF D, Good
  <2>. QED  BY <2>2
<1>2. ASSUME NEW n \in Nat, n \in T PROVE n + 1 \in T
  <2>1. PICK D : Good(n, D)
    BY <1>2
  <2>. DEFINE E == [f \in Upto(n + 1) |-> DerivativeAt(t, D, f)]
  <2>2. \A f \in Upto(n) : f \in Upto(n + 1)
    BY FnFacts
  <2>3. \A f \in Upto(n) : E[f] = D[f]
    BY <2>1, <2>2
  <2>4. \A f \in Upto(n + 1) : \A g \in Fn : g < f => g \in Upto(n)
    BY FnFacts
  <2>5. ASSUME NEW f \in Upto(n + 1) PROVE E[f] \in Nat /\ E[f] = DerivativeAt(t, E, f)
    <3>1. \A g \in Fn : g < f => D[g] \in Nat /\ D[g] = E[g]
      BY <2>1, <2>3, <2>4
    <3>2. f \in Fn /\ E[f] = DerivativeAt(t, D, f)
      OBVIOUS
    <3>. HIDE DEF E
    <3>3. DerivativeAt(t, D, f) \in Nat /\ DerivativeAt(t, E, f) = DerivativeAt(t, D, f)
      BY <3>1, <3>2, DerivativeLooksBack
    <3>. QED  BY <3>2, <3>3
  <2>6. Good(n + 1, E)
    BY <2>5
  <2>7. n + 1 \in Nat
    OBVIOUS
  <2>. HIDE DEF E, Good
  <2>. QED  BY <2>6, <2>7
<1>3. MaxFn \in T
  <2>. HIDE DEF T
  <2>. QED  BY <1>1, <1>2, Induct, FnFacts
<1>4. PICK D : Good(MaxFn, D)
  BY <1>3
<1>5. Upto(MaxFn) = Fn
  BY FnFacts DEF Fn
<1>6. D = [f \in Fn |-> D[f]] /\ \A f \in Fn : D[f] = DerivativeAt(t, D, f)
  BY <1>4, <1>5
<1>7. IsDerivative(t, D)
  BY <1>6 DEF IsDerivative
<1>. QED  BY <1>7

(* It is what its definition says, a natural number everywhere. *)
LEMMA DerivativeFacts ==
    ASSUME BuiltInOrder, NEW t
    PROVE  \A f \in Fn : /\ Derivative(t)[f] \in Nat
                         /\ Derivative(t)[f] = DerivativeAt(t, Derivative(t), f)
<1>1. PICK D : D = Derivative(t)
  OBVIOUS
<1>2. IsDerivative(t, D)
  BY <1>1, DerivativeExists DEF Derivative
<1>3. \A f \in Fn : D[f] = DerivativeAt(t, D, f)
  BY <1>2 DEF IsDerivative
<1>. DEFINE T == {n \in Nat : \A f \in Fn : f <= n => D[f] \in Nat}
<1>4. 0 \in T
  BY FnFacts DEF Fn
<1>5. ASSUME NEW n \in Nat, n \in T PROVE n + 1 \in T
  <2>. SUFFICES ASSUME NEW f \in Fn, f <= n + 1 PROVE D[f] \in Nat
    OBVIOUS
  <2>1. \A g \in Fn : g < f => D[g] \in Nat
    BY <1>5, FnFacts
  <2>2. DerivativeAt(t, D, f) \in Nat
    BY <2>1, DerivativeLooksBack
  <2>. QED  BY <1>3, <2>2
<1>6. Nat \subseteq T
  <2>. HIDE DEF T
  <2>. QED  BY <1>4, <1>5, Induct
<1>7. \A f \in Fn : D[f] \in Nat
  BY <1>6, FnFacts DEF Fn
<1>. QED  BY <1>1, <1>3, <1>7

(* A Function's next_functions(), as built, one entry per input. *)
LEMMA BuiltNextFacts ==
    ASSUME BuiltInOrder, NEW f \in Fn
    PROVE  /\ Len(built[f]) \in Nat /\ DOMAIN built[f] = 1 .. Len(built[f])
           /\ DOMAIN BuiltNext[f] = 1 .. Len(built[f]) /\ Len(BuiltNext[f]) = Len(built[f])
           /\ \A i \in 1 .. Len(built[f]) :
                BuiltNext[f][i] = IF built[f][i] \in Fn THEN built[f][i] ELSE Null
<1>1. Len(built[f]) \in Nat /\ DOMAIN built[f] = 1 .. Len(built[f])
  BY DEF BuiltInOrder
<1>2. BuiltNext[f] = [i \in 1 .. Len(built[f]) |->
                        IF built[f][i] \in Fn THEN built[f][i] ELSE Null]
  BY <1>1 DEF BuiltNext
<1>. QED  BY <1>1, <1>2

(* The arithmetic of one term. *)
LEMMA TermArithmetic ==
    \A a, h, c \in Nat : /\ (h * a) * c + h * a = a * (h * (1 + c))
                         /\ (h * a) * c + 0 = a * (h * (0 + c))
                         /\ h * a \in Nat /\ (h * a) * c \in Nat
                         /\ h * (1 + c) \in Nat /\ h * (0 + c) \in Nat
<1>. TAKE a, h, c \in Nat
<1>1. h * (1 + c) = h + h * c
  OBVIOUS
<1>2. a * (h + h * c) = a * h + a * (h * c)
  OBVIOUS
<1>3. (h * a) * c = a * (h * c)
  OBVIOUS
<1>. QED  BY <1>1, <1>2, <1>3

(* What a Function hands to the entries of a list that are x. *)
LEMMA DeliveredSum ==
    ASSUME NEW f, NEW list, NEW x, NEW w, NEW n, n = Returned(f, Len(list)),
           Len(list) \in Nat, \A i \in 1 .. n : w[i] = InputGrad(f, i)
    PROVE  Delivered(f, list, x) = SumFunctionOnSet(w, {i \in 1 .. n : list[i] = x})
<1>1. PICK J : J = {i \in 1 .. n : list[i] = x}
  OBVIOUS
<1>2. IsFiniteSet(J)
  <2>1. IsFiniteSet(1 .. n) /\ J \in SUBSET (1 .. n)
    BY <1>1, ReturnedFacts
  <2>. QED  BY <2>1, FS_Subset
<1>3. PICK k : k = [i \in J |-> InputGrad(f, i)]
  OBVIOUS
<1>4. Delivered(f, list, x) = SumFunctionOnSet(k, J)
  BY <1>1, <1>3 DEF Delivered, SumFunction
<1>5. \A i \in J : k[i] = w[i]
  BY <1>1, <1>3
<1>. QED  BY <1>1, <1>2, <1>4, <1>5, SumSame

(* What a Function delivers is its gradient times its derivative: what     *)
(* goes to its inputs' Functions counts with their derivatives, what goes  *)
(* to t itself counts once.                                                *)
LEMMA Delivery ==
    ASSUME BuiltInOrder, NEW f \in Fn, accum[f] \in Nat,
           inputs[f] = built[f], next[f] = BuiltNext[f], NEW t,
           NEW Q \in SUBSET Fn, Children(next, Null, f) \subseteq Q,
           NEW k, \A g \in Q : k[g] = AccumulateNext(f, g) * Derivative(t)[g]
    PROVE  /\ Delivered(f, inputs[f], t) \in Nat
           /\ \A g \in Q : AccumulateNext(f, g) \in Nat
           /\ SumFunctionOnSet(k, Q) + Delivered(f, inputs[f], t)
                = accum[f] * Derivative(t)[f]
<1>1. PICK D : D = Derivative(t)
  OBVIOUS
<1>2. PICK n : n = Returned(f, Len(built[f]))
  OBVIOUS
<1>3. /\ Len(built[f]) \in Nat /\ DOMAIN next[f] = 1 .. Len(built[f])
      /\ Len(next[f]) = Len(built[f])
      /\ \A i \in 1 .. Len(built[f]) :
           next[f][i] = IF built[f][i] \in Fn THEN built[f][i] ELSE Null
  BY BuiltNextFacts
<1>4. PICK I : I = 1 .. n
  OBVIOUS
<1>5. IsFiniteSet(I) /\ I \subseteq 1 .. Len(built[f])
  BY <1>2, <1>3, <1>4, ReturnedFacts
<1>6. PICK w : w = [i \in I |-> HookScale(built[f][i]) * accum[f]]
  OBVIOUS
<1>7. \A i \in I : w[i] = InputGrad(f, i) /\ w[i] \in Nat
  <2>1. \A i \in I : HookScale(built[f][i]) \in Nat
    BY HookScaleNat
  <2>. QED  BY <1>6, <2>1 DEF InputGrad
<1>8. \A g \in Fn : D[g] \in Nat /\ D[g] = DerivativeAt(t, D, g)
  BY <1>1, DerivativeFacts
<1>9. \A x : /\ AccumulateNext(f, x) = SumFunctionOnSet(w, {i \in I : next[f][i] = x})
             /\ Delivered(f, inputs[f], x) = SumFunctionOnSet(w, {i \in I : built[f][i] = x})
  BY <1>2, <1>3, <1>4, <1>7, DeliveredSum DEF AccumulateNext
<1>10. ASSUME NEW J \in SUBSET I PROVE IsFiniteSet(J) /\ SumFunctionOnSet(w, J) \in Nat
  <2>1. IsFiniteSet(J)
    BY <1>5, FS_Subset
  <2>2. \A i \in J : w[i] \in Nat
    BY <1>7
  <2>. QED  BY <2>1, <2>2, SumType
<1>11. /\ Delivered(f, inputs[f], t) \in Nat
       /\ \A g \in Q : AccumulateNext(f, g) \in Nat
  <2>1. ASSUME NEW x PROVE AccumulateNext(f, x) \in Nat /\ Delivered(f, inputs[f], x) \in Nat
    <3>1. PICK J, K : J = {i \in I : next[f][i] = x} /\ K = {i \in I : built[f][i] = x}
      OBVIOUS
    <3>2. SumFunctionOnSet(w, J) \in Nat /\ SumFunctionOnSet(w, K) \in Nat
      BY <1>10, <3>1
    <3>. QED  BY <1>9, <3>1, <3>2
  <2>. QED  BY <2>1
<1>12. PICK m : m = [i \in I |-> IF next[f][i] \in Q THEN w[i] * D[next[f][i]] ELSE 0]
  OBVIOUS
<1>13. SumFunctionOnSet(k, Q) = SumFunctionOnSet(m, I)
  <2>1. IsFiniteSet(Q)
    BY FnFacts, FS_Subset
  <2>2. PICK x : x = next[f]
    OBVIOUS
  <2>3. \A g \in Q : k[g] = SumFor(w, I, x, g) * D[g]
    BY <1>1, <1>9, <2>2 DEF SumFor
  <2>4. \A i \in I : m[i] = IF x[i] \in Q THEN w[i] * D[x[i]] ELSE 0
    BY <1>12, <2>2
  <2>5. \A g \in Q : D[g] \in Nat
    BY <1>8
  <2>6. \A i \in I : w[i] \in Nat
    BY <1>7
  <2>7. Collected(I, Q, w, x, D, k, m)
    BY <2>3, <2>4, <2>5, <2>6 DEF Collected
  <2>. QED  BY <1>5, <2>1, <2>7, SumByTarget
<1>14. PICK e : e = [i \in I |-> IF built[f][i] = t THEN w[i] ELSE 0]
  OBVIOUS
<1>15. Delivered(f, inputs[f], t) = SumFunctionOnSet(e, I)
  <2>1. PICK K : K = {i \in I : built[f][i] = t}
    OBVIOUS
  <2>2. K \in SUBSET I /\ \A i \in I : w[i] \in Nat /\ e[i] = IF i \in K THEN w[i] ELSE 0
    BY <1>7, <1>14, <2>1
  <2>3. SumFunctionOnSet(w, K) = SumFunctionOnSet(e, I)
    BY <1>5, <2>2, SumOfPart
  <2>. QED  BY <1>9, <2>1, <2>3
<1>16. PICK tm : tm = [i \in I |-> Term(t, D, f, i)]
  OBVIOUS
<1>17. PICK z : z = [i \in I |-> accum[f] * tm[i]]
  OBVIOUS
<1>18. ASSUME NEW i \in I
       PROVE  m[i] \in Nat /\ e[i] \in Nat /\ tm[i] \in Nat /\ z[i] = m[i] + e[i]
  <2>1. PICK a, h, c : /\ a = accum[f] /\ h = HookScale(built[f][i])
                       /\ c = (IF built[f][i] \in Fn THEN D[built[f][i]] ELSE 0)
                       /\ a \in Nat /\ h \in Nat /\ c \in Nat
    BY <1>8, HookScaleNat
  <2>2. /\ tm[i] = h * ((IF built[f][i] = t THEN 1 ELSE 0) + c)
        /\ z[i] = a * tm[i] /\ w[i] = h * a
    BY <1>6, <1>16, <1>17, <2>1 DEF Term
  <2>3. m[i] = IF built[f][i] \in Fn THEN (h * a) * c ELSE 0
    <3>1. CASE built[f][i] \in Fn
      <4>1. next[f][i] = built[f][i] /\ i \in DOMAIN next[f] /\ next[f][i] # Null
        BY <1>3, <1>5, <3>1, FnFacts
      <4>2. next[f][i] \in Q
        BY <4>1 DEF Children
      <4>. QED  BY <1>12, <2>1, <2>2, <3>1, <4>1, <4>2
    <3>2. CASE built[f][i] \notin Fn
      <4>1. next[f][i] = Null /\ Null \notin Q
        BY <1>3, <1>5, <3>2, FnFacts
      <4>. QED  BY <1>12, <3>2, <4>1
    <3>. QED  BY <3>1, <3>2
  <2>4. e[i] = IF built[f][i] = t THEN h * a ELSE 0
    BY <1>14, <2>2
  <2>5. built[f][i] \notin Fn => c = 0
    BY <2>1
  <2>6. m[i] = (h * a) * c
    BY <2>1, <2>3, <2>5
  <2>7. /\ (h * a) * c + h * a = a * (h * (1 + c))
        /\ (h * a) * c + 0 = a * (h * (0 + c))
        /\ h * a \in Nat /\ (h * a) * c \in Nat
        /\ h * (1 + c) \in Nat /\ h * (0 + c) \in Nat
    <3>1. a \in Nat /\ h \in Nat /\ c \in Nat
      BY <2>1
    <3>. QED  BY ONLY <3>1, TermArithmetic
  <2>8. CASE built[f][i] = t
    BY <2>2, <2>4, <2>6, <2>7, <2>8
  <2>9. CASE built[f][i] # t
    BY <2>2, <2>4, <2>6, <2>7, <2>9
  <2>. QED  BY <2>8, <2>9
<1>19. SumFunctionOnSet(z, I) = SumFunctionOnSet(m, I) + SumFunctionOnSet(e, I)
  BY <1>5, <1>18, SumPlus
<1>20. SumFunctionOnSet(z, I) = accum[f] * SumFunctionOnSet(tm, I)
  <2>1. \A i \in I : tm[i] \in Nat /\ z[i] = accum[f] * tm[i]
    BY <1>17, <1>18
  <2>. QED  BY <1>5, <2>1, SumScale
<1>21. SumFunctionOnSet(tm, I) = D[f]
  BY <1>2, <1>4, <1>8, <1>16, DerivativeAtSum
<1>. QED  BY <1>1, <1>11, <1>13, <1>15, <1>19, <1>20, <1>21

(* The seeds of a call: with Q around the roots' Functions they weigh as   *)
(* much as the derivatives of the roots.                                   *)
LEMMA Seeding ==
    ASSUME BuiltInOrder, GradFnShape, NEW n \in Nat, NEW rs \in [1 .. n -> Var],
           \A v \in Range(rs) : v \in Fn => grad_fn[v] = v, NEW t,
           NEW Q \in SUBSET Fn, RootFns(rs) \subseteq Q, NEW k,
           \A g \in Q : k[g] = (IF g \in RootFns(rs) THEN Seed(rs, g) ELSE 0) * Derivative(t)[g]
    PROVE  /\ \A x : Seed(rs, x) \in Nat
           /\ SumFunctionOnSet(k, Q) + Seed(rs, t)
                = SumFunction([i \in DOMAIN rs |-> PathGradient(rs[i], t)])
<1>1. PICK D : D = Derivative(t)
  OBVIOUS
<1>2. \A g \in Fn : D[g] \in Nat
  BY <1>1, DerivativeFacts
<1>3. PICK I : I = 1 .. n
  OBVIOUS
<1>4. IsFiniteSet(I) /\ DOMAIN rs = I
  BY <1>3, FS_Interval
<1>5. PICK w : w = [i \in I |-> 1]
  OBVIOUS
<1>6. ASSUME NEW x PROVE Seed(rs, x) = SumFor(w, I, rs, x) /\ Seed(rs, x) \in Nat
  <2>1. PICK J : J = {i \in I : rs[i] = x}
    OBVIOUS
  <2>2. J \in SUBSET I /\ \A i \in J : w[i] = 1
    BY <1>5, <2>1
  <2>3. IsFiniteSet(J)
    BY <1>4, <2>2, FS_Subset
  <2>4. Cardinality(J) = SumFunctionOnSet(w, J) /\ Cardinality(J) \in Nat
    BY <2>2, <2>3, CardinalityIsSum, FS_CardinalityType
  <2>. QED  BY <1>4, <2>1, <2>4 DEF Seed, SumFor
<1>7. \A i \in I : rs[i] \in Fn <=> rs[i] \in Q
  <2>1. \A i \in I : rs[i] \in Range(rs)
    BY <1>4 DEF Range
  <2>2. ASSUME NEW i \in I, rs[i] \in Fn PROVE rs[i] \in RootFns(rs)
    <3>1. PICK v : v = rs[i]
      OBVIOUS
    <3>2. v \in Range(rs) /\ grad_fn[v] = v /\ v # Null
      BY <2>1, <2>2, <3>1, FnFacts
    <3>. QED  BY <3>1, <3>2 DEF RootFns
  <2>. QED  BY <2>2
<1>8. \A g \in Q : k[g] = SumFor(w, I, rs, g) * D[g]
  <2>1. ASSUME NEW g \in Q, g \notin RootFns(rs) PROVE SumFor(w, I, rs, g) = 0
    <3>1. {i \in I : rs[i] = g} = {}
      <4>1. \A i \in I : rs[i] = g => g \in RootFns(rs)
        BY <1>4, FnFacts DEF RootFns, Range
      <4>. QED  BY <2>1, <4>1
    <3>. QED  BY <3>1, SumEmpty DEF SumFor
  <2>. QED  BY <1>1, <1>6, <2>1
<1>9. PICK m : m = [i \in I |-> IF rs[i] \in Q THEN w[i] * D[rs[i]] ELSE 0]
  OBVIOUS
<1>10. SumFunctionOnSet(k, Q) = SumFunctionOnSet(m, I)
  <2>1. IsFiniteSet(Q)
    BY FnFacts, FS_Subset
  <2>2. Collected(I, Q, w, rs, D, k, m)
    <3>1. \A i \in I : w[i] \in Nat /\ m[i] = IF rs[i] \in Q THEN w[i] * D[rs[i]] ELSE 0
      BY <1>5, <1>9
    <3>2. \A q \in Q : D[q] \in Nat
      BY <1>2
    <3>. QED  BY <1>8, <3>1, <3>2 DEF Collected
  <2>. QED  BY <1>4, <2>1, <2>2, SumByTarget
<1>11. PICK e : e = [i \in I |-> IF rs[i] = t THEN 1 ELSE 0]
  OBVIOUS
<1>12. Seed(rs, t) = SumFunctionOnSet(e, I)
  <2>1. PICK K : K = {i \in I : rs[i] = t}
    OBVIOUS
  <2>2. K \in SUBSET I /\ \A i \in I : w[i] \in Nat /\ e[i] = IF i \in K THEN w[i] ELSE 0
    BY <1>5, <1>11, <2>1
  <2>3. SumFunctionOnSet(w, K) = SumFunctionOnSet(e, I)
    BY <1>4, <2>2, SumOfPart
  <2>. QED  BY <1>6, <2>1, <2>3 DEF SumFor
<1>13. PICK z : z = [i \in I |-> PathGradient(rs[i], t)]
  OBVIOUS
<1>14. ASSUME NEW i \in I PROVE m[i] \in Nat /\ e[i] \in Nat /\ z[i] = m[i] + e[i]
  <2>1. z[i] = (IF rs[i] = t THEN 1 ELSE 0) + (IF rs[i] \in Fn THEN D[rs[i]] ELSE 0)
    BY <1>1, <1>13, PathGradientIs
  <2>2. m[i] = IF rs[i] \in Fn THEN D[rs[i]] ELSE 0
    BY <1>2, <1>5, <1>7, <1>9
  <2>. QED  BY <1>2, <1>11, <2>1, <2>2
<1>15. SumFunctionOnSet(z, I) = SumFunctionOnSet(m, I) + SumFunctionOnSet(e, I)
  BY <1>4, <1>14, SumPlus
<1>16. SumFunction([i \in DOMAIN rs |-> PathGradient(rs[i], t)]) = SumFunctionOnSet(z, I)
  BY <1>4, <1>13 DEF SumFunction
<1>. QED  BY <1>6, <1>10, <1>12, <1>15, <1>16

(* A list of distinct elements of a finite set, as long as it, has all. *)
LEMMA OrderIsComplete ==
    ASSUME IInv, NEW R, NEW order \in TopologicalOrders(next, Null, R)
    PROVE  Range(order) = ReachableFrom(next, Null, R)
<1>1. PICK S : S = ReachableFrom(next, Null, R)
  OBVIOUS
<1>2. S \in SUBSET Fn
  BY <1>1 DEF ReachableFrom, IInv, GraphShape
<1>3. IsFiniteSet(S) /\ Cardinality(S) \in Nat
  BY <1>2, FnFacts, FS_Subset, FS_CardinalityType
<1>4. PICK n : n = Cardinality(S)
  OBVIOUS
<1>5. order \in [1 .. n -> S] /\ IsInjective(order)
  BY <1>1, <1>4 DEF TopologicalOrders
<1>6. IsFiniteSet(1 .. n) /\ Cardinality(1 .. n) = n
  <2>1. n \in Int /\ n \in Nat
    BY <1>3, <1>4
  <2>. QED  BY <2>1, FS_Interval
<1>7. order \in Injection(1 .. n, S)
  BY <1>5 DEF Injection, IsInjective
<1>8. order \in Surjection(1 .. n, S)
  BY <1>3, <1>4, <1>6, <1>7, FS_Injection
<1>. QED  BY <1>1, <1>8 DEF Surjection, Range

(* The graph below roots that are intact is as it was built. *)
LEMMA WalkIsIntact ==
    ASSUME IInv, BuiltInOrder, GradFnShape, NEW rs, Range(rs) \subseteq Var,
           \A v \in Range(rs) : GraphIntact(v),
           NEW f \in ReachableFrom(next, Null, RootFns(rs))
    PROVE  inputs[f] = built[f] /\ next[f] = BuiltNext[f]
<1>1. PICK U : U = {g \in Fn : \E v \in Range(rs) : v \in Fn /\ g \in Below(v)}
  OBVIOUS
<1>2. DOMAIN next = Fn /\ DOMAIN BuiltNext = Fn
  BY DEF IInv, GraphShape, BuiltNext
<1>3. \A g \in U : inputs[g] = built[g] /\ next[g] = BuiltNext[g]
  BY <1>1 DEF GraphIntact, FunctionIntact
<1>4. ASSUME NEW v \in Fn PROVE v \in Below(v)
  BY <1>2 DEF Below, ReachableFrom
<1>5. ASSUME NEW v \in Fn, NEW g \in Below(v), g \in Fn, NEW c \in Children(BuiltNext, Null, g)
      PROVE  c \in Below(v) /\ c \in Fn
  <2>1. c \in Fn
    <3>1. PICK i \in DOMAIN BuiltNext[g] : BuiltNext[g][i] = c /\ c # Null
      BY <1>5 DEF Children
    <3>. QED  BY <1>5, <3>1, BuiltNextFacts
  <2>2. \A S \in SUBSET Fn : {v} \subseteq S /\ Closed(BuiltNext, Null, S) => c \in S
    BY <1>2, <1>5 DEF Below, ReachableFrom, Closed
  <2>. QED  BY <1>2, <2>1, <2>2 DEF Below, ReachableFrom
<1>6. RootFns(rs) \subseteq U
  <2>. SUFFICES ASSUME NEW v \in Range(rs), grad_fn[v] # Null PROVE grad_fn[v] \in U
    BY DEF RootFns
  <2>1. v \in Fn /\ grad_fn[v] = v
    BY DEF GradFnShape, GraphIntact, Var
  <2>. QED  BY <1>1, <1>4, <2>1
<1>7. Closed(next, Null, U)
  <2>. SUFFICES ASSUME NEW g \in U, NEW c \in Children(next, Null, g) PROVE c \in U
    BY DEF Closed
  <2>1. PICK v \in Range(rs) : v \in Fn /\ g \in Below(v) /\ g \in Fn
    BY <1>1
  <2>2. c \in Children(BuiltNext, Null, g)
    BY <1>3 DEF Children
  <2>. QED  BY <1>1, <1>5, <2>1, <2>2
<1>8. f \in U
  <2>1. U \in SUBSET DOMAIN next
    BY <1>1, <1>2
  <2>. QED  BY <1>6, <1>7, <2>1 DEF ReachableFrom
<1>. QED  BY <1>3, <1>8
-----------------------------------------------------------------------------
(* What the sums range over. *)
Weighs(cs, a, D) ==
    /\ IsStack(cs) /\ \A f \in Fn : a[f] \in Nat /\ D[f] \in Nat
    /\ \A d \in 1 .. Len(cs) : /\ ToRun(cs[d]) \in SUBSET Fn
                               /\ \A f \in Fn : cs[d].saved_accum[f] \in Nat

(* The Functions a call has still to run are some of its walk, ... *)
LEMMA ToRunFacts ==
    ASSUME NEW c, CallShape(c)
    PROVE  ToRun(c) \in SUBSET Fn /\ (c.pos = 0 => ToRun(c) = {})
BY DEF CallShape, ToRun

(* ... and what it owes is a natural number. *)
LEMMA OwedByNat ==
    ASSUME NEW c, ToRun(c) \in SUBSET Fn, NEW a, NEW D,
           \A f \in Fn : a[f] \in Nat /\ D[f] \in Nat
    PROVE  OwedBy(c, a, D) \in Nat
<1>1. IsFiniteSet(ToRun(c))
  BY FnFacts, FS_Subset
<1>2. PICK k : k = [f \in Fn |-> a[f] * D[f]]
  OBVIOUS
<1>3. \A f \in ToRun(c) : k[f] \in Nat
  BY <1>2
<1>. QED  BY <1>1, <1>2, <1>3, SumType DEF OwedBy

(* What the outer calls owe. *)
OuterOwed(cs, D) ==
    SumFunctionOnSet([d \in 1 .. Len(cs) - 1 |-> OwedBy(cs[d], cs[d + 1].saved_accum, D)],
                     1 .. Len(cs) - 1)

(* What is owed is what the innermost call and what the outer ones owe. *)
LEMMA OwedSplit ==
    ASSUME NEW cs, NEW a, NEW D, Weighs(cs, a, D), cs # <<>>
    PROVE  /\ Owed(cs, a, D) = OwedBy(cs[Len(cs)], a, D) + OuterOwed(cs, D)
           /\ OwedBy(cs[Len(cs)], a, D) \in Nat /\ OuterOwed(cs, D) \in Nat
<1>1. PICK n : n = Len(cs)
  OBVIOUS
<1>2. n \in Nat /\ n # 0 /\ n \in 1 .. n
  BY <1>1, StackType DEF Weighs
<1>3. PICK k : k = [d \in 1 .. n |-> OwedBy(cs[d], IF d = n THEN a ELSE cs[d + 1].saved_accum, D)]
  OBVIOUS
<1>4. PICK h : h = [d \in 1 .. n - 1 |-> OwedBy(cs[d], cs[d + 1].saved_accum, D)]
  OBVIOUS
<1>5. \A d \in 1 .. n : k[d] \in Nat
  <2>. SUFFICES ASSUME NEW d \in 1 .. n PROVE k[d] \in Nat
    OBVIOUS
  <2>1. PICK b : b = IF d = n THEN a ELSE cs[d + 1].saved_accum
    OBVIOUS
  <2>2. ToRun(cs[d]) \in SUBSET Fn /\ \A f \in Fn : b[f] \in Nat /\ D[f] \in Nat
    <3>1. d # n => d + 1 \in 1 .. n
      BY <1>2
    <3>. QED  BY <1>1, <2>1, <3>1 DEF Weighs
  <2>. QED  BY <1>3, <2>1, <2>2, OwedByNat
<1>6. (1 .. n) \ {n} = 1 .. n - 1 /\ IsFiniteSet(1 .. n) /\ IsFiniteSet(1 .. n - 1)
  <2>1. n \in Int /\ n - 1 \in Int
    BY <1>2
  <2>2. (1 .. n) \ {n} = 1 .. n - 1
    BY <1>2
  <2>. QED  BY <2>1, <2>2, FS_Interval
<1>7. SumFunctionOnSet(k, 1 .. n) = k[n] + SumFunctionOnSet(k, 1 .. n - 1)
  BY <1>2, <1>5, <1>6, SumRemove
<1>8. \A d \in 1 .. n - 1 : k[d] = h[d] /\ h[d] \in Nat
  <2>1. \A d \in 1 .. n - 1 : d \in 1 .. n /\ d # n
    BY <1>2
  <2>. QED  BY <1>3, <1>4, <1>5, <2>1
<1>9. SumFunctionOnSet(k, 1 .. n - 1) = SumFunctionOnSet(h, 1 .. n - 1)
  BY <1>6, <1>8, SumSame
<1>10. SumFunctionOnSet(h, 1 .. n - 1) \in Nat
  BY <1>6, <1>8, SumType
<1>11. k[n] = OwedBy(cs[n], a, D) /\ k[n] \in Nat
  BY <1>2, <1>3, <1>5
<1>12. /\ Owed(cs, a, D) = SumFunctionOnSet(k, 1 .. n)
       /\ OuterOwed(cs, D) = SumFunctionOnSet(h, 1 .. n - 1)
  BY <1>1, <1>3, <1>4 DEF Owed, OuterOwed
<1>. QED  BY <1>1, <1>7, <1>9, <1>10, <1>11, <1>12

(* A change of the innermost call leaves what the outer ones owe, ... *)
LEMMA OuterSame ==
    ASSUME NEW cs, NEW ds, NEW D, Len(cs) \in Nat, Len(ds) = Len(cs),
           \A d \in 1 .. Len(cs) : /\ d # Len(cs) => ToRun(ds[d]) = ToRun(cs[d])
                                   /\ ds[d].saved_accum = cs[d].saved_accum
    PROVE  OuterOwed(ds, D) = OuterOwed(cs, D)
<1>1. PICK n : n = Len(cs)
  OBVIOUS
<1>2. \A d \in 1 .. n - 1 : d \in 1 .. n /\ d # n /\ d + 1 \in 1 .. n
  BY <1>1
<1>3. \A d \in 1 .. n - 1 : OwedBy(ds[d], ds[d + 1].saved_accum, D)
                              = OwedBy(cs[d], cs[d + 1].saved_accum, D)
  BY <1>1, <1>2 DEF OwedBy
<1>4. [d \in 1 .. n - 1 |-> OwedBy(ds[d], ds[d + 1].saved_accum, D)]
        = [d \in 1 .. n - 1 |-> OwedBy(cs[d], cs[d + 1].saved_accum, D)]
  BY <1>3
<1>. QED  BY <1>1, <1>4 DEF OuterOwed

(* ... what all owe is what the outer ones owe once another is pushed that *)
(* sets the accumulators aside.                                            *)
LEMMA OuterIsAll ==
    ASSUME NEW cs, NEW ds, NEW a, NEW D, Len(cs) \in Nat, Len(ds) = Len(cs) + 1,
           ds[Len(cs) + 1].saved_accum = a,
           \A d \in 1 .. Len(cs) : ds[d] = cs[d]
    PROVE  OuterOwed(ds, D) = Owed(cs, a, D)
<1>1. PICK n : n = Len(cs)
  OBVIOUS
<1>2. Len(ds) - 1 = n /\ \A d \in 1 .. n : d # n => d + 1 \in 1 .. n
  BY <1>1
<1>3. \A d \in 1 .. n : OwedBy(ds[d], ds[d + 1].saved_accum, D)
                          = OwedBy(cs[d], IF d = n THEN a ELSE cs[d + 1].saved_accum, D)
  BY <1>1, <1>2
<1>4. [d \in 1 .. n |-> OwedBy(ds[d], ds[d + 1].saved_accum, D)]
        = [d \in 1 .. n |-> OwedBy(cs[d], IF d = n THEN a ELSE cs[d + 1].saved_accum, D)]
  BY <1>3
<1>. QED  BY <1>1, <1>2, <1>4 DEF OuterOwed, Owed

(* A Function of the walk: what it owes, and the rest. *)
LEMMA OwedStep ==
    ASSUME NEW c, CallShape(c), c.pos > 0, NEW e, e.sorted = c.sorted, e.pos = c.pos - 1,
           NEW a, NEW D, \A f \in Fn : a[f] \in Nat /\ D[f] \in Nat
    PROVE  /\ c.sorted[c.pos] \in Fn /\ ToRun(e) \in SUBSET Fn
           /\ c.sorted[c.pos] \notin ToRun(e)
           /\ OwedBy(c, a, D) = a[c.sorted[c.pos]] * D[c.sorted[c.pos]] + OwedBy(e, a, D)
<1>1. PICK f : f = c.sorted[c.pos]
  OBVIOUS
<1>2. /\ c.sorted \in Seq(Fn) /\ IsInjective(c.sorted) /\ c.pos \in 0 .. Len(c.sorted)
      /\ c.pos \in Nat /\ Len(c.sorted) \in Nat /\ DOMAIN c.sorted = 1 .. Len(c.sorted)
  BY DEF CallShape
<1>3. \A p \in 1 .. c.pos : p \in DOMAIN c.sorted /\ c.sorted[p] \in Fn
  BY <1>2
<1>4. c.pos \in 1 .. c.pos /\ f \in Fn
  BY <1>1, <1>2, <1>3
<1>5. \A p \in 1 .. c.pos - 1 : p \in 1 .. c.pos /\ p # c.pos
  BY <1>2
<1>6. ToRun(e) \in SUBSET Fn /\ f \notin ToRun(e)
  <2>1. ToRun(e) = {c.sorted[p] : p \in 1 .. c.pos - 1}
    BY DEF ToRun
  <2>2. \A p \in 1 .. c.pos - 1 : c.sorted[p] \in Fn
    BY <1>3, <1>5
  <2>3. \A p \in 1 .. c.pos - 1 : c.sorted[p] # f
    BY <1>1, <1>2, <1>3, <1>4, <1>5 DEF IsInjective
  <2>. QED  BY <2>1, <2>2, <2>3
<1>7. ToRun(c) \in SUBSET Fn /\ f \in ToRun(c) /\ ToRun(c) \ {f} = ToRun(e)
  <2>1. \A p \in 1 .. c.pos : p = c.pos \/ p \in 1 .. c.pos - 1
    BY <1>2
  <2>. QED  BY <1>1, <1>3, <1>4, <1>5, <1>6, <2>1 DEF ToRun
<1>8. PICK k : k = [g \in Fn |-> a[g] * D[g]]
  OBVIOUS
<1>9. IsFiniteSet(ToRun(c)) /\ \A g \in ToRun(c) : k[g] \in Nat
  <2>1. IsFiniteSet(ToRun(c))
    BY <1>7, FnFacts, FS_Subset
  <2>2. ASSUME NEW g \in ToRun(c) PROVE k[g] \in Nat
    <3>1. PICK x, y : x = a[g] /\ y = D[g] /\ x \in Nat /\ y \in Nat
      BY <1>7
    <3>2. x * y \in Nat
      BY <3>1
    <3>. QED  BY <1>7, <1>8, <3>1, <3>2
  <2>. QED  BY <2>1, <2>2
<1>10. SumFunctionOnSet(k, ToRun(c)) = k[f] + SumFunctionOnSet(k, ToRun(e))
  BY <1>7, <1>9, SumRemove
<1>11. k[f] = a[f] * D[f]
  BY <1>4, <1>8
<1>. QED  BY <1>1, <1>4, <1>6, <1>8, <1>10, <1>11 DEF OwedBy

-----------------------------------------------------------------------------
(* Derivatives change only with what they are defined from. *)
LEMMA DerivativeSame ==
    ASSUME UNCHANGED <<built, kind, hooked>>
    PROVE  \A t : Derivative(t)' = Derivative(t)
<1>. TAKE t
<1>1. \A f, D : DerivativeAt(t, D, f)' = DerivativeAt(t, D, f)
  BY DEF DerivativeAt, Returned, HookScale
<1>2. \A D : IsDerivative(t, D)' <=> IsDerivative(t, D)
  BY <1>1 DEF IsDerivative
<1>. QED  BY <1>2 DEF Derivative

(* The sums are over natural numbers. *)
LEMMA CallsWeigh ==
    ASSUME BuiltInOrder, NEW cs, IsStack(cs),
           \A d \in 1 .. Len(cs) : CallShape(cs[d]) /\ cs[d].saved_accum \in [Fn -> Nat],
           NEW a \in [Fn -> Nat], NEW t
    PROVE  Weighs(cs, a, Derivative(t))
BY DerivativeFacts, ToRunFacts DEF Weighs

(* With no call active nothing is owed. *)
LEMMA NothingOwed ==
    ASSUME NEW a, NEW D PROVE Owed(<<>>, a, D) = 0
<1>1. 1 .. Len(<<>>) = {}
  OBVIOUS
<1>. QED  BY <1>1, SumEmpty DEF Owed

(* At first no gradient is there, expected or owed. *)
LEMMA GradientsInitially == Init => GradientInv
<1>. SUFFICES ASSUME Init PROVE GradientInv
  OBVIOUS
<1>1. BuiltInOrder /\ GradFnShape
  BY FnFacts DEF Init, BuiltInOrder, GradFnShape, Var
<1>2. Counters /\ WalksIntact
  <2>1. 1 .. Len(calls) = {}
    BY DEF Init
  <2>. QED  BY <2>1 DEF Init, Counters, WalksIntact, NoGrads
<1>3. Conserved
  <2>1. \A t : Owed(calls, accum, Derivative(t)) = 0
    BY NothingOwed DEF Init
  <2>. QED  BY <2>1 DEF Init, Conserved, Var
<1>. QED  BY <1>1, <1>2, <1>3 DEF GradientInv

(* An operation is applied to what the program holds. *)
LEMMA ApplyConserves ==
    ASSUME IInv, GradientInv, UNCHANGED scenario, NEW n \in 1 .. MaxInputs, NEW k,
           NEW ins \in [1 .. n -> held], Apply(ins, k)
    PROVE  GradientInv'
<1>1. PICK f : f = created + 1
  OBVIOUS
<1>2. /\ calls = <<>> /\ created' = f /\ created < scenario.fns
      /\ grad_fn' = [grad_fn EXCEPT ![f] = f] /\ held' = held \cup {f}
      /\ built' = [built EXCEPT ![f] = ins]
      /\ inputs' = [inputs EXCEPT ![f] = ins]
      /\ next' = [next EXCEPT ![f] = [i \in DOMAIN ins |-> grad_fn[ins[i]]]]
      /\ UNCHANGED <<grad, retains, accum, calls, expected, tainted>>
  BY <1>1 DEF Apply, Idle
<1>3. f \in Fn /\ f \notin Leaf /\ f \in Nat /\ created \in Nat
  <2>1. scenario.fns \in 0 .. MaxFn /\ created \in 0 .. MaxFn
    BY DEF IInv, GraphShape, Scenario
  <2>2. f \in Fn /\ f \in Nat /\ created \in Nat
    BY <1>1, <1>2, <2>1, FnFacts DEF Fn
  <2>. QED  BY <2>2, LeafAssumption
<1>4. held \subseteq Leaf \cup 1 .. created /\ 1 .. created \subseteq Fn
  BY <1>1, <1>3, FnFacts DEF GradientInv, BuiltInOrder, Fn
<1>5. held \subseteq Var
  BY <1>4 DEF Var
<1>6. BuiltInOrder'
  <2>1. n \in Nat /\ ins \in Seq(Var) /\ Len(ins) = n
    BY <1>5, FnFacts
  <2>2. \A i \in 1 .. n : ins[i] \in Fn => ins[i] < f
    <3>. SUFFICES ASSUME NEW i \in 1 .. n, ins[i] \in Fn PROVE ins[i] < f
      OBVIOUS
    <3>1. ins[i] \in held /\ ins[i] \in Nat
      BY FnFacts
    <3>2. ins[i] \in 1 .. created
      BY <1>4, <3>1, LeafAssumption
    <3>. QED  BY <1>1, <1>3, <3>2
  <2>3. \A g \in Fn : built'[g] = IF g = f THEN ins ELSE built[g]
    BY <1>2, <1>3 DEF GradientInv, BuiltInOrder
  <2>4. built' = [g \in Fn |-> built'[g]]
    BY <1>2, <1>3 DEF GradientInv, BuiltInOrder
  <2>5. held' \subseteq Leaf \cup 1 .. created'
    BY <1>1, <1>2, <1>3, <1>4
  <2>. QED  BY <2>1, <2>2, <2>3, <2>4, <2>5 DEF GradientInv, BuiltInOrder
<1>7. GradFnShape'
  <2>1. /\ DOMAIN grad_fn' = Var /\ \A v \in Leaf : grad_fn'[v] = Null
        /\ \A v \in Fn : grad_fn'[v] \in {v, Null}
    BY <1>2, <1>3 DEF GradientInv, GradFnShape, Var
  <2>2. PICK nx : nx = [i \in DOMAIN ins |-> grad_fn[ins[i]]]
    OBVIOUS
  <2>3. Len(ins) \in Nat /\ Len(nx) \in Nat
    <3>1. n \in Nat /\ ins \in Seq(held) /\ nx \in Seq({grad_fn[v] : v \in held})
      BY <2>2, FnFacts
    <3>. QED  BY <3>1
  <2>4. \A g \in Fn : /\ inputs'[g] = ins \/ inputs'[g] = inputs[g]
                      /\ next'[g] = nx \/ next'[g] = next[g]
    BY <1>2, <2>2
  <2>. QED  BY <2>1, <2>3, <2>4 DEF GradientInv, GradFnShape
<1>8. Counters' /\ WalksIntact'
  BY <1>2 DEF GradientInv, Counters, WalksIntact
<1>9. Conserved'
  <2>1. \A D : Owed(calls, accum, D) = 0
    BY <1>2, NothingOwed
  <2>. QED  BY <1>2, <2>1 DEF GradientInv, Conserved
<1>. QED  BY <1>6, <1>7, <1>8, <1>9 DEF GradientInv

(* The other calls of a program change gradients and what is expected of   *)
(* them alike.                                                             *)
LEMMA UserCallConserves ==
    ASSUME IInv, GradientInv, UserCall, UNCHANGED scenario
    PROVE  GradientInv'
<1>1. PICK v \in held : \/ ZeroGrad(v)
                        \/ RetainGrad(v)
                        \/ RegisterHook(v)
                        \/ ModifyInPlace(v)
                        \/ DropHandle(v)
  BY DEF UserCall
<1>2. /\ calls = <<>> /\ held' \subseteq held
      /\ UNCHANGED <<created, inputs, next, grad_fn, accum, calls, built, tainted>>
  BY <1>1 DEF ZeroGrad, RetainGrad, RegisterHook, ModifyInPlace, DropHandle, UserOp, Idle, graph,
              history
<1>3. BuiltInOrder' /\ GradFnShape' /\ WalksIntact'
  BY <1>2 DEF GradientInv, BuiltInOrder, GradFnShape, WalksIntact
<1>4. \A D : Owed(calls, accum, D) = 0
  BY <1>2, NothingOwed
<1>5. \A t \in Leaf \cup retains : t \in Var
  BY DEF GradientInv, Counters, Var
<1>6. ~tainted => \A t \in Leaf \cup retains : grad[t] = expected[t]
  BY <1>4, <1>5 DEF GradientInv, Conserved, Counters
<1>7. v \in Var
  BY FnFacts DEF GradientInv, BuiltInOrder, IInv, GraphShape, Var, Fn
<1>8. /\ grad' \in [Var -> Nat] /\ expected' \in [Var -> Nat] /\ retains' \subseteq Var
      /\ ~tainted => \A t \in Leaf \cup retains' : grad'[t] = expected'[t]
  <2>1. CASE ZeroGrad(v)
    BY <1>5, <1>6, <1>7, <2>1 DEF ZeroGrad, GradientInv, Counters
  <2>2. CASE RetainGrad(v)
    BY <1>5, <1>6, <1>7, <2>2 DEF RetainGrad, GradientInv, Counters
  <2>3. CASE RegisterHook(v) \/ ModifyInPlace(v) \/ DropHandle(v)
    BY <1>6, <2>3 DEF RegisterHook, ModifyInPlace, DropHandle, GradientInv, Counters, history
  <2>. QED  BY <1>1, <2>1, <2>2, <2>3
<1>9. Counters'
  BY <1>2, <1>8 DEF GradientInv, Counters
<1>10. Conserved'
  <2>1. \A t : Owed(calls', accum', Derivative(t)') = 0
    BY <1>2, <1>4
  <2>2. \A t \in Leaf \cup retains' : grad'[t] \in Nat
    BY <1>8 DEF Var
  <2>. QED  BY <1>2, <1>8, <2>1, <2>2 DEF Conserved
<1>. QED  BY <1>3, <1>9, <1>10 DEF GradientInv

-----------------------------------------------------------------------------
(* The innermost call moves on: the outer ones owe what they owed. *)
LEMMA TopMoves ==
    ASSUME IInv, GradientInv, ~Idle, NEW t, t = Top, NEW e, calls' = SetTop(e),
           e.sorted = t.sorted, e.saved_accum = t.saved_accum
    PROVE  /\ IsStack(calls') /\ Len(calls') = Len(calls) /\ calls'[Len(calls)] = e
           /\ calls' # <<>> /\ Len(calls) \in 1 .. Len(calls)
           /\ \A d \in 1 .. Len(calls) : /\ calls'[d].sorted = calls[d].sorted
                                         /\ calls'[d].saved_accum = calls[d].saved_accum
           /\ \A D : OuterOwed(calls', D) = OuterOwed(calls, D)
<1>1. /\ IsStack(calls) /\ Len(calls) \in 1 .. Len(calls) /\ Len(calls) \in Nat
      /\ calls # <<>> /\ t = calls[Len(calls)]
  BY TopFacts DEF Top
<1>2. /\ IsStack(calls') /\ Len(calls') = Len(calls) /\ calls'[Len(calls)] = e
      /\ \A i \in 1 .. Len(calls) : i # Len(calls) => calls'[i] = calls[i]
  <2>1. calls' = [calls EXCEPT ![Len(calls)] = e]
    BY DEF SetTop
  <2>2. DOMAIN calls' = DOMAIN calls /\ calls' = [i \in DOMAIN calls' |-> calls'[i]]
    BY <2>1
  <2>3. IsStack(calls') /\ Len(calls') = Len(calls)
    BY <1>1, <2>2, StackSet
  <2>. QED  BY <1>1, <2>1, <2>3, StackType
<1>3. \A d \in 1 .. Len(calls) : /\ calls'[d].sorted = calls[d].sorted
                                 /\ calls'[d].saved_accum = calls[d].saved_accum
  BY <1>1, <1>2
<1>4. \A d \in 1 .. Len(calls) : d # Len(calls) => ToRun(calls'[d]) = ToRun(calls[d])
  BY <1>2
<1>5. \A D : OuterOwed(calls', D) = OuterOwed(calls, D)
  BY <1>1, <1>2, <1>3, <1>4, OuterSame
<1>6. calls' # <<>>
  BY <1>1, <1>2, StackType
<1>. QED  BY <1>1, <1>2, <1>3, <1>5, <1>6

(* What it delivers it owes no longer. *)
LEMMA WalkConserves ==
    ASSUME IInv, IInv', GradientInv, ~Idle, NEW c, c = Top, NEW e, calls' = SetTop(e),
           e.sorted = c.sorted, e.saved_accum = c.saved_accum,
           UNCHANGED <<created, inputs, next, kind, grad_fn, retains, hooked, held, built,
                       expected, tainted>>,
           accum' \in [Fn -> Nat], grad' \in [Var -> Nat],
           ~tainted => \A t \in Leaf \cup retains :
              grad'[t] + OwedBy(e, accum', Derivative(t))
                = grad[t] + OwedBy(c, accum, Derivative(t))
    PROVE  GradientInv'
<1>1. /\ IsStack(calls') /\ Len(calls') = Len(calls) /\ calls'[Len(calls)] = e
      /\ calls' # <<>> /\ Len(calls) \in 1 .. Len(calls)
      /\ \A d \in 1 .. Len(calls) : /\ calls'[d].sorted = calls[d].sorted
                                    /\ calls'[d].saved_accum = calls[d].saved_accum
      /\ \A D : OuterOwed(calls', D) = OuterOwed(calls, D)
  BY TopMoves
<1>2. BuiltInOrder' /\ GradFnShape'
  BY DEF GradientInv, BuiltInOrder, GradFnShape
<1>3. Counters'
  BY <1>1 DEF GradientInv, Counters
<1>4. WalksIntact'
  <2>1. BuiltNext' = BuiltNext
    BY DEF BuiltNext
  <2>. QED  BY <1>1, <2>1 DEF GradientInv, WalksIntact
<1>5. ASSUME ~tainted, NEW t \in Leaf \cup retains
      PROVE  grad'[t] + Owed(calls', accum', Derivative(t)) = expected[t]
  <2>1. PICK D : D = Derivative(t)
    OBVIOUS
  <2>2. IsStack(calls) /\ calls # <<>> /\ c = calls[Len(calls)]
    BY TopFacts DEF Top
  <2>3. Weighs(calls, accum, D)
    <3>1. \A d \in 1 .. Len(calls) : CallShape(calls[d]) /\ calls[d].saved_accum \in [Fn -> Nat]
      BY DEF IInv, CallsInv, CallInv, GradientInv, Counters
    <3>. QED  BY <2>1, <2>2, <3>1, CallsWeigh DEF GradientInv, Counters
  <2>4. Weighs(calls', accum', D)
    <3>1. \A d \in 1 .. Len(calls') : CallShape(calls'[d]) /\ calls'[d].saved_accum \in [Fn -> Nat]
      BY <1>3 DEF IInv, CallsInv, CallInv, CallShape, Counters
    <3>. QED  BY <1>1, <2>1, <3>1, CallsWeigh DEF GradientInv
  <2>5. /\ Owed(calls, accum, D) = OwedBy(c, accum, D) + OuterOwed(calls, D)
        /\ OwedBy(c, accum, D) \in Nat /\ OuterOwed(calls, D) \in Nat
    BY <2>2, <2>3, OwedSplit
  <2>6. /\ Owed(calls', accum', D) = OwedBy(e, accum', D) + OuterOwed(calls', D)
        /\ OwedBy(e, accum', D) \in Nat
    BY <1>1, <2>4, OwedSplit
  <2>7. grad[t] \in Nat /\ grad'[t] \in Nat
    BY DEF GradientInv, Counters, Var
  <2>8. /\ grad[t] + Owed(calls, accum, D) = expected[t]
        /\ grad'[t] + OwedBy(e, accum', D) = grad[t] + OwedBy(c, accum, D)
    BY <1>5, <2>1 DEF GradientInv, Conserved
  <2>9. PICK x, y, z : /\ x = OwedBy(c, accum, D) /\ y = OwedBy(e, accum', D)
                       /\ z = OuterOwed(calls, D)
    OBVIOUS
  <2>10. Owed(calls, accum, D) = x + z /\ Owed(calls', accum', D) = y + z
    BY <1>1, <2>5, <2>6, <2>9
  <2>11. x \in Nat /\ y \in Nat /\ z \in Nat
    BY <2>5, <2>6, <2>9
  <2>12. grad[t] + (x + z) = expected[t] /\ grad'[t] + y = grad[t] + x
    BY <2>8, <2>9, <2>10
  <2>13. grad'[t] + (y + z) = expected[t]
    BY <2>7, <2>11, <2>12
  <2>. QED  BY <2>1, <2>10, <2>13
<1>6. Conserved'
  BY <1>5, DerivativeSame DEF Conserved
<1>. QED  BY <1>2, <1>3, <1>4, <1>6 DEF GradientInv

(* A Function without a gradient owes nothing, ... *)
LEMMA SkipConserves ==
    ASSUME IInv, IInv', GradientInv, SkipFunction
    PROVE  GradientInv'
<1>1. PICK c : c = Top
  OBVIOUS
<1>2. ~Idle /\ c.pos > 0 /\ accum[c.sorted[c.pos]] = 0
  BY <1>1 DEF SkipFunction, InLoop, Current, FunctionAt
<1>3. CallShape(c)
  BY <1>1, <1>2, TopFacts DEF CallInv
<1>4. PICK e : e = [c EXCEPT !.pos = c.pos - 1]
  OBVIOUS
<1>5. e.sorted = c.sorted /\ e.saved_accum = c.saved_accum /\ e.pos = c.pos - 1
  BY <1>3, <1>4 DEF CallShape
<1>6. calls' = SetTop(e)
  BY <1>1, <1>4 DEF SkipFunction
<1>7. UNCHANGED <<created, inputs, next, kind, grad_fn, retains, hooked, held, built,
                  expected, tainted, accum, grad>>
  BY DEF SkipFunction, graph, history
<1>8. accum' \in [Fn -> Nat] /\ grad' \in [Var -> Nat]
  BY <1>7 DEF GradientInv, Counters
<1>9. ASSUME NEW t \in Leaf \cup retains
      PROVE  OwedBy(e, accum, Derivative(t)) = OwedBy(c, accum, Derivative(t))
  <2>1. PICK D : D = Derivative(t) /\ \A f \in Fn : D[f] \in Nat
    BY DerivativeFacts DEF GradientInv
  <2>2. \A f \in Fn : accum[f] \in Nat /\ D[f] \in Nat
    BY <2>1 DEF GradientInv, Counters
  <2>3. /\ c.sorted[c.pos] \in Fn /\ ToRun(e) \in SUBSET Fn
        /\ OwedBy(c, accum, D) = accum[c.sorted[c.pos]] * D[c.sorted[c.pos]] + OwedBy(e, accum, D)
    <3>1. c.pos > 0
      BY <1>2
    <3>. QED  BY ONLY <1>3, <1>5, <2>2, <3>1, OwedStep
  <2>4. OwedBy(e, accum, D) \in Nat /\ D[c.sorted[c.pos]] \in Nat
    BY <2>2, <2>3, OwedByNat
  <2>. QED  BY <1>2, <2>1, <2>3, <2>4
<1>10. ~tainted => \A t \in Leaf \cup retains :
              grad'[t] + OwedBy(e, accum', Derivative(t))
                = grad[t] + OwedBy(c, accum, Derivative(t))
  BY <1>7, <1>9
<1>. QED  BY <1>1, <1>2, <1>5, <1>6, <1>7, <1>8, <1>10, WalkConserves

(* ... entering one changes nothing, ... *)
LEMMA EnterConserves ==
    ASSUME IInv, IInv', GradientInv, EnterFunction
    PROVE  GradientInv'
<1>1. PICK c : c = Top
  OBVIOUS
<1>2. ~Idle
  BY DEF EnterFunction, InLoop
<1>3. CallShape(c)
  BY <1>1, <1>2, TopFacts DEF CallInv
<1>4. PICK e : e = [c EXCEPT !.phase = "call"]
  OBVIOUS
<1>5. e.sorted = c.sorted /\ e.saved_accum = c.saved_accum /\ e.pos = c.pos
  BY <1>3, <1>4 DEF CallShape
<1>6. calls' = SetTop(e)
  BY <1>1, <1>4 DEF EnterFunction
<1>7. UNCHANGED <<created, inputs, next, kind, grad_fn, retains, hooked, held, built,
                  expected, tainted, accum, grad>>
  BY DEF EnterFunction, graph, history
<1>8. accum' \in [Fn -> Nat] /\ grad' \in [Var -> Nat]
  BY <1>7 DEF GradientInv, Counters
<1>9. \A D : OwedBy(e, accum, D) = OwedBy(c, accum, D)
  BY <1>5 DEF OwedBy, ToRun
<1>10. ~tainted => \A t \in Leaf \cup retains :
              grad'[t] + OwedBy(e, accum', Derivative(t))
                = grad[t] + OwedBy(c, accum, Derivative(t))
  BY <1>7, <1>9
<1>. QED  BY <1>1, <1>2, <1>5, <1>6, <1>7, <1>8, <1>10, WalkConserves

(* What backward() of a Function hands on is a gradient. *)
LEMMA DeliveredNat ==
    ASSUME NEW f, accum[f] \in Nat, NEW list, Len(list) \in Nat
    PROVE  \A x : Delivered(f, list, x) \in Nat
<1>. TAKE x
<1>1. PICK n : n = Returned(f, Len(list))
  OBVIOUS
<1>2. PICK w : w = [i \in 1 .. n |-> InputGrad(f, i)]
  OBVIOUS
<1>3. PICK J : J = {i \in 1 .. n : list[i] = x}
  OBVIOUS
<1>4. \A i \in J : w[i] \in Nat
  <2>. SUFFICES ASSUME NEW i \in J PROVE w[i] \in Nat
    OBVIOUS
  <2>1. HookScale(inputs[f][i]) \in Nat
    BY HookScaleNat
  <2>. QED  BY <1>2, <1>3, <2>1 DEF InputGrad
<1>5. IsFiniteSet(J)
  <2>1. IsFiniteSet(1 .. n) /\ J \in SUBSET (1 .. n)
    BY <1>1, <1>3, ReturnedFacts
  <2>. QED  BY <2>1, FS_Subset
<1>6. Delivered(f, list, x) = SumFunctionOnSet(w, J)
  <2>1. \A i \in 1 .. n : w[i] = InputGrad(f, i)
    BY <1>2
  <2>. QED  BY <1>1, <1>3, <2>1, DeliveredSum
<1>. QED  BY <1>4, <1>5, <1>6, SumType

(* ... and what a Function owes goes to its inputs and to their Functions. *)
LEMMA DeliverConserves ==
    ASSUME IInv, IInv', GradientInv, DeliverGradients
    PROVE  GradientInv'
<1>1. PICK c : c = Top
  OBVIOUS
<1>2. ~Idle /\ c.phase = "call"
  BY <1>1 DEF DeliverGradients
<1>3. CallInv(c) /\ CallShape(c) /\ c.pos > 0
  BY <1>1, <1>2, TopFacts DEF CallInv, CallShape
<1>4. PICK f : f = c.sorted[c.pos]
  OBVIOUS
<1>5. f = Current
  BY <1>1, <1>4 DEF Current, FunctionAt
<1>6. PICK e : e = [c EXCEPT !.pos = c.pos - 1, !.phase = "loop"]
  OBVIOUS
<1>7. e.sorted = c.sorted /\ e.saved_accum = c.saved_accum /\ e.pos = c.pos - 1
  BY <1>3, <1>6 DEF CallShape
<1>8. calls' = SetTop(e)
  BY <1>1, <1>6 DEF DeliverGradients
<1>9. UNCHANGED <<created, inputs, next, kind, grad_fn, retains, hooked, held, built,
                  expected, tainted>>
  BY DEF DeliverGradients, graph, history
<1>10. /\ grad' = [v \in Var |-> IF KeepsGrad(v) THEN grad[v] + Delivered(f, inputs[f], v)
                                 ELSE grad[v]]
       /\ accum' = [g \in Fn |-> accum[g] + AccumulateNext(f, g)]
  BY <1>5 DEF DeliverGradients
<1>11. /\ c.pos \in DOMAIN c.sorted /\ f \in Fn /\ f \in Range(c.sorted)
  BY <1>3, <1>4 DEF CallShape, Range
<1>12. /\ \A x : Delivered(f, inputs[f], x) \in Nat
       /\ \A x : AccumulateNext(f, x) \in Nat
  <2>1. accum[f] \in Nat /\ Len(inputs[f]) \in Nat /\ Len(next[f]) \in Nat
    BY <1>11 DEF GradientInv, Counters, GradFnShape
  <2>. QED  BY <2>1, DeliveredNat DEF AccumulateNext
<1>13. accum' \in [Fn -> Nat] /\ grad' \in [Var -> Nat]
  BY <1>10, <1>12 DEF GradientInv, Counters
<1>14. ASSUME ~tainted, NEW t \in Leaf \cup retains
       PROVE  grad'[t] + OwedBy(e, accum', Derivative(t))
                = grad[t] + OwedBy(c, accum, Derivative(t))
  <2>1. PICK D : D = Derivative(t) /\ \A g \in Fn : D[g] \in Nat
    BY DerivativeFacts DEF GradientInv
  <2>2. \A g \in Fn : accum[g] \in Nat /\ D[g] \in Nat
    BY <2>1 DEF GradientInv, Counters
  <2>3. /\ c.sorted[c.pos] \in Fn /\ ToRun(e) \in SUBSET Fn
        /\ OwedBy(c, accum, D) = accum[c.sorted[c.pos]] * D[c.sorted[c.pos]] + OwedBy(e, accum, D)
    BY ONLY <1>3, <1>7, <2>2, OwedStep
  <2>4. PICK Q : Q = ToRun(e)
    OBVIOUS
  <2>5. Children(next, Null, f) \subseteq Q
    <3>. SUFFICES ASSUME NEW g \in Children(next, Null, f) PROVE g \in Q
      OBVIOUS
    <3>1. PICK q \in DOMAIN c.sorted : q < c.pos /\ c.sorted[q] = g
      BY <1>3, <1>4, <1>11 DEF CallInv, ChildrenFirst
    <3>2. q \in 1 .. c.pos - 1
      BY <1>3, <3>1 DEF CallShape
    <3>. QED  BY <1>7, <2>4, <3>1, <3>2 DEF ToRun
  <2>6. inputs[f] = built[f] /\ next[f] = BuiltNext[f]
    <3>1. Len(calls) \in 1 .. Len(calls) /\ c = calls[Len(calls)]
      BY <1>1, <1>2, TopFacts DEF Top
    <3>. QED  BY <1>11, <1>14, <3>1 DEF GradientInv, WalksIntact
  <2>7. PICK k : k = [g \in Fn |-> AccumulateNext(f, g) * D[g]]
    OBVIOUS
  <2>8. SumFunctionOnSet(k, Q) + Delivered(f, inputs[f], t) = accum[f] * D[f]
    <3>1. \A g \in Q : k[g] = AccumulateNext(f, g) * Derivative(t)[g]
      BY <2>1, <2>3, <2>4, <2>7
    <3>2. Q \in SUBSET Fn /\ accum[f] \in Nat
      BY <1>11, <2>2, <2>3, <2>4
    <3>. QED  BY <1>11, <2>1, <2>5, <2>6, <3>1, <3>2, Delivery DEF GradientInv
  <2>9. PICK h : h = [g \in Fn |-> accum[g] * D[g]]
    OBVIOUS
  <2>10. PICK m : m = [g \in Fn |-> accum'[g] * D[g]]
    OBVIOUS
  <2>11. \A g \in Q : h[g] \in Nat /\ k[g] \in Nat /\ m[g] = h[g] + k[g]
    <3>. SUFFICES ASSUME NEW g \in Q PROVE h[g] \in Nat /\ k[g] \in Nat /\ m[g] = h[g] + k[g]
      OBVIOUS
    <3>1. PICK x, y, z : /\ x = accum[g] /\ y = AccumulateNext(f, g) /\ z = D[g] /\ g \in Fn
                         /\ x \in Nat /\ y \in Nat /\ z \in Nat
      BY <1>12, <2>2, <2>3, <2>4
    <3>2. h[g] = x * z /\ k[g] = y * z /\ m[g] = (x + y) * z
      BY <1>10, <2>7, <2>9, <2>10, <3>1
    <3>3. x * z \in Nat /\ y * z \in Nat /\ (x + y) * z = x * z + y * z
      BY ONLY <3>1
    <3>. QED  BY <3>2, <3>3
  <2>12. IsFiniteSet(Q)
    BY <2>3, <2>4, FnFacts, FS_Subset
  <2>13. /\ SumFunctionOnSet(m, Q) = SumFunctionOnSet(h, Q) + SumFunctionOnSet(k, Q)
         /\ SumFunctionOnSet(h, Q) \in Nat /\ SumFunctionOnSet(k, Q) \in Nat
    <3>1. SumFunctionOnSet(m, Q) = SumFunctionOnSet(h, Q) + SumFunctionOnSet(k, Q)
      BY <2>11, <2>12, SumPlus
    <3>2. SumFunctionOnSet(h, Q) \in Nat
      BY <2>11, <2>12, SumType
    <3>3. SumFunctionOnSet(k, Q) \in Nat
      BY <2>11, <2>12, SumType
    <3>. QED  BY <3>1, <3>2, <3>3
  <2>14. /\ OwedBy(e, accum, D) = SumFunctionOnSet(h, Q)
         /\ OwedBy(e, accum', D) = SumFunctionOnSet(m, Q)
    BY <2>4, <2>9, <2>10 DEF OwedBy
  <2>15. /\ t \in Var /\ KeepsGrad(t) /\ grad[t] \in Nat
    BY DEF GradientInv, GradFnShape, Counters, KeepsGrad, Var
  <2>16. grad'[t] = grad[t] + Delivered(f, inputs[f], t)
    BY <1>10, <2>15
  <2>17. PICK x, y, z, w, u : /\ x = SumFunctionOnSet(h, Q) /\ y = SumFunctionOnSet(k, Q)
                              /\ z = Delivered(f, inputs[f], t) /\ w = accum[f] * D[f]
                              /\ u = grad[t]
    OBVIOUS
  <2>18. /\ x \in Nat /\ y \in Nat /\ z \in Nat /\ u \in Nat /\ y + z = w
    BY <1>12, <2>8, <2>13, <2>15, <2>17
  <2>19. /\ grad'[t] = u + z /\ OwedBy(e, accum', D) = x + y /\ OwedBy(c, accum, D) = w + x
    BY <1>4, <2>3, <2>13, <2>14, <2>16, <2>17
  <2>20. (u + z) + (x + y) = u + (w + x)
    BY ONLY <2>18
  <2>. QED  BY <2>1, <2>17, <2>19, <2>20
<1>. QED  BY <1>1, <1>2, <1>7, <1>8, <1>9, <1>13, <1>14, WalkConserves

(* What is owed is a gradient. *)
LEMMA OwedNat ==
    ASSUME IInv, GradientInv, NEW t
    PROVE  Owed(calls, accum, Derivative(t)) \in Nat
<1>1. PICK D : D = Derivative(t)
  OBVIOUS
<1>2. \A d \in 1 .. Len(calls) : CallShape(calls[d]) /\ calls[d].saved_accum \in [Fn -> Nat]
  BY DEF IInv, CallsInv, CallInv, GradientInv, Counters
<1>3. IsStack(calls)
  BY DEF IInv, CallsInv
<1>4. Weighs(calls, accum, D)
  BY <1>1, <1>2, <1>3, CallsWeigh DEF GradientInv, Counters
<1>5. CASE calls = <<>>
  BY <1>5, NothingOwed
<1>6. CASE calls # <<>>
  BY <1>1, <1>4, <1>6, OwedSplit
<1>. QED  BY <1>5, <1>6

-----------------------------------------------------------------------------
(* A call starts.  Its roots' own gradients and what its walk owes make up *)
(* what it adds to the gradient to expect.  (execute, execute_multi)       *)
LEMMA ExecuteConserves ==
    ASSUME IInv, IInv', GradientInv, NEW n \in Nat, NEW rs \in [1 .. n -> held], NEW retain,
           Execute(rs, retain)
    PROVE  GradientInv'
<1>1. UNCHANGED <<created, inputs, next, kind, grad_fn, retains, hooked, held, built>>
  BY DEF Execute, graph
<1>2. rs \in [1 .. n -> Var] /\ Range(rs) \subseteq Var
  <2>1. held \subseteq Var
    BY FnFacts DEF GradientInv, BuiltInOrder, IInv, GraphShape, Var, Fn
  <2>. QED  BY <2>1 DEF Range
<1>3. BuiltInOrder' /\ GradFnShape'
  BY <1>1 DEF GradientInv, BuiltInOrder, GradFnShape
<1>4. \A x : Seed(rs, x) \in Nat
  <2>. TAKE x
  <2>1. PICK J : J = {i \in 1 .. n : rs[i] = x}
    OBVIOUS
  <2>2. IsFiniteSet(J)
    <3>1. n \in Int /\ J \in SUBSET (1 .. n)
      BY <2>1
    <3>2. IsFiniteSet(1 .. n)
      BY <3>1, FS_Interval
    <3>. QED  BY <3>1, <3>2, FS_Subset
  <2>. QED  BY <2>1, <2>2, FS_CardinalityType DEF Seed
<1>5. grad' = [v \in Var |-> IF KeepsGrad(v) THEN grad[v] + Seed(rs, v) ELSE grad[v]]
  BY DEF Execute
<1>6. \A t \in Leaf \cup retains : /\ t \in Var /\ KeepsGrad(t)
                                  /\ grad[t] \in Nat /\ expected[t] \in Nat
  BY DEF GradientInv, GradFnShape, Counters, KeepsGrad, Var
<1>7. PICK pg : pg = [t \in Leaf \cup retains |->
                        SumFunction([i \in DOMAIN rs |-> PathGradient(rs[i], t)])]
  OBVIOUS
<1>8. expected' = [t \in Var |-> IF t \in Leaf \cup retains THEN expected[t] + pg[t]
                                 ELSE expected[t]]
  BY <1>7 DEF Execute
<1>9. \A t \in Leaf \cup retains : pg[t] \in Nat
  <2>. SUFFICES ASSUME NEW t \in Leaf \cup retains PROVE pg[t] \in Nat
    OBVIOUS
  <2>1. PICK z : z = [i \in 1 .. n |-> PathGradient(rs[i], t)]
    OBVIOUS
  <2>2. \A i \in 1 .. n : z[i] \in Nat
    BY <2>1, PathGradientIs, DerivativeFacts DEF GradientInv
  <2>3. IsFiniteSet(1 .. n)
    <3>1. n \in Int
      OBVIOUS
    <3>. QED  BY <3>1, FS_Interval
  <2>4. pg[t] = SumFunctionOnSet(z, 1 .. n)
    BY <1>7, <2>1 DEF SumFunction
  <2>. QED  BY <2>2, <2>3, <2>4, SumType
<1>10. grad' \in [Var -> Nat] /\ expected' \in [Var -> Nat]
  BY <1>4, <1>5, <1>8, <1>9 DEF GradientInv, Counters
<1>11. tainted' \in BOOLEAN /\ (~tainted' => ~tainted /\ \A v \in Range(rs) : GraphIntact(v))
  BY DEF Execute, GradientInv, Counters
<1>12. ~tainted' => \A v \in Range(rs) : v \in Fn => grad_fn[v] = v
  BY <1>11 DEF GraphIntact
(* What the seeds weigh. *)
<1>13. ASSUME ~tainted', NEW t \in Leaf \cup retains, NEW Q \in SUBSET Fn, RootFns(rs) \subseteq Q,
              NEW k, \A g \in Q : k[g] = (IF g \in RootFns(rs) THEN Seed(rs, g) ELSE 0)
                                           * Derivative(t)[g]
       PROVE  SumFunctionOnSet(k, Q) + Seed(rs, t) = pg[t]
  BY <1>2, <1>7, <1>12, <1>13, Seeding DEF GradientInv
<1>14. CASE RootFns(rs) = {}
  <2>1. UNCHANGED <<accum, calls>>
    BY <1>14 DEF Execute
  <2>2. Counters'
    BY <1>1, <1>10, <1>11, <2>1 DEF GradientInv, Counters
  <2>3. WalksIntact'
    <3>1. BuiltNext' = BuiltNext
      BY <1>1 DEF BuiltNext
    <3>. QED  BY <1>1, <1>11, <2>1, <3>1 DEF GradientInv, WalksIntact
  <2>4. ASSUME ~tainted', NEW t \in Leaf \cup retains
        PROVE  grad'[t] + Owed(calls, accum, Derivative(t)) = expected'[t]
    <3>1. Seed(rs, t) = pg[t]
      <4>1. PICK k : k = [g \in {} |-> 0]
        OBVIOUS
      <4>2. SumFunctionOnSet(k, {}) + Seed(rs, t) = pg[t]
        BY <1>13, <1>14, <2>4
      <4>. QED  BY <1>4, <4>2, SumEmpty
    <3>2. /\ grad'[t] = grad[t] + Seed(rs, t) /\ expected'[t] = expected[t] + pg[t]
      BY <1>5, <1>6, <1>8
    <3>3. grad[t] + Owed(calls, accum, Derivative(t)) = expected[t]
      BY <1>11, <2>4 DEF GradientInv, Conserved
    <3>4. Owed(calls, accum, Derivative(t)) \in Nat
      BY OwedNat
    <3>. QED  BY <1>4, <1>6, <3>1, <3>2, <3>3, <3>4
  <2>5. Conserved'
    BY <1>1, <2>1, <2>4, DerivativeSame DEF Conserved
  <2>. QED  BY <1>3, <2>2, <2>3, <2>5 DEF GradientInv
<1>15. CASE RootFns(rs) # {}
  <2>1. accum' = [f \in Fn |-> IF f \in RootFns(rs) THEN Seed(rs, f) ELSE 0]
    BY <1>15 DEF Execute
  <2>2. PICK order \in TopologicalOrders(next, Null, RootFns(rs)) :
            calls' = Append(calls, [roots |-> rs, retain |-> retain, sorted |-> order,
                                    pos |-> Len(order), phase |-> "loop",
                                    unshared |-> compute_unshared_functions(order),
                                    saved_accum |-> accum])
    BY <1>15 DEF Execute
  <2>3. PICK c : c = [roots |-> rs, retain |-> retain, sorted |-> order,
                      pos |-> Len(order), phase |-> "loop",
                      unshared |-> compute_unshared_functions(order), saved_accum |-> accum]
    OBVIOUS
  <2>4. c.sorted = order /\ c.pos = Len(order) /\ c.saved_accum = accum /\ calls' = Append(calls, c)
    BY <2>2, <2>3
  <2>5. IsStack(calls) /\ Len(calls) \in Nat
    BY StackType DEF IInv, CallsInv
  <2>6. /\ IsStack(calls') /\ Len(calls') = Len(calls) + 1 /\ calls'[Len(calls) + 1] = c
        /\ \A i \in 1 .. Len(calls) : calls'[i] = calls[i]
    BY <2>4, <2>5, StackPush
  <2>7. calls' # <<>>
    BY <2>5, <2>6, StackType
  <2>8. \A d \in 1 .. Len(calls') : d = Len(calls) + 1 \/ d \in 1 .. Len(calls)
    BY <2>5, <2>6
  <2>9. accum' \in [Fn -> Nat]
    BY <1>4, <2>1
  <2>10. Counters'
    <3>1. ASSUME NEW d \in 1 .. Len(calls') PROVE calls'[d].saved_accum \in [Fn -> Nat]
      BY <2>4, <2>6, <2>8 DEF GradientInv, Counters
    <3>. QED  BY <1>1, <1>10, <1>11, <2>9, <3>1 DEF GradientInv, Counters
  <2>11. Range(order) = ReachableFrom(next, Null, RootFns(rs)) /\ order \in Seq(Fn)
    BY OrderIsComplete, OrderFacts
  <2>12. WalksIntact'
    <3>. SUFFICES ASSUME ~tainted', NEW d \in 1 .. Len(calls'), NEW f \in Range(calls'[d].sorted)
                  PROVE  inputs[f] = built[f] /\ next[f] = BuiltNext[f]
      <4>1. BuiltNext' = BuiltNext
        BY <1>1 DEF BuiltNext
      <4>. QED  BY <1>1, <4>1 DEF WalksIntact
    <3>1. CASE d = Len(calls) + 1
      <4>1. f \in ReachableFrom(next, Null, RootFns(rs))
        BY <2>4, <2>6, <2>11, <3>1
      <4>. QED  BY <1>2, <1>11, <4>1, WalkIsIntact DEF GradientInv
    <3>2. CASE d \in 1 .. Len(calls)
      BY <1>11, <2>6, <3>2 DEF GradientInv, WalksIntact
    <3>. QED  BY <2>8, <3>1, <3>2
  <2>13. ASSUME ~tainted', NEW t \in Leaf \cup retains
         PROVE  grad'[t] + Owed(calls', accum', Derivative(t)) = expected'[t]
    <3>1. PICK D : D = Derivative(t)
      OBVIOUS
    <3>2. \A d \in 1 .. Len(calls') : CallShape(calls'[d]) /\ calls'[d].saved_accum \in [Fn -> Nat]
      BY <2>10 DEF IInv, CallsInv, CallInv, CallShape, Counters
    <3>3. Weighs(calls', accum', D)
      BY <2>6, <2>9, <3>1, <3>2, CallsWeigh DEF GradientInv
    <3>4. /\ Owed(calls', accum', D) = OwedBy(c, accum', D) + OuterOwed(calls', D)
          /\ OwedBy(c, accum', D) \in Nat /\ OuterOwed(calls', D) \in Nat
      BY <2>6, <2>7, <3>3, OwedSplit
    <3>5. OuterOwed(calls', D) = Owed(calls, accum, D)
      <4>1. calls'[Len(calls) + 1].saved_accum = accum
        BY <2>4, <2>6
      <4>. QED  BY <2>5, <2>6, <4>1, OuterIsAll
    <3>6. OwedBy(c, accum', D) + Seed(rs, t) = pg[t]
      <4>1. PICK Q : Q = ToRun(c)
        OBVIOUS
      <4>2. Q = Range(order) /\ Q \in SUBSET Fn
        <5>1. Q = {order[p] : p \in 1 .. Len(order)}
          BY <2>4, <4>1 DEF ToRun
        <5>2. DOMAIN order = 1 .. Len(order) /\ \A p \in 1 .. Len(order) : order[p] \in Fn
          BY <2>11
        <5>. QED  BY <5>1, <5>2 DEF Range
      <4>3. RootFns(rs) \subseteq Q
        <5>1. RootFns(rs) \subseteq DOMAIN next
          BY <1>2 DEF RootFns, GradientInv, GradFnShape, IInv, GraphShape, Var
        <5>. QED  BY <2>11, <4>2, <5>1 DEF ReachableFrom
      <4>4. PICK k : k = [f \in Fn |-> accum'[f] * D[f]]
        OBVIOUS
      <4>5. \A g \in Q : k[g] = (IF g \in RootFns(rs) THEN Seed(rs, g) ELSE 0) * Derivative(t)[g]
        BY <2>1, <3>1, <4>2, <4>4
      <4>6. SumFunctionOnSet(k, Q) + Seed(rs, t) = pg[t]
        BY <1>13, <2>13, <4>2, <4>3, <4>5
      <4>. QED  BY <4>1, <4>4, <4>6 DEF OwedBy
    <3>7. /\ grad'[t] = grad[t] + Seed(rs, t) /\ expected'[t] = expected[t] + pg[t]
      BY <1>5, <1>6, <1>8
    <3>8. grad[t] + Owed(calls, accum, D) = expected[t]
      BY <1>11, <2>13, <3>1 DEF GradientInv, Conserved
    <3>9. PICK x, y, z, u : /\ x = OwedBy(c, accum', D) /\ y = OuterOwed(calls', D)
                            /\ z = Seed(rs, t) /\ u = grad[t]
      OBVIOUS
    <3>10. x \in Nat /\ y \in Nat /\ z \in Nat /\ u \in Nat
      BY <1>4, <1>6, <3>4, <3>9
    <3>11. (u + z) + (x + y) = (u + y) + (x + z)
      BY ONLY <3>10
    <3>12. /\ grad'[t] = u + z /\ Owed(calls', accum', D) = x + y
           /\ expected'[t] = (u + y) + (x + z)
      BY <3>4, <3>5, <3>6, <3>7, <3>8, <3>9
    <3>. QED  BY <3>1, <3>11, <3>12
  <2>14. Conserved'
    BY <1>1, <2>13, DerivativeSame DEF Conserved
  <2>. QED  BY <1>3, <2>10, <2>12, <2>14 DEF GradientInv
<1>. QED  BY <1>14, <1>15

-----------------------------------------------------------------------------
(* A call ends.  Its teardown touches no Function of the calls around it.  *)
LEMMA TeardownIsLocal ==
    ASSUME IInv, GradientInv, ~Idle, CleanupGraph(Top), UNCHANGED <<created, held, built>>
    PROVE  /\ BuiltInOrder' /\ GradFnShape'
           /\ \A d \in 1 .. Len(calls) - 1 : \A f \in Range(calls[d].sorted) :
                 inputs'[f] = inputs[f] /\ next'[f] = next[f]
<1>1. PICK t : t = Top
  OBVIOUS
<1>2. PICK torn \in SUBSET Range(t.sorted) :
              /\ \A f \in Fn : next'[f] = IF f \in torn THEN <<>> ELSE next[f]
              /\ \A f \in Fn : inputs'[f] = IF f \in torn THEN <<>> ELSE inputs[f]
  BY <1>1, CleanupFacts
<1>3. BuiltInOrder'
  BY DEF GradientInv, BuiltInOrder
<1>4. GradFnShape'
  <2>1. PICK cut : grad_fn' = [v \in Var |-> IF v \in cut THEN Null ELSE grad_fn[v]]
    BY DEF CleanupGraph
  <2>2. Len(<<>>) \in Nat
    OBVIOUS
  <2>3. \A f \in Fn : Len(inputs'[f]) \in Nat /\ Len(next'[f]) \in Nat
    BY <1>2, <2>2 DEF GradientInv, GradFnShape
  <2>. QED  BY <2>1, <2>3 DEF GradientInv, GradFnShape, Var
<1>5. ASSUME NEW d \in 1 .. Len(calls) - 1, NEW f \in Range(calls[d].sorted)
      PROVE  inputs'[f] = inputs[f] /\ next'[f] = next[f]
  <2>1. /\ d \in 1 .. Len(calls) /\ Len(calls) \in 1 .. Len(calls) /\ d # Len(calls)
        /\ t = calls[Len(calls)]
    BY <1>1, TopFacts DEF Top
  <2>2. f \notin torn
    BY <2>1 DEF IInv, WalksDisjoint
  <2>3. f \in Fn
    <3>1. calls[d].sorted \in Seq(Fn)
      BY <2>1 DEF IInv, CallsInv, CallInv, CallShape
    <3>. QED  BY <3>1 DEF Range
  <2>. QED  BY <1>2, <2>2, <2>3
<1>. QED  BY <1>3, <1>4, <1>5

(* It returns having delivered all it owed. *)
LEMMA ReturnConserves ==
    ASSUME IInv, IInv', GradientInv, Return
    PROVE  GradientInv'
<1>1. PICK c : c = Top
  OBVIOUS
<1>2. ~Idle /\ c.pos = 0 /\ CleanupGraph(Top) /\ accum' = c.saved_accum /\ calls' = Outer
  BY <1>1 DEF Return, RestoreAccumulators
<1>3. UNCHANGED <<created, kind, grad, retains, hooked, held, built, expected, tainted>>
  BY DEF Return, history
<1>4. /\ IsStack(calls) /\ calls # <<>> /\ Len(calls) \in Nat /\ Len(calls) \in 1 .. Len(calls)
      /\ c = calls[Len(calls)] /\ CallShape(c)
  BY <1>1, <1>2, TopFacts DEF Top, CallInv
<1>5. /\ IsStack(calls') /\ Len(calls') = Len(calls) - 1
      /\ \A i \in 1 .. Len(calls) - 1 : calls'[i] = calls[i]
  <2>1. calls' \in {SubSeq(calls, 1, Len(calls) - 1)}
    BY <1>2 DEF Outer
  <2>. QED  BY <1>4, <2>1, StackPop
<1>6. BuiltInOrder' /\ GradFnShape'
  BY <1>2, <1>3, TeardownIsLocal
<1>7. \A i \in 1 .. Len(calls) - 1 : i \in 1 .. Len(calls)
  BY <1>4
<1>8. Counters'
  <2>1. accum' \in [Fn -> Nat]
    BY <1>2, <1>4 DEF GradientInv, Counters
  <2>2. \A d \in 1 .. Len(calls') : calls'[d].saved_accum \in [Fn -> Nat]
    BY <1>5, <1>7 DEF GradientInv, Counters
  <2>. QED  BY <1>3, <2>1, <2>2 DEF GradientInv, Counters
<1>9. WalksIntact'
  <2>. SUFFICES ASSUME ~tainted, NEW d \in 1 .. Len(calls) - 1, NEW f \in Range(calls[d].sorted)
                PROVE  inputs'[f] = built[f] /\ next'[f] = BuiltNext[f]
    <3>1. BuiltNext' = BuiltNext
      BY <1>3 DEF BuiltNext
    <3>. QED  BY <1>3, <1>5, <3>1 DEF WalksIntact
  <2>1. inputs'[f] = inputs[f] /\ next'[f] = next[f]
    BY <1>2, <1>3, TeardownIsLocal
  <2>. QED  BY <1>7, <2>1 DEF GradientInv, WalksIntact
<1>10. ASSUME ~tainted, NEW t \in Leaf \cup retains
       PROVE  grad[t] + Owed(calls', accum', Derivative(t)) = expected[t]
  <2>1. PICK D : D = Derivative(t)
    OBVIOUS
  <2>2. \A d \in 1 .. Len(calls) : CallShape(calls[d]) /\ calls[d].saved_accum \in [Fn -> Nat]
    BY DEF IInv, CallsInv, CallInv, GradientInv, Counters
  <2>3. Weighs(calls, accum, D)
    BY <1>4, <2>1, <2>2, CallsWeigh DEF GradientInv, Counters
  <2>4. /\ Owed(calls, accum, D) = OwedBy(c, accum, D) + OuterOwed(calls, D)
        /\ OuterOwed(calls, D) \in Nat
    BY <1>4, <2>3, OwedSplit
  <2>5. OwedBy(c, accum, D) = 0
    <3>1. ToRun(c) = {}
      BY <1>2, <1>4, ToRunFacts
    <3>. QED  BY <3>1, SumEmpty DEF OwedBy
  <2>6. OuterOwed(calls, D) = Owed(calls', accum', D)
    <3>1. /\ Len(calls') \in Nat /\ Len(calls) = Len(calls') + 1
          /\ calls[Len(calls') + 1].saved_accum = accum'
      BY <1>2, <1>4, <1>5, StackType
    <3>2. \A d \in 1 .. Len(calls') : calls[d] = calls'[d]
      BY <1>5
    <3>. QED  BY <3>1, <3>2, OuterIsAll
  <2>7. grad[t] + Owed(calls, accum, D) = expected[t]
    BY <1>10, <2>1 DEF GradientInv, Conserved
  <2>. QED  BY <2>1, <2>4, <2>5, <2>6, <2>7
<1>11. Conserved'
  BY <1>3, <1>10, DerivativeSame DEF Conserved
<1>. QED  BY <1>6, <1>8, <1>9, <1>11 DEF GradientInv

(* It throws: no gradient is promised from then on. *)
LEMMA ThrowConserves ==
    ASSUME IInv, IInv', GradientInv, Throw
    PROVE  GradientInv'
<1>1. PICK c : c = Top
  OBVIOUS
<1>2. ~Idle /\ CleanupGraph(Top) /\ accum' = c.saved_accum /\ tainted' = TRUE
  BY <1>1 DEF Throw, RestoreAccumulators
<1>3. UNCHANGED <<created, grad, retains, held, built, expected>>
  BY DEF Throw
<1>4. /\ IsStack(calls) /\ calls # <<>> /\ Len(calls) \in Nat /\ Len(calls) \in 1 .. Len(calls)
      /\ c = calls[Len(calls)]
  BY <1>1, <1>2, TopFacts DEF Top
<1>5. BuiltInOrder' /\ GradFnShape'
  BY <1>2, <1>3, TeardownIsLocal
<1>6. PICK o : o = Outer
  OBVIOUS
<1>7. IsStack(o) /\ Len(o) = Len(calls) - 1 /\ \A i \in 1 .. Len(calls) - 1 : o[i] = calls[i]
  <2>1. o \in {SubSeq(calls, 1, Len(calls) - 1)}
    BY <1>6 DEF Outer
  <2>. QED  BY <1>4, <2>1, StackPop
<1>8. \A d \in 1 .. Len(calls') : calls'[d].saved_accum \in [Fn -> Nat]
  <2>1. CASE Len(calls) = 1
    <3>1. 1 .. Len(calls') = {}
      BY <2>1 DEF Throw
    <3>. QED  BY <3>1
  <2>2. CASE Len(calls) # 1
    <3>1. calls' = [o EXCEPT ![Len(calls) - 1].phase = "unwinding"]
      BY <1>6, <2>2 DEF Throw
    <3>2. DOMAIN calls' = DOMAIN o /\ calls' = [i \in DOMAIN calls' |-> calls'[i]]
      BY <3>1
    <3>3. DOMAIN o = 1 .. Len(calls) - 1 /\ Len(calls') = Len(calls) - 1
      BY <1>7, <3>2, StackSet, StackType
    <3>. SUFFICES ASSUME NEW d \in 1 .. Len(calls) - 1
                  PROVE  calls'[d].saved_accum \in [Fn -> Nat]
      BY <3>3
    <3>4. PICK b : b = calls[d]
      OBVIOUS
    <3>5. d \in 1 .. Len(calls) /\ CallShape(b) /\ b.saved_accum \in [Fn -> Nat]
      <4>1. d \in 1 .. Len(calls)
        BY <1>4
      <4>. QED  BY <3>4, <4>1 DEF IInv, CallsInv, CallInv, GradientInv, Counters
    <3>6. calls'[d] = b \/ calls'[d] = [b EXCEPT !.phase = "unwinding"]
      BY <1>7, <3>1, <3>3, <3>4
    <3>. QED  BY <3>5, <3>6 DEF CallShape
  <2>. QED  BY <2>1, <2>2
<1>9. Counters'
  BY <1>2, <1>3, <1>4, <1>8 DEF GradientInv, Counters
<1>10. WalksIntact' /\ Conserved'
  BY <1>2 DEF WalksIntact, Conserved
<1>. QED  BY <1>5, <1>9, <1>10 DEF GradientInv
-----------------------------------------------------------------------------
(* Every step keeps what is there and what is owed equal to what is       *)
(* expected, ...                                                           *)
LEMMA StepConserves ==
    ASSUME IInv, IInv', GradientInv, Next, UNCHANGED scenario
    PROVE  GradientInv'
<1>1. CASE ApplyAny
  <2>1. PICK n \in 1 .. MaxInputs, k \in scenario.kinds :
            \E ins \in [1 .. n -> held] : Apply(ins, k)
    BY <1>1 DEF ApplyAny
  <2>. QED  BY <2>1, ApplyConserves
<1>2. CASE UserCall
  BY <1>2, UserCallConserves
<1>3. CASE ExecuteAny
  <2>1. PICK k \in 1 .. scenario.roots, retain \in BOOLEAN :
            \E rs \in [1 .. k -> held] : Execute(rs, retain)
    BY <1>3 DEF ExecuteAny
  <2>2. k \in Nat
    BY DEF IInv, GraphShape, Scenario
  <2>. QED  BY <2>1, <2>2, ExecuteConserves
<1>4. CASE EngineStep
  BY <1>4, SkipConserves, EnterConserves, DeliverConserves, ReturnConserves, ThrowConserves
     DEF EngineStep
<1>. QED  BY <1>1, <1>2, <1>3, <1>4 DEF Next

(* ... stuttering does, ... *)
LEMMA StutterConserves ==
    ASSUME GradientInv, UNCHANGED <<vars, scenario>>
    PROVE  GradientInv'
<1>1. UNCHANGED <<created, inputs, next, kind, grad_fn, grad, retains, hooked, held, accum, calls,
                  built, expected, tainted>>
  BY DEF vars
<1>2. BuiltInOrder' /\ GradFnShape' /\ Counters'
  BY <1>1 DEF GradientInv, BuiltInOrder, GradFnShape, Counters
<1>3. WalksIntact'
  <2>1. BuiltNext' = BuiltNext
    BY <1>1 DEF BuiltNext
  <2>. QED  BY <1>1, <2>1 DEF GradientInv, WalksIntact
<1>4. Conserved'
  BY <1>1, DerivativeSame DEF GradientInv, Conserved
<1>. QED  BY <1>2, <1>3, <1>4 DEF GradientInv

(* ... and so, for every graph of every size, every list of roots, every   *)
(* nesting and sequence of calls, a gradient is exactly what the           *)
(* derivatives of the roots say, as long as no call throws or starts on a  *)
(* torn-down graph (engine.cpp 435-804).                                   *)
THEOREM GradientsAreExact == Spec => []GradientsMatchPaths
<1>1. IInv /\ IInv' /\ GradientInv /\ [Next /\ UNCHANGED scenario]_<<vars, scenario>>
        => GradientInv'
  <2>. SUFFICES ASSUME IInv, IInv', GradientInv, [Next /\ UNCHANGED scenario]_<<vars, scenario>>
                PROVE  GradientInv'
    OBVIOUS
  <2>1. CASE Next /\ UNCHANGED scenario
    BY <2>1, StepConserves
  <2>2. CASE UNCHANGED <<vars, scenario>>
    BY <2>2, StutterConserves
  <2>. QED  BY <2>1, <2>2
<1>2. GradientInv => GradientsMatchPaths
  <2>. SUFFICES ASSUME GradientInv, Idle, ~tainted, NEW v \in Leaf \cup retains
                PROVE  grad[v] = expected[v]
    BY DEF GradientsMatchPaths
  <2>1. Owed(calls, accum, Derivative(v)) = 0
    BY NothingOwed DEF Idle
  <2>2. grad[v] \in Nat
    BY DEF GradientInv, Counters, Var
  <2>. QED  BY <2>1, <2>2 DEF GradientInv, Conserved
<1>. QED  BY <1>1, <1>2, Inductive, GradientsInitially, PTL DEF Spec
=============================================================================
