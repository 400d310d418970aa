--------------------------- MODULE BackwardEngine ---------------------------
(***************************************************************************)
(* The life of an autograd graph on one thread: operations that build it,  *)
(* BackwardEngine::execute and execute_multi that walk it and tear it      *)
(* down, and the calls of a program in between.                            *)
(*                                                                         *)
(* A gradient is abstracted to the number of paths it arrived along (every *)
(* local derivative is 1, a hook doubles), so that the sum an input ends   *)
(* up with shows each lost, repeated or misdirected contribution.  Zero    *)
(* stands for "no gradient" (an empty optional, an empty accumulator).     *)
(* Function f is the f-th operation applied; its output Variable is named  *)
(* f too, so Variables are the leaves and the numbers 1 .. MaxFn.          *)
(***************************************************************************)
EXTENDS GraphOps

CONSTANTS Leaf,       \* leaf Variables; all require grad
          Null,       \* a null grad_fn
          MaxFn,      \* bound: Functions
          MaxInputs,  \* bound: inputs of one operation
          Scenarios   \* the bounds of every kind of program explored

(* How many operations a program applies and of which kinds, how many      *)
(* roots a backward call has at most, how many calls are made and how deep *)
(* they nest, and how many other calls there are.  A "sum" reads no saved  *)
(* tensors in backward(), a "product" reads the saved inputs, a "partial"  *)
(* returns a gradient for the first input only.                            *)
Scenario == [fns : 0 .. MaxFn, kinds : SUBSET {"sum", "product", "partial"}, roots : Nat,
             calls : Nat, depth : Nat, ops : Nat]

ASSUME BoundsAssumption == {MaxFn, MaxInputs} \subseteq Nat
ASSUME LeafAssumption == Null \notin Leaf \cup Nat /\ Leaf \cap Nat = {}
ASSUME ScenariosAssumption == Scenarios \subseteq Scenario

Fn == 1 .. MaxFn
Var == Leaf \cup Fn

VARIABLES
    scenario, \* which program this is; never written
    created,  \* Functions 1 .. created exist
    inputs,   \* Function::input_variables()
    next,     \* Function::next_functions()
    parents,  \* Function::parent_count_
    kind,     \* the kind of every Function
    saved,    \* its saved tensors: "held", "modified" in place, or "released"
    grad_fn,  \* VariableImpl::grad_fn_
    grad,     \* VariableImpl::grad_
    retains,  \* Variables with retain_grad()
    hooked,   \* Variables with a backward hook
    held,     \* Variables the program still holds a handle of
    accum,    \* BackwardEngine::grad_accumulators_, summed per Function
    calls,    \* active execute() calls, innermost last
    calls_left, ops_left,
    built,    \* history: the inputs each Function was applied to
    expected, \* history: the gradient every Variable should have
    tainted   \* history: some call threw, or began on a graph not intact

graph == <<inputs, next, parents, grad_fn>>
history == <<built, expected, tainted>>
vars == <<created, inputs, next, parents, kind, saved, grad_fn, grad, retains, hooked,
          held, accum, calls, calls_left, ops_left, built, expected, tainted>>

NoGrads == [f \in Fn |-> 0]
Idle == calls = <<>>
Top == calls[Len(calls)]
Outer == SubSeq(calls, 1, Len(calls) - 1)

Init ==
    /\ scenario \in Scenarios
    /\ created = 0
    /\ inputs = [f \in Fn |-> <<>>]
    /\ next = [f \in Fn |-> <<>>]
    /\ parents = NoGrads
    /\ kind = [f \in Fn |-> "sum"]
    /\ saved = [f \in Fn |-> "held"]
    /\ grad_fn = [v \in Var |-> Null]
    /\ grad = [v \in Var |-> 0]
    /\ retains = {}
    /\ hooked = {}
    /\ held = Leaf
    /\ accum = NoGrads
    /\ calls = <<>>
    /\ calls_left = scenario.calls
    /\ ops_left = scenario.ops
    /\ built = [f \in Fn |-> <<>>]
    /\ expected = [v \in Var |-> 0]
    /\ tainted = FALSE
-----------------------------------------------------------------------------
(* The number of edges from the Functions of S to f. *)
Edges(nx, S, f) ==
    Cardinality({e \in S \X (1 .. MaxInputs) : e[2] \in DOMAIN nx[e[1]] /\ nx[e[1]][e[2]] = f})

(* An operation (operator+, operator*, ...): its Function takes the        *)
(* inputs' handles and their grad_fns, set_next_functions() raises the     *)
(* children's parent_count_, and the result Variable gets the Function.    *)
Apply(ins, k) ==
    LET f == created + 1
        nx == [i \in DOMAIN ins |-> grad_fn[ins[i]]]
    IN  /\ Idle
        /\ created < scenario.fns
        /\ created' = f
        /\ inputs' = [inputs EXCEPT ![f] = ins]
        /\ next' = [next EXCEPT ![f] = nx]
        /\ parents' = [c \in Fn |-> parents[c] + Cardinality({i \in DOMAIN nx : nx[i] = c})]
        /\ kind' = [kind EXCEPT ![f] = k]
        /\ grad_fn' = [grad_fn EXCEPT ![f] = f]
        /\ held' = held \cup {f}
        /\ built' = [built EXCEPT ![f] = ins]
        /\ UNCHANGED <<saved, grad, retains, hooked, accum, calls, calls_left, ops_left,
                       expected, tainted>>

ApplyAny ==
    \E n \in 1 .. MaxInputs, k \in scenario.kinds :
        \E ins \in [1 .. n -> held] : Apply(ins, k)
-----------------------------------------------------------------------------
(* The other calls of a program, made while no backward runs. *)
UserOp == Idle /\ ops_left > 0 /\ ops_left' = ops_left - 1

ZeroGrad(v) ==
    /\ UserOp
    /\ v \in held
    /\ grad[v] > 0
    /\ grad' = [grad EXCEPT ![v] = 0]
    /\ expected' = [expected EXCEPT ![v] = 0]
    /\ UNCHANGED <<created, graph, kind, saved, retains, hooked, held, accum, calls,
                   calls_left, built, tainted>>

RetainGrad(v) ==
    /\ UserOp
    /\ v \in held \ (retains \cup Leaf)
    /\ retains' = retains \cup {v}
    /\ expected' = [expected EXCEPT ![v] = grad[v]]
    /\ UNCHANGED <<created, graph, kind, saved, grad, hooked, held, accum, calls,
                   calls_left, built, tainted>>

RegisterHook(v) ==
    /\ UserOp
    /\ v \in held \ hooked
    /\ hooked' = hooked \cup {v}
    /\ UNCHANGED <<created, graph, kind, saved, grad, retains, held, accum, calls,
                   calls_left, history>>

(* An in-place operation on v: the version saved by every Function that    *)
(* reads v no longer matches.                                              *)
ModifyInPlace(v) ==
    LET readers == {f \in Fn : /\ kind[f] = "product" /\ saved[f] = "held"
                               /\ v \in Range(inputs[f])}
    IN  /\ UserOp
        /\ v \in held
        /\ readers # {}
        /\ saved' = [f \in Fn |-> IF f \in readers THEN "modified" ELSE saved[f]]
        /\ UNCHANGED <<created, graph, kind, grad, retains, hooked, held, accum, calls,
                       calls_left, history>>

(* The program lets go of a handle.  A Function that nothing refers to any *)
(* more dies, but ~Function leaves its children's parent_count_ as it is:  *)
(* the edges of such a Function stay in next, as counted.                  *)
DropHandle(v) ==
    /\ UserOp
    /\ v \in held \cap Fn
    /\ held' = held \ {v}
    /\ UNCHANGED <<created, graph, kind, saved, grad, retains, hooked, accum, calls,
                   calls_left, history>>

UserCall == \E v \in held : \/ ZeroGrad(v)
                            \/ RetainGrad(v)
                            \/ RegisterHook(v)
                            \/ ModifyInPlace(v)
                            \/ DropHandle(v)
-----------------------------------------------------------------------------
(* validate_saved_tensors() and require_saved_tensors() pass. *)
Usable(f) == kind[f] = "product" => saved[f] = "held"

(* How many gradients backward() returns for a Function of n inputs. *)
Returned(f, n) == IF kind[f] = "partial" /\ n > 1 THEN 1 ELSE n

(* What a Function still has of what forward() gave it: its edges, its     *)
(* inputs, and the saved tensors its backward() reads.                     *)
BuiltNext == [f \in Fn |-> [i \in DOMAIN built[f] |->
                               IF built[f][i] \in Fn THEN built[f][i] ELSE Null]]
FunctionIntact(f) ==
    /\ inputs[f] = built[f]
    /\ next[f] = BuiltNext[f]
    /\ Usable(f)
Below(v) == IF v \in Fn THEN ReachableFrom(BuiltNext, Null, {v}) ELSE {}
GraphIntact(v) == /\ v \in Fn => grad_fn[v] = v
                  /\ \A f \in Below(v) : FunctionIntact(f)

HookScale(v) == IF v \in hooked THEN 2 ELSE 1

(* Reference: the gradient of Variable r with respect to t, forward along  *)
(* the operations as they were applied.                                    *)
PathGradient(r, t) ==
    LET D[f \in Fn] ==
            SumFunction([i \in 1 .. Returned(f, Len(built[f])) |->
                HookScale(built[f][i]) *
                  ((IF built[f][i] = t THEN 1 ELSE 0) +
                   (IF built[f][i] \in Fn THEN D[built[f][i]] ELSE 0))])
    IN  (IF r = t THEN 1 ELSE 0) + (IF r \in Fn THEN D[r] ELSE 0)

KeepsGrad(v) == grad_fn[v] = Null \/ v \in retains
-----------------------------------------------------------------------------
(* Mutant: every Function of the walk is taken for unshared. *)
MutAllUnshared(order) == Range(order)

(* The Functions of the walk all of whose parents are in the walk. *)
compute_unshared_functions(order) ==
    {f \in Range(order) : Edges(next, Range(order), f) = parents[f]}

(* Mutant: a duplicate root overwrites the seed instead of adding to it. *)
MutSeedOnce(rs, v) == IF v \in Range(rs) THEN 1 ELSE 0

(* How often v is listed among the roots: duplicate roots' seeds add up. *)
Seed(rs, v) == Cardinality({i \in DOMAIN rs : rs[i] = v})
RootFns(rs) == {grad_fn[v] : v \in Range(rs)} \ {Null}

(* The walks in progress. *)
ActiveFns == UNION {Range(calls[i].sorted) : i \in DOMAIN calls}

(* execute() and execute_multi(): seed the roots that keep a gradient; if  *)
(* some root has a grad_fn, set the accumulators of an enclosing call      *)
(* aside, sort, classify, and seed the roots' Functions.  A call made from *)
(* inside a Function's backward() (a checkpoint) walks a graph of its own. *)
Execute(rs, retain) ==
    /\ calls_left > 0
    /\ Len(calls) < scenario.depth
    /\ ~Idle => Top.phase = "call"
    /\ calls_left' = calls_left - 1
    /\ grad' = [v \in Var |-> IF KeepsGrad(v) THEN grad[v] + Seed(rs, v) ELSE grad[v]]
    /\ expected' = [t \in Var |->
          IF t \in Leaf \cup retains
          THEN expected[t] + SumFunction([i \in DOMAIN rs |-> PathGradient(rs[i], t)])
          ELSE expected[t]]
    /\ tainted' = (tainted \/ \E v \in Range(rs) : ~GraphIntact(v))
    /\ \/ /\ RootFns(rs) = {}
          /\ UNCHANGED <<accum, calls>>
       \/ /\ RootFns(rs) # {}
          /\ ReachableFrom(next, Null, RootFns(rs)) \cap ActiveFns = {}
          /\ accum' = [f \in Fn |-> IF f \in RootFns(rs) THEN Seed(rs, f) ELSE 0]
          /\ \E order \in TopologicalOrders(next, Null, RootFns(rs)) :
                calls' = Append(calls, [roots |-> rs, retain |-> retain, sorted |-> order,
                                        pos |-> Len(order), phase |-> "loop",
                                        unshared |-> compute_unshared_functions(order),
                                        saved_accum |-> accum])
    /\ UNCHANGED <<created, graph, kind, saved, retains, hooked, held, ops_left, built>>

ExecuteAny ==
    \E k \in 1 .. scenario.roots, retain \in BOOLEAN :
        \E rs \in [1 .. k -> held] : Execute(rs, retain)

(* Mutant: the sorted Functions are walked from the front. *)
MutFunctionAt(c) == c.sorted[Len(c.sorted) + 1 - c.pos]

(* The loop walks sorted backwards. *)
FunctionAt(c) == c.sorted[c.pos]
Current == FunctionAt(Top)
SetTop(c) == [calls EXCEPT ![Len(calls)] = c]
InLoop == ~Idle /\ Top.phase = "loop" /\ Top.pos > 0

(* The per-Function release, when the graph is not retained and the        *)
(* Function is unshared.                                                   *)
ReleaseCurrent ==
    saved' = IF ~Top.retain /\ Current \in Top.unshared
             THEN [saved EXCEPT ![Current] = "released"] ELSE saved

(* Mutant: a Function that gets no gradient is skipped without release. *)
MutSkipNoRelease ==
    /\ InLoop
    /\ accum[Current] = 0
    /\ calls' = SetTop([Top EXCEPT !.pos = @ - 1])
    /\ UNCHANGED <<created, graph, kind, saved, grad, retains, hooked, held, accum,
                   calls_left, ops_left, history>>

(* Mutant: the loop does not advance past such a Function. *)
MutSkipInPlace ==
    /\ InLoop
    /\ accum[Current] = 0
    /\ ReleaseCurrent
    /\ UNCHANGED <<created, graph, kind, grad, retains, hooked, held, accum, calls,
                   calls_left, ops_left, history>>

(* No gradient reached this Function: release it and go on. *)
SkipFunction ==
    /\ InLoop
    /\ accum[Current] = 0
    /\ ReleaseCurrent
    /\ calls' = SetTop([Top EXCEPT !.pos = @ - 1])
    /\ UNCHANGED <<created, graph, kind, grad, retains, hooked, held, accum, calls_left,
                   ops_left, history>>

(* The saved tensors pass validation: backward() of the Function starts. *)
EnterFunction ==
    /\ InLoop
    /\ accum[Current] > 0
    /\ Usable(Current)
    /\ calls' = SetTop([Top EXCEPT !.phase = "call"])
    /\ UNCHANGED <<created, graph, kind, saved, grad, retains, hooked, held, accum,
                   calls_left, ops_left, history>>

(* The gradient backward() returns for the i-th input of f, after its hook. *)
InputGrad(f, i) == HookScale(inputs[f][i]) * accum[f]

(* The sum of the gradients of f's inputs whose entry in list is x. *)
Delivered(f, list, x) ==
    SumFunction([i \in {j \in 1 .. Returned(f, Len(list)) : list[j] = x} |-> InputGrad(f, i)])

(* What backward() of f adds to the accumulator of g. *)
AccumulateNext(f, g) == Delivered(f, next[f], g)

(* backward() has returned: each input's gradient is added to the Variable *)
(* if it is a leaf or retains its gradient, and handed to the input's      *)
(* Function; then the Function is released.                                *)
DeliverGradients ==
    /\ ~Idle /\ Top.phase = "call"
    /\ grad' = [v \in Var |-> IF KeepsGrad(v)
                              THEN grad[v] + Delivered(Current, inputs[Current], v)
                              ELSE grad[v]]
    /\ accum' = [g \in Fn |-> accum[g] + AccumulateNext(Current, g)]
    /\ ReleaseCurrent
    /\ calls' = SetTop([Top EXCEPT !.pos = @ - 1, !.phase = "loop"])
    /\ UNCHANGED <<created, graph, kind, retains, hooked, held, calls_left, ops_left, history>>

(* Mutant: parent_count_ is not lowered. *)
MutNoDecrement(c) ==
    LET torn == IF c.retain THEN {} ELSE c.unshared
        cut == (UNION {Range(inputs[f]) : f \in torn})
                 \cup (IF c.retain THEN {} ELSE Range(c.roots))
    IN  /\ inputs' = [f \in Fn |-> IF f \in torn THEN <<>> ELSE inputs[f]]
        /\ next' = [f \in Fn |-> IF f \in torn THEN <<>> ELSE next[f]]
        /\ parents' = parents
        /\ grad_fn' = [v \in Var |-> IF v \in cut THEN Null ELSE grad_fn[v]]

(* cleanup_graph: every unshared Function of the walk clears the grad_fn   *)
(* of its inputs, forgets them and its edges; then the roots lose theirs.  *)
CleanupGraph(c) ==
    LET torn == IF c.retain THEN {} ELSE c.unshared
        cut == (UNION {Range(inputs[f]) : f \in torn})
                 \cup (IF c.retain THEN {} ELSE Range(c.roots))
    IN  /\ inputs' = [f \in Fn |-> IF f \in torn THEN <<>> ELSE inputs[f]]
        /\ next' = [f \in Fn |-> IF f \in torn THEN <<>> ELSE next[f]]
        /\ parents' = [f \in Fn |-> parents[f] - Edges(next, torn, f)]
        /\ grad_fn' = [v \in Var |-> IF v \in cut THEN Null ELSE grad_fn[v]]

(* Mutant: the guard is missing altogether. *)
MutKeepAccumulators(c) == accum' = accum

(* The scope guards, innermost first: clear_gradients(), then the          *)
(* enclosing call's accumulators come back.                                *)
RestoreAccumulators(c) == accum' = c.saved_accum

Return ==
    /\ ~Idle /\ Top.phase = "loop" /\ Top.pos = 0
    /\ CleanupGraph(Top)
    /\ RestoreAccumulators(Top)
    /\ calls' = Outer
    /\ UNCHANGED <<created, kind, saved, grad, retains, hooked, held, calls_left, ops_left,
                   history>>

(* An exception: validation fails or saved tensors are gone, backward()    *)
(* itself throws, or a nested call threw.  The same guards run, and the    *)
(* exception goes on to the enclosing call's Function.                     *)
Throw ==
    /\ ~Idle
    /\ \/ InLoop /\ accum[Current] > 0 /\ ~Usable(Current)
       \/ Top.phase \in {"call", "unwinding"}
    /\ CleanupGraph(Top)
    /\ RestoreAccumulators(Top)
    /\ calls' = IF Len(calls) = 1 THEN <<>>
                ELSE [Outer EXCEPT ![Len(calls) - 1].phase = "unwinding"]
    /\ tainted' = TRUE
    /\ UNCHANGED <<created, kind, saved, grad, retains, hooked, held, calls_left, ops_left,
                   built, expected>>

EngineStep == SkipFunction \/ EnterFunction \/ DeliverGradients \/ Return \/ Throw

Next == ApplyAny \/ UserCall \/ ExecuteAny \/ EngineStep

Spec == Init /\ [][Next /\ UNCHANGED scenario]_<<vars, scenario>>

(* The program may stop calling; a backward call that runs keeps running. *)
FairSpec == Spec /\ WF_vars(EngineStep)
-----------------------------------------------------------------------------
Call == [roots : Seq(Var), retain : BOOLEAN, sorted : Seq(Fn), pos : 0 .. MaxFn,
         phase : {"loop", "call", "unwinding"}, unshared : SUBSET Fn,
         saved_accum : [Fn -> Nat]]

(* No gradient or parent_count_ (an int) falls below zero, and calls nest  *)
(* no deeper than their bound (function_base.cpp 115-117).                 *)
TypeOK ==
    /\ created \in 0 .. MaxFn
    /\ inputs \in [Fn -> Seq(Var)]
    /\ next \in [Fn -> Seq(Fn \cup {Null})]
    /\ parents \in [Fn -> Nat]
    /\ kind \in [Fn -> {"sum", "product", "partial"}]
    /\ saved \in [Fn -> {"held", "modified", "released"}]
    /\ grad_fn \in [Var -> Fn \cup {Null}]
    /\ grad \in [Var -> Nat]
    /\ retains \subseteq Var /\ hooked \subseteq Var /\ held \subseteq Var
    /\ accum \in [Fn -> Nat]
    /\ calls \in Seq(Call) /\ Len(calls) <= scenario.depth
    /\ calls_left \in 0 .. scenario.calls /\ ops_left \in 0 .. scenario.ops
    /\ built \in [Fn -> Seq(Var)]
    /\ expected \in [Var -> Nat]
    /\ tainted \in BOOLEAN

(* As long as no call threw or met a torn-down graph, every leaf and every *)
(* Variable with retain_grad() holds exactly the gradients of all the      *)
(* calls made, one contribution per path: diamonds, duplicate roots, roots *)
(* inside other roots' graphs, hooks, nested calls and repeated calls on a *)
(* retained graph neither lose nor repeat one.                             *)
GradientsMatchPaths ==
    Idle /\ ~tainted => \A v \in Leaf \cup retains : grad[v] = expected[v]

(* No call leaves gradients behind in the engine for the next one, however *)
(* it ends (engine.cpp 345-359, 411).                                      *)
NoLeftoverGradients == Idle => accum = NoGrads

(* When a Function's backward() runs, every Function of the walk that      *)
(* feeds it has delivered: its gradient is complete (engine.cpp 437).      *)
ConsumersRunFirst ==
    \A d \in DOMAIN calls :
        LET c == calls[d]
            pending == {FunctionAt([c EXCEPT !.pos = p]) : p \in 1 .. c.pos}
        IN  c.phase = "call" =>
                \A g \in pending : FunctionAt(c) \notin Children(next, Null, g)

(* parent_count_ stays the number of edges that set_next_functions() has   *)
(* installed and not removed, across teardown by calls that return or      *)
(* throw (function_base.cpp 108-122).                                      *)
ParentCountMatchesEdges == \A f \in Fn : parents[f] = Edges(next, Fn, f)

(* A step of the engine never releases or tears down a Function that has a *)
(* parent outside the running call's walk (engine.cpp 368-374).            *)
DirectlySharedSurvives ==
    [][\A f \in Fn :
          ~Idle /\ Edges(next, Fn \ Range(Top.sorted), f) > 0 =>
              next'[f] = next[f] /\ inputs'[f] = inputs[f] /\ saved'[f] = saved[f]]_vars

(* When a call that does not retain its graph returns, and no Function     *)
(* outside the walk refers into it, all of the walk is freed: edges,       *)
(* inputs and saved tensors, those of Functions that no gradient reached   *)
(* too (engine.cpp 449-467, 384-407).                                      *)
ExclusiveWalkIsFreed ==
    [][~Idle /\ Top.phase = "loop" /\ Top.pos = 0 /\ ~Top.retain
       /\ (\A f \in Range(Top.sorted) : Edges(next, Fn \ Range(Top.sorted), f) = 0)
       => \A f \in Range(Top.sorted) :
             next'[f] = <<>> /\ inputs'[f] = <<>> /\ saved'[f] = "released"]_vars

(* Every backward call ends, whatever it meets (engine.cpp 435-804).       *)
EveryCallEnds == ~Idle ~> Idle
-----------------------------------------------------------------------------
(* What a comment claims and the code does not keep. *)

(* "a Function shared with another, independently-alive Variable's graph   *)
(* is never torn down out from under it" (engine.cpp 372-373): the graph   *)
(* of a Variable that the program holds and that lies outside the walk,    *)
(* once intact, stays intact when a call on other Variables returns.       *)
SharedGraphSurvives ==
    [][\A v \in held \cap Fn :
          /\ ~Idle /\ Top.phase = "loop" /\ Top.pos = 0
          /\ v \notin Range(Top.sorted)
          /\ \A f \in Below(v) : inputs[f] = built[f] /\ next[f] = BuiltNext[f]
          => \A f \in Below(v) : (inputs[f] = built[f])' /\ (next[f] = BuiltNext[f])']_vars
=============================================================================
