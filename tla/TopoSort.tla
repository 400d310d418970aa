------------------------------ MODULE TopoSort ------------------------------
(***************************************************************************)
(* The iterative depth-first sort of the backward engine, one loop         *)
(* iteration per step: BackwardEngine::topological_sort (one root) and the *)
(* combined sort inside BackwardEngine::execute_multi (several roots).     *)
(* The two loops are the same; topological_sort is the case of one root.   *)
(***************************************************************************)
EXTENDS GraphOps

CONSTANTS Function,   \* the Functions of the computation graph
          Null,       \* a null shared_ptr<Function>
          Graphs,     \* the graphs that are explored
          RootLists   \* the lists of root grad_fns; Null: a root without one

ASSUME NullAssumption == Null \notin Function
ASSUME FiniteAssumption == IsFiniteSet(Function)
ASSUME GraphsAssumption == Graphs \subseteq [Function -> Seq(Function \cup {Null})]
ASSUME RootsAssumption == RootLists \subseteq Seq(Function \cup {Null})

VARIABLES next,       \* next_functions() of every Function; never written
          roots,      \* the roots' grad_fns; never written
          root_idx,   \* how many roots the outer loop has taken
          stack,      \* frames [node, child_idx]; child_idx counts from 0
          visited,
          on_stack,   \* recursion_stack in topological_sort
          sorted,
          status      \* "running", "done", or "cycle" once the sort has thrown

vars == <<next, roots, root_idx, stack, visited, on_stack, sorted, status>>

Frame == [node : Function, child_idx : Nat]

Kids(n) == Children(next, Null, n)
RootSet == {roots[i] : i \in DOMAIN roots} \ {Null}

Init ==
    /\ next \in Graphs
    /\ roots \in RootLists
    /\ root_idx = 0
    /\ stack = <<>>
    /\ visited = {}
    /\ on_stack = {}
    /\ sorted = <<>>
    /\ status = "running"

(* Enter a Function for the first time. *)
Push(frames, n) ==
    /\ stack' = Append(frames, [node |-> n, child_idx |-> 0])
    /\ visited' = visited \cup {n}
    /\ on_stack' = on_stack \cup {n}

(* The outer loop takes the next root; one without a grad_fn, and one that *)
(* an earlier root's walk has visited, is skipped.                         *)
TakeRoot ==
    /\ status = "running"
    /\ stack = <<>>
    /\ root_idx < Len(roots)
    /\ root_idx' = root_idx + 1
    /\ LET r == roots[root_idx + 1]
       IN  \/ /\ r = Null \/ r \in visited
              /\ UNCHANGED <<stack, visited, on_stack>>
           \/ /\ r # Null /\ r \notin visited
              /\ Push(<<>>, r)
    /\ UNCHANGED <<next, roots, sorted, status>>

(* The top frame, and the stack with its child_idx advanced. *)
Top == stack[Len(stack)]
Advanced == [stack EXCEPT ![Len(stack)].child_idx = @ + 1]
NextChild == next[Top.node][Top.child_idx + 1]

HasNextChild ==
    /\ status = "running"
    /\ stack # <<>>
    /\ Top.child_idx < Len(next[Top.node])

(* Mutant: continue without the post-increment of child_idx. *)
MutSkipInPlace ==
    /\ HasNextChild
    /\ NextChild = Null \/ (NextChild \in visited /\ NextChild \notin on_stack)
    /\ UNCHANGED vars

(* A null child, or one already sorted, is passed over. *)
SkipChild ==
    /\ HasNextChild
    /\ NextChild = Null \/ (NextChild \in visited /\ NextChild \notin on_stack)
    /\ stack' = Advanced
    /\ UNCHANGED <<next, roots, root_idx, visited, on_stack, sorted, status>>

(* Mutant: visited taken for recursion_stack. *)
MutCycleOnVisited ==
    /\ HasNextChild
    /\ NextChild # Null /\ NextChild \in visited
    /\ stack' = Advanced
    /\ status' = "cycle"
    /\ UNCHANGED <<next, roots, root_idx, visited, on_stack, sorted>>

(* A child still on the stack closes a cycle: the sort throws. *)
DetectCycle ==
    /\ HasNextChild
    /\ NextChild # Null /\ NextChild \in on_stack
    /\ stack' = Advanced
    /\ status' = "cycle"
    /\ UNCHANGED <<next, roots, root_idx, visited, on_stack, sorted>>

(* Mutant: the null check of the child is missing. *)
MutDescendNull ==
    /\ HasNextChild
    /\ NextChild \notin on_stack /\ NextChild \notin visited
    /\ Push(Advanced, NextChild)
    /\ UNCHANGED <<next, roots, root_idx, sorted, status>>

(* A child met for the first time is entered. *)
DescendChild ==
    /\ HasNextChild
    /\ NextChild # Null /\ NextChild \notin on_stack /\ NextChild \notin visited
    /\ Push(Advanced, NextChild)
    /\ UNCHANGED <<next, roots, root_idx, sorted, status>>

(* Mutant: off by one in the comparison of child_idx. *)
MutAllButLast == Top.child_idx + 1 >= Len(next[Top.node])

AllChildrenVisited == Top.child_idx >= Len(next[Top.node])

(* Mutant: the Function goes to the front of the result. *)
MutEmitInFront ==
    /\ status = "running"
    /\ stack # <<>>
    /\ AllChildrenVisited
    /\ on_stack' = on_stack \ {Top.node}
    /\ sorted' = <<Top.node>> \o sorted
    /\ stack' = SubSeq(stack, 1, Len(stack) - 1)
    /\ UNCHANGED <<next, roots, root_idx, visited, status>>

(* All children visited: post-order append, then pop. *)
EmitNode ==
    /\ status = "running"
    /\ stack # <<>>
    /\ AllChildrenVisited
    /\ on_stack' = on_stack \ {Top.node}
    /\ sorted' = Append(sorted, Top.node)
    /\ stack' = SubSeq(stack, 1, Len(stack) - 1)
    /\ UNCHANGED <<next, roots, root_idx, visited, status>>

(* Mutant: only the first root is walked. *)
MutReturnEarly ==
    /\ status = "running"
    /\ stack = <<>>
    /\ root_idx > 0
    /\ status' = "done"
    /\ UNCHANGED <<next, roots, root_idx, stack, visited, on_stack, sorted>>

Return ==
    /\ status = "running"
    /\ stack = <<>>
    /\ root_idx = Len(roots)
    /\ status' = "done"
    /\ UNCHANGED <<next, roots, root_idx, stack, visited, on_stack, sorted>>

Next == TakeRoot \/ SkipChild \/ DetectCycle \/ DescendChild \/ EmitNode \/ Return

Spec == Init /\ [][Next]_vars

(* The loop is one thread's: it keeps running. *)
FairSpec == Spec /\ WF_vars(Next)
-----------------------------------------------------------------------------
(* Only Functions, never null pointers, are pushed, visited and sorted     *)
(* (engine.cpp 878, 1081, 1097).                                           *)
TypeOK ==
    /\ next \in [Function -> Seq(Function \cup {Null})]
    /\ roots \in Seq(Function \cup {Null})
    /\ root_idx \in 0 .. Len(roots)
    /\ stack \in Seq(Frame)
    /\ visited \subseteq Function
    /\ on_stack \subseteq Function
    /\ sorted \in Seq(Function)
    /\ status \in {"running", "done", "cycle"}

(* At every moment the part already sorted has each Function once and its  *)
(* children before it, so that execute(), which walks sorted backwards,    *)
(* runs a Function only after all its consumers (engine.cpp 437, 890-894). *)
SortedIsPostOrder == IsInjective(sorted) /\ ChildrenFirst(next, Null, sorted)

(* A sort that returns has sorted exactly the Functions below the roots:   *)
(* none is missed because a sibling visited it first, none is extra.       *)
SortsExactlyReachable ==
    status = "done" =>
        {sorted[p] : p \in DOMAIN sorted} = ReachableFrom(next, Null, RootSet)

(* "Cycle detected" is thrown only if the graph below the roots has a      *)
(* cycle: a diamond, where a Function is met twice, never is mistaken for  *)
(* one (recursion_stack against visited, engine.cpp 880-885).              *)
CycleReportIsTrue ==
    status = "cycle" => HasCycleIn(next, Null, ReachableFrom(next, Null, RootSet))

(* The loop ends, with a result or an exception, on every graph            *)
(* (engine.cpp 864-896).                                                   *)
SortTerminates == <>(status # "running")
-----------------------------------------------------------------------------
(* The sort as its callers see it: no result until it is done. *)
Abstract == INSTANCE SortContract WITH result <- IF status = "done" THEN sorted ELSE <<>>

(* What the callers of the sort rely on (engine.cpp 366, 437): in one step *)
(* it yields one of the topological orders of the graph below the roots,   *)
(* or throws.                                                              *)
ContractSpec == Abstract!Spec
=============================================================================
