---------------------------- MODULE SortContract ----------------------------
(***************************************************************************)
(* What the engine needs of its sort, and all that BackwardEngine assumes: *)
(* one step that yields some topological order of everything below the     *)
(* roots, or an exception when there is a cycle and no such order.         *)
(***************************************************************************)
EXTENDS GraphOps

CONSTANTS Null, Graphs, RootLists

VARIABLES next, roots, result, status

vars == <<next, roots, result, status>>

RootSet == {roots[i] : i \in DOMAIN roots} \ {Null}

Init ==
    /\ next \in Graphs
    /\ roots \in RootLists
    /\ result = <<>>
    /\ status = "running"

Sort ==
    /\ status = "running"
    /\ \E s \in TopologicalOrders(next, Null, RootSet) : result' = s
    /\ status' = "done"
    /\ UNCHANGED <<next, roots>>

Throw ==
    /\ status = "running"
    /\ HasCycleIn(next, Null, ReachableFrom(next, Null, RootSet))
    /\ status' = "cycle"
    /\ UNCHANGED <<next, roots, result>>

Next == Sort \/ Throw

Spec == Init /\ [][Next]_vars
=============================================================================
