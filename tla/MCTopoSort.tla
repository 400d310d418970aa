----------------------------- MODULE MCTopoSort -----------------------------
EXTENDS TopoSort

(* Every graph of Function whose Functions have at most MaxInputs inputs,  *)
(* and every list of at most MaxRoots roots.                               *)
CONSTANTS MaxInputs, MaxRoots

ListsUpTo(n) == UNION {[1 .. k -> Function \cup {Null}] : k \in 0 .. n}
AllGraphs == [Function -> ListsUpTo(MaxInputs)]
AllRootLists == ListsUpTo(MaxRoots) \ {<<>>}
=============================================================================
