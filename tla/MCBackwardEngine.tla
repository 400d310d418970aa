-------------------------- MODULE MCBackwardEngine --------------------------
EXTENDS BackwardEngine

Program(fns, kinds, roots, ncalls, depth, ops) ==
    [fns |-> fns, kinds |-> kinds, roots |-> roots, calls |-> ncalls, depth |-> depth,
     ops |-> ops]

(* All graphs of three operations under a call with two roots, and under   *)
(* two calls; those of two operations under two calls with two roots each; *)
(* and nested and repeated calls with the program's other calls between.   *)
Programs == {Program(3, {"sum"}, 2, 1, 1, 0),
             Program(3, {"sum"}, 1, 2, 1, 0),
             Program(2, {"sum"}, 2, 2, 1, 0),
             Program(2, {"product", "partial"}, 1, 3, 2, 1)}

(* A chain long enough for two users of its middle. *)
Chains == {Program(4, {"sum"}, 1, 1, 1, 0)}
=============================================================================
