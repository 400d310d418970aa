------------------------------ MODULE GraphOps ------------------------------
(***************************************************************************)
(* Vocabulary for the autograd graph.  A graph is a function next that     *)
(* gives every Function its vector next_functions(): a sequence of         *)
(* Functions in which Null stands for an input that has no grad_fn.        *)
(* Reachability is stated without recursion, as membership in every closed *)
(* set, so that the same definitions serve TLC and the provers.            *)
(***************************************************************************)
EXTENDS Integers, Sequences, FiniteSets, Functions

(* The non-null entries of a Function's next_functions(). *)
Children(next, null, n) == {next[n][i] : i \in DOMAIN next[n]} \ {null}

(* S is closed under next_functions(). *)
Closed(next, null, S) == \A n \in S : Children(next, null, n) \subseteq S

(* The Functions that can be reached from R. *)
ReachableFrom(next, null, R) ==
    {n \in DOMAIN next : \A S \in SUBSET DOMAIN next :
                            R \subseteq S /\ Closed(next, null, S) => n \in S}

(* Some cycle runs inside S: a non-empty part of S in which every member   *)
(* has a child of that part (for a finite S this is a cycle).              *)
HasCycleIn(next, null, S) ==
    \E C \in SUBSET S : /\ C # {}
                        /\ \A n \in C : Children(next, null, n) \cap C # {}

(* Every child of s[p] stands before s[p]. *)
ChildrenFirst(next, null, s) ==
    \A p \in DOMAIN s : \A c \in Children(next, null, s[p]) :
        \E q \in DOMAIN s : q < p /\ s[q] = c

(* All the orders a sort of the graph below R may return: each reachable   *)
(* Function once, children first.  Empty when there is a cycle below R.    *)
TopologicalOrders(next, null, R) ==
    LET S == ReachableFrom(next, null, R)
    IN  {s \in [1 .. Cardinality(S) -> S] :
            IsInjective(s) /\ ChildrenFirst(next, null, s)}
=============================================================================
