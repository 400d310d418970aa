-------------------------- MODULE MCDynamicBatcher --------------------------
EXTENDS DynamicBatcher, TLC

Input(n, f, b) == [dim0 |-> n, form |-> f, bad |-> b]

(* One row, two rows, another form, a scalar, an input the model rejects. *)
Kinds == <<Input(1, "a", FALSE), Input(2, "a", FALSE), Input(1, "b", FALSE),
           Input(Scalar, "a", FALSE), Input(1, "a", TRUE)>>

CONSTANTS r1, r2, r3

(* Every pair of kinds, which may meet in a batch of two in either order,  *)
(* and a plain third request.                                              *)
PairedInputs == {(r1 :> Kinds[1] @@ r2 :> Kinds[i] @@ r3 :> Kinds[j]) :
                    <<i, j>> \in {p \in (1..5) \X (1..5) : p[1] <= p[2]}}
=============================================================================
