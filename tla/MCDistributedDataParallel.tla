--------------------- MODULE MCDistributedDataParallel ---------------------
EXTENDS DistributedDataParallel, TLC

CONSTANTS r1, r2, pa, pb, pc

Step   == <<"zero_grad", "forward", "backward", "synchronize_gradients">>
Train  == Step \o Step
Guard  == <<"no_sync", "forward", "backward", "forward", "backward", "end_no_sync">>
Manual == <<"auto_sync_off", "reset_buckets", "forward", "backward", "forward", "backward",
            "synchronize_gradients", "zero_grad", "reset_buckets", "forward", "backward",
            "synchronize_gradients">>
Dynamic == Step \o <<"invalidate_unused_cache">> \o Step \o Step

Base == [params |-> <<pa, pb, pc>>, bytes |-> (pa :> 1) @@ (pb :> 1) @@ (pc :> 2), limit |-> 3,
         uses |-> <<>>, gpu |-> FALSE, compress |-> FALSE, find_unused |-> FALSE,
         program |-> Train]

Same(p)      == [r \in Rank |-> p]
OneWith(p, q) == [r \in Rank |-> IF r = r1 THEN p ELSE q]

(* Blocking and asynchronous reductions; both ranks deliver in one order.   *)
Trains == {[Base EXCEPT !.limit = l, !.gpu = g, !.uses = <<Same(u), Same(v)>>] :
             l \in {1, 3, 4}, g \in BOOLEAN,
             u \in {<<pc, pb, pa>>, <<pb, pc, pa>>}, v \in {<<pc, pb, pa>>, <<pc, pa>>}}

(* On streams the order may differ inside a bucket. *)
Reordered == {[Base EXCEPT !.gpu = TRUE, !.limit = l,
                           !.uses = <<OneWith(<<pc, pb, pa>>, <<pb, pc, pa>>), Same(<<pc, pb, pa>>)>>] :
                l \in {3, 4}}

(* An unused parameter, found in the first step and counted in the next;    *)
(* after invalidate_unused_cache() it may be used again.                    *)
Unused == {[Base EXCEPT !.gpu = g, !.find_unused = TRUE, !.program = Dynamic,
                        !.uses = <<Same(<<pc, pa>>), Same(u), Same(u)>>] :
             g \in BOOLEAN, u \in {<<pc, pb, pa>>, <<pc, pa>>}}

(* Accumulation over two passes, under the guard or by hand. *)
Accumulating ==
  {[Base EXCEPT !.gpu = g, !.program = prog,
                !.uses = <<Same(<<pc, pb, pa>>), Same(<<pb, pa, pb>>), Same(<<pc, pb, pa>>)>>] :
     g \in BOOLEAN, prog \in {Manual, Guard}}

(* The same with a compressor. *)
Compressing ==
  {[Base EXCEPT !.gpu = g, !.compress = TRUE, !.program = prog, !.params = <<pa, pb>>,
                !.uses = <<Same(<<pb, pa>>), Same(<<pb, pa, pb>>), Same(<<pb, pa>>)>>] :
     g \in BOOLEAN, prog \in {Manual, Guard}}

Guarded == {[Base EXCEPT !.gpu = g, !.program = Guard \o Step,
                         !.uses = <<Same(<<pc, pb, pa>>), Same(<<pb, pa>>), Same(<<pc, pb, pa>>)>>] :
              g \in BOOLEAN}

Programs == Trains \cup Reordered \cup Unused \cup Accumulating \cup Compressing \cup Guarded

(* One step of the program in the documentation, on a CPU backend. *)
Documented == {[Base EXCEPT !.program = Step, !.uses = <<Same(<<pc, pb, pa>>)>>]}

=============================================================================
