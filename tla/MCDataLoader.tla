---------------------------- MODULE MCDataLoader ----------------------------
EXTENDS DataLoader

(* Three batches and an exception, so that batches come out of order, the  *)
(* queue fills and an epoch fails; and two epochs of persistent workers.   *)
Joined == [persistent |-> FALSE, batches |-> 3, epochs |-> 2, faults |-> 1]
Parked == [persistent |-> TRUE, batches |-> 1, epochs |-> 2, faults |-> 0]

Loaders == {Joined, Parked}
OneEpoch == {[Parked EXCEPT !.epochs = 1]}
=============================================================================
