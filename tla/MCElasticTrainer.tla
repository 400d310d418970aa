-------------------------- MODULE MCElasticTrainer --------------------------
EXTENDS ElasticTrainer

CONSTANTS w1, w2, w3

Config(t, lo, hi, n) ==
    [team |-> t, min |-> lo, max |-> hi, restarts |-> n]

(* Two workers that restart once: room for both, for one, both needed; and *)
(* three that compete for two places.                                      *)
SmallTeams == { Config({w1, w2}, 1, 2, 1), Config({w1, w2}, 1, 1, 1),
                Config({w1, w2}, 2, 2, 1), Config({w1, w2, w3}, 2, 2, 0) }
=============================================================================
