--------------------------- MODULE ElasticTrainer ---------------------------
(***************************************************************************)
(* elastic::ElasticTrainer on every worker: run() joins the rendezvous,    *)
(* calls train_fn and starts over when it throws; train_fn may poll        *)
(* check_and_recover(), which starts a HealthMonitor and joins again when  *)
(* the monitor holds a peer for dead.  A worker may crash at any step; the *)
(* process that serves the store outlives the others.                      *)
(*                                                                         *)
(* A heartbeat's answer is up to the network, so the monitor may take any  *)
(* rank it watches for dead, and for alive again.                          *)
(***************************************************************************)
EXTENDS Rendezvous

CONSTANT MaxCrashes  \* bound: workers that crash

ASSUME MaxCrashesAssumption == MaxCrashes \in Nat

VARIABLES
    phase,      \* where every worker's run() is
    restarts,   \* restart_count_
    worldOf,    \* current_rank_ and current_world_size_
    monitored,  \* health_monitor_: the ranks it watches; NoMonitor: none exists
    dead,       \* the ranks it holds for dead
    joins       \* history: the joins that succeeded

vars == <<rdzvVars, phase, restarts, worldOf, monitored, dead, joins>>

NoMonitor == {-1}
Nowhere == [rank |-> -1, size |-> 0]
Peers(m) == (0..m.size - 1) \ {m.rank}
Ended == {"new", "returned", "gave_up", "crashed"}

TypeOK ==
    /\ RdzvTypeOK
    /\ phase \in [Worker -> Ended \cup {"joining", "training", "recovering"}]
    /\ restarts \in [Worker -> 0..config.restarts + 1]
    /\ worldOf \in [Worker -> [rank : Nat \cup {-1}, size : 0..config.max]]
    /\ monitored \in [Worker -> (SUBSET (0..config.max - 1)) \cup {NoMonitor}]
    /\ dead \in [Worker -> SUBSET (0..config.max - 1)]
    /\ \A w \in Worker : dead[w] \subseteq monitored[w]
    /\ joins \in [Worker -> Nat]

Init ==
    /\ RdzvInit
    /\ phase = [w \in Worker |-> "new"]
    /\ restarts = [w \in Worker |-> 0]
    /\ worldOf = [w \in Worker |-> Nowhere]
    /\ monitored = [w \in Worker |-> NoMonitor]
    /\ dead = [w \in Worker |-> {}]
    /\ joins = [w \in Worker |-> 0]
-----------------------------------------------------------------------------
(* run() calls join(). *)
Run(w) ==
    /\ phase[w] = "new"
    /\ w \in config.team
    /\ phase' = [phase EXCEPT ![w] = "joining"]
    /\ at' = [at EXCEPT ![w] = "start"]
    /\ UNCHANGED <<config, store, local, restarts, worldOf, monitored, dead, joins>>

Live(w) == phase[w] \in {"joining", "recovering"}

Join(w) ==
    /\ Live(w)
    /\ JoinStep(w)
    /\ UNCHANGED <<phase, restarts, worldOf, monitored, dead, joins>>

Accept(w) ==
    /\ Go(w, "returned", "idle")
    /\ worldOf' = [worldOf EXCEPT ![w] = [rank |-> rank[w], size |-> size[w]]]
    /\ phase' = [phase EXCEPT ![w] = "training"]
    /\ joins' = [joins EXCEPT ![w] = @ + 1]
    /\ UNCHANGED <<config, store, local>>

JoinReturned(w) ==
    /\ phase[w] = "joining"
    /\ Accept(w)
    /\ UNCHANGED <<restarts, monitored, dead>>

JoinThrew(w) ==
    /\ phase[w] = "joining"
    /\ \/ /\ restarts[w] >= config.restarts
          /\ Go(w, "threw", "idle")
          /\ phase' = [phase EXCEPT ![w] = "gave_up"]
          /\ UNCHANGED restarts
       \/ /\ restarts[w] < config.restarts
          /\ Go(w, "threw", "start")
          /\ restarts' = [restarts EXCEPT ![w] = @ + 1]
          /\ UNCHANGED phase
    /\ UNCHANGED <<config, store, local, worldOf, monitored, dead, joins>>

TrainReturns(w) ==
    /\ phase[w] = "training"
    /\ phase' = [phase EXCEPT ![w] = "returned"]
    /\ UNCHANGED <<rdzvVars, restarts, worldOf, monitored, dead, joins>>

(* The checkpoint hook writes files only; then leave(). *)
TrainThrows(w) ==
    /\ phase[w] = "training"
    /\ Leave(w)
    /\ restarts' = [restarts EXCEPT ![w] = @ + 1]
    /\ \/ /\ restarts[w] + 1 > config.restarts
          /\ phase' = [phase EXCEPT ![w] = "gave_up"]
          /\ UNCHANGED at
       \/ /\ restarts[w] + 1 <= config.restarts
          /\ phase' = [phase EXCEPT ![w] = "joining"]
          /\ at' = [at EXCEPT ![w] = "start"]
    /\ UNCHANGED <<worldOf, monitored, dead, joins>>
-----------------------------------------------------------------------------
(* check_and_recover(): the first call starts the monitor and finds nobody *)
(* dead.                                                                   *)
StartMonitor(w) ==
    /\ phase[w] = "training"
    /\ monitored[w] = NoMonitor
    /\ monitored' = [monitored EXCEPT ![w] = Peers(worldOf[w])]
    /\ UNCHANGED <<rdzvVars, phase, restarts, worldOf, dead, joins>>

(* The monitor thread; what it finds while the worker joins is discarded. *)
Heartbeats(w) ==
    /\ phase[w] = "training"
    /\ monitored[w] # NoMonitor
    /\ \E k \in monitored[w] :
           dead' = [dead EXCEPT ![w] = IF k \in @ THEN @ \ {k} ELSE @ \cup {k}]
    /\ UNCHANGED <<rdzvVars, phase, restarts, worldOf, monitored, joins>>

(* Mutant: the restart budget is not looked at. *)
MutRecover(w) ==
    /\ phase[w] = "training"
    /\ dead[w] # {}
    /\ Leave(w)
    /\ phase' = [phase EXCEPT ![w] = "recovering"]
    /\ at' = [at EXCEPT ![w] = "start"]
    /\ UNCHANGED <<restarts, worldOf, monitored, dead, joins>>

(* Somebody is dead and the budget allows it: leave() and join(). *)
Recover(w) ==
    /\ phase[w] = "training"
    /\ dead[w] # {}
    /\ restarts[w] < config.restarts
    /\ Leave(w)
    /\ phase' = [phase EXCEPT ![w] = "recovering"]
    /\ at' = [at EXCEPT ![w] = "start"]
    /\ UNCHANGED <<restarts, worldOf, monitored, dead, joins>>

RecoverReturned(w) ==
    /\ phase[w] = "recovering"
    /\ Accept(w)
    /\ monitored' = [monitored EXCEPT ![w] = Peers([rank |-> rank[w], size |-> size[w]])]
    /\ dead' = [dead EXCEPT ![w] = {}]
    /\ restarts' = [restarts EXCEPT ![w] = @ + 1]

(* check_and_recover() returns false and train_fn goes on. *)
RecoverThrew(w) ==
    /\ phase[w] = "recovering"
    /\ Go(w, "threw", "idle")
    /\ phase' = [phase EXCEPT ![w] = "training"]
    /\ worldOf' = [worldOf EXCEPT ![w] = Nowhere]
    /\ monitored' = [monitored EXCEPT ![w] = NoMonitor]
    /\ dead' = [dead EXCEPT ![w] = {}]
    /\ UNCHANGED <<config, store, local, restarts, joins>>

Crash(w) ==
    /\ phase[w] \notin Ended
    /\ Cardinality({v \in Worker : phase[v] = "crashed"}) < MaxCrashes
    /\ phase' = [phase EXCEPT ![w] = "crashed"]
    /\ UNCHANGED <<rdzvVars, restarts, worldOf, monitored, dead, joins>>

Call(w) == Run(w) \/ JoinReturned(w) \/ JoinThrew(w) \/ RecoverReturned(w) \/ RecoverThrew(w)
Train(w) == TrainReturns(w) \/ TrainThrows(w)

Next == \E w \in Worker :
    Call(w) \/ Join(w) \/ Train(w) \/ StartMonitor(w) \/ Heartbeats(w) \/ Recover(w) \/ Crash(w)

Spec == Init /\ [][Next]_vars

(* Every process goes on with the code it is in, every deadline passes,    *)
(* and every train_fn ends, one way or the other.                          *)
FairSpec == /\ Spec
            /\ \A w \in Worker : WF_vars(Call(w)) /\ WF_vars(Join(w)) /\ WF_vars(Train(w))
-----------------------------------------------------------------------------
(* run() and check_and_recover() share one budget: a worker enters at most *)
(* max_restarts + 1 worlds (elastic_trainer.cpp:130-135).                  *)
JoinsWithinBudget == \A w \in Worker : joins[w] <= config.restarts + 1

(* Whoever crashes, every run() comes to an end: no join() waits for ever  *)
(* for a peer or a coordinator (rendezvous.cpp:214-240).                   *)
EveryRunEnds ==
    \A w \in Worker : (phase[w] = "joining") ~> (phase[w] \in Ended)
=============================================================================
