-------------------------- MODULE ModelRepository --------------------------
(***************************************************************************)
(* serving::ModelRepository, and the handlers that use it: predict calls,  *)
(* load_model() and unload_model(), each on a thread of its own.           *)
(*                                                                         *)
(* An entry is named by the load call that makes it.  Its batcher is seen  *)
(* as BatcherContract sees it: the gate, and the answers of those who      *)
(* submitted.  A ModelEntry lives as long as the map or a handler refers   *)
(* to it; whoever drops the last reference runs ~DynamicBatcher(), which   *)
(* stops the batch thread.  A call refused before it gets to the           *)
(* repository (authentication, rate limit, path) is no step.               *)
(***************************************************************************)
EXTENDS FiniteSets

CONSTANTS Name,     \* model names
          Predict,  \* predict calls
          Load,     \* load calls, and the entries they make
          Unload,   \* unload calls
          None

ASSUME CallsAssumption == None \notin Load \cup Unload

VARIABLES
    models,   \* models_: the entry of every name, or None
    entry,    \* every ModelEntry: its name, its state, the gate of its batcher
    mutex,    \* the call that holds mutex_ while it waits for a batch thread, or None
    predict,  \* every predict call: where it is, name, model, and its status
    load,     \* every load call: where it is, and the entry it replaced
    unload    \* every unload call: where it is, and its name

repository == <<models, entry, mutex, predict, load, unload>>

ModelState == {"LOADING", "READY", "UNLOADING", "FAILED"}

TypeOK ==
    /\ models \in [Name -> Load \cup {None}]
    /\ entry \in [Load -> [name : Name \cup {None}, state : ModelState,
                           gate : {"shut", "open", "closing"}]]
    /\ mutex \in Load \cup Unload \cup {None}
    /\ predict \in [Predict -> [at : {"idle", "get", "check", "parse", "submit", "waiting",
                                      "leave", "destroy", "done"},
                                name : Name \cup {None}, model : Load \cup {None},
                                status : {"none", "404", "400", "rejected", "value", "error"}]]
    /\ load \in [Load -> [at : {"idle", "build", "publish", "destroy", "done"},
                          old : Load \cup {None}]]
    /\ unload \in [Unload -> [at : {"idle", "find", "stop", "join", "done"},
                              name : Name \cup {None}]]

Init ==
    /\ models = [n \in Name |-> None]
    /\ entry = [e \in Load |-> [name |-> None, state |-> "LOADING", gate |-> "shut"]]
    /\ mutex = None
    /\ predict = [r \in Predict |-> [at |-> "idle", name |-> None, model |-> None,
                                     status |-> "none"]]
    /\ load = [l \in Load |-> [at |-> "idle", old |-> None]]
    /\ unload = [u \in Unload |-> [at |-> "idle", name |-> None]]

(* The predict calls that refer to an entry, and those in its future.get(). *)
Holders(e) == {r \in Predict : /\ predict[r].model = e
                               /\ predict[r].at \in {"check", "parse", "submit", "waiting", "leave"}}
Pending(e) == {r \in Holders(e) : predict[r].at = "waiting"}

Gate(e, g) == entry' = [entry EXCEPT ![e].gate = g]
-----------------------------------------------------------------------------
(* The predict handler. *)
Goto(r, from, to) == predict[r].at = from /\ predict' = [predict EXCEPT ![r].at = to]
Reply(r, from, to, s) ==
    predict[r].at = from /\ predict' = [predict EXCEPT ![r].at = to, ![r].status = s]

PredictArrives(r, n) ==
    /\ predict[r].at = "idle"
    /\ predict' = [predict EXCEPT ![r].at = "get", ![r].name = n]
    /\ UNCHANGED <<models, entry, mutex, load, unload>>

(* get_model(). *)
GetModel(r) ==
    /\ predict[r].at = "get"
    /\ mutex = None
    /\ LET e == models[predict[r].name]
       IN  \/ e = None /\ Reply(r, "get", "done", "404")
           \/ /\ e # None
              /\ predict' = [predict EXCEPT ![r].at = "check", ![r].model = e]
    /\ UNCHANGED <<models, entry, mutex, load, unload>>

CheckReady(r) ==
    /\ \/ Reply(r, "check", "leave", "404") /\ entry[predict[r].model].state # "READY"
       \/ Goto(r, "check", "parse") /\ entry[predict[r].model].state = "READY"
    /\ UNCHANGED <<models, entry, mutex, load, unload>>

Parse(r) ==
    /\ Reply(r, "parse", "leave", "400") \/ Goto(r, "parse", "submit")
    /\ UNCHANGED <<models, entry, mutex, load, unload>>

(* submit(): a batcher that does not run fails the future. *)
Submit(r) ==
    /\ \/ Goto(r, "submit", "waiting") /\ entry[predict[r].model].gate = "open"
       \/ Reply(r, "submit", "leave", "rejected") /\ entry[predict[r].model].gate # "open"
    /\ UNCHANGED <<models, entry, mutex, load, unload>>

(* The batch thread answers; for an error the handler replies 500. *)
Answer(r) ==
    /\ predict[r].at = "waiting" /\ entry[predict[r].model].gate # "shut"
    /\ \E s \in {"value", "error"} : Reply(r, "waiting", "leave", s)
    /\ UNCHANGED <<models, entry, mutex, load, unload>>

(* The handler's reference goes. *)
Leave(r) ==
    LET e == predict[r].model
    IN  /\ \/ /\ Goto(r, "leave", "done")
              /\ e = models[predict[r].name] \/ Holders(e) # {r}
              /\ UNCHANGED entry
           \/ /\ Goto(r, "leave", "destroy")
              /\ e # models[predict[r].name] /\ Holders(e) = {r}
              /\ Gate(e, "closing")
        /\ UNCHANGED <<models, mutex, load, unload>>

DestroyModel(r) ==
    /\ Goto(r, "destroy", "done")
    /\ Pending(predict[r].model) = {}
    /\ Gate(predict[r].model, "shut")
    /\ UNCHANGED <<models, mutex, load, unload>>
-----------------------------------------------------------------------------
(* load_model(). *)
LoadArrives(l, n) ==
    /\ load[l].at = "idle"
    /\ load' = [load EXCEPT ![l].at = "build"]
    /\ entry' = [entry EXCEPT ![l].name = n]
    /\ UNCHANGED <<models, mutex, predict, unload>>

(* The file cannot be loaded, or is for another device. *)
BuildFails(l) ==
    /\ load[l].at = "build"
    /\ load' = [load EXCEPT ![l].at = "done"]
    /\ entry' = [entry EXCEPT ![l].state = "FAILED"]
    /\ UNCHANGED <<models, mutex, predict, unload>>

(* Mutant: the batcher is not started. *)
MutBuild(l) ==
    /\ load[l].at = "build"
    /\ load' = [load EXCEPT ![l].at = "publish"]
    /\ entry' = [entry EXCEPT ![l].state = "READY"]
    /\ UNCHANGED <<models, mutex, predict, unload>>

(* The module is loaded and its batcher started. *)
Build(l) ==
    /\ load[l].at = "build"
    /\ load' = [load EXCEPT ![l].at = "publish"]
    /\ entry' = [entry EXCEPT ![l].state = "READY", ![l].gate = "open"]
    /\ UNCHANGED <<models, mutex, predict, unload>>

(* Mutant: the replaced model is stopped, whoever uses it. *)
MutPublish(l) ==
    LET old == models[entry[l].name]
    IN  /\ load[l].at = "publish"
        /\ mutex = None
        /\ models' = [models EXCEPT ![entry[l].name] = l]
        /\ \/ /\ old = None
              /\ load' = [load EXCEPT ![l].at = "done"]
              /\ UNCHANGED <<entry, mutex>>
           \/ /\ old # None
              /\ load' = [load EXCEPT ![l] = [at |-> "destroy", old |-> old]]
              /\ Gate(old, "closing")
              /\ mutex' = l
        /\ UNCHANGED <<predict, unload>>

(* Mutant: the replaced model is leaked. *)
MutLeakOld(l) ==
    /\ load[l].at = "publish"
    /\ mutex = None
    /\ models' = [models EXCEPT ![entry[l].name] = l]
    /\ load' = [load EXCEPT ![l].at = "done"]
    /\ UNCHANGED <<entry, mutex, predict, unload>>

(* models_[name] = entry.  A replaced entry that nobody uses is destroyed  *)
(* here, under mutex_.                                                     *)
Publish(l) ==
    LET old == models[entry[l].name]
    IN  /\ load[l].at = "publish"
        /\ mutex = None
        /\ models' = [models EXCEPT ![entry[l].name] = l]
        /\ \/ /\ old = None \/ Holders(old) # {}
              /\ load' = [load EXCEPT ![l].at = "done"]
              /\ UNCHANGED <<entry, mutex>>
           \/ /\ old # None /\ Holders(old) = {}
              /\ load' = [load EXCEPT ![l] = [at |-> "destroy", old |-> old]]
              /\ Gate(old, "closing")
              /\ mutex' = l
        /\ UNCHANGED <<predict, unload>>

DestroyOld(l) ==
    /\ load[l].at = "destroy"
    /\ Pending(load[l].old) = {}
    /\ Gate(load[l].old, "shut")
    /\ load' = [load EXCEPT ![l].at = "done"]
    /\ mutex' = None
    /\ UNCHANGED <<models, predict, unload>>
-----------------------------------------------------------------------------
(* unload_model(): the batcher is stopped with mutex_ held. *)
UnloadArrives(u, n) ==
    /\ unload[u].at = "idle"
    /\ unload' = [unload EXCEPT ![u] = [at |-> "find", name |-> n]]
    /\ UNCHANGED <<models, entry, mutex, predict, load>>

MarkUnloading(u) ==
    LET e == models[unload[u].name]
    IN  /\ unload[u].at = "find"
        /\ mutex = None
        /\ \/ /\ e = None
              /\ unload' = [unload EXCEPT ![u].at = "done"]
              /\ UNCHANGED <<entry, mutex>>
           \/ /\ e # None
              /\ unload' = [unload EXCEPT ![u].at = "stop"]
              /\ entry' = [entry EXCEPT ![e].state = "UNLOADING"]
              /\ mutex' = u
        /\ UNCHANGED <<models, predict, load>>

StopBatcher(u) ==
    /\ unload[u].at = "stop"
    /\ unload' = [unload EXCEPT ![u].at = "join"]
    /\ Gate(models[unload[u].name], "closing")
    /\ UNCHANGED <<models, mutex, predict, load>>

(* Mutant: nobody waits for the batch thread. *)
MutErase(u) ==
    /\ unload[u].at = "join"
    /\ unload' = [unload EXCEPT ![u].at = "done"]
    /\ models' = [models EXCEPT ![unload[u].name] = None]
    /\ Gate(models[unload[u].name], "shut")
    /\ mutex' = None
    /\ UNCHANGED <<predict, load>>

(* stop() returns, and the entry goes. *)
Erase(u) ==
    /\ unload[u].at = "join"
    /\ Pending(models[unload[u].name]) = {}
    /\ unload' = [unload EXCEPT ![u].at = "done"]
    /\ models' = [models EXCEPT ![unload[u].name] = None]
    /\ Gate(models[unload[u].name], "shut")
    /\ mutex' = None
    /\ UNCHANGED <<predict, load>>
-----------------------------------------------------------------------------
PredictStep(r) == \/ GetModel(r) \/ CheckReady(r) \/ Parse(r) \/ Submit(r) \/ Answer(r)
                  \/ Leave(r) \/ DestroyModel(r)
LoadStep(l) == BuildFails(l) \/ Build(l) \/ Publish(l) \/ DestroyOld(l)
UnloadStep(u) == MarkUnloading(u) \/ StopBatcher(u) \/ Erase(u)

Arrives == \E n \in Name : \/ \E r \in Predict : PredictArrives(r, n)
                           \/ \E l \in Load : LoadArrives(l, n)
                           \/ \E u \in Unload : UnloadArrives(u, n)

Handle == \/ \E r \in Predict : PredictStep(r)
          \/ \E l \in Load : LoadStep(l)
          \/ \E u \in Unload : UnloadStep(u)

(* No call is under way. *)
Idle == /\ \A r \in Predict : predict[r].at \in {"idle", "done"}
        /\ \A l \in Load : load[l].at \in {"idle", "done"}
        /\ \A u \in Unload : unload[u].at \in {"idle", "done"}
-----------------------------------------------------------------------------
(* A model the map offers serves: whoever gets mutex_ finds only entries   *)
(* that are READY with their batchers running, however loads and unloads   *)
(* of the same name overlap (server.cpp 344-419).                          *)
OfferedModelsServe ==
    mutex = None => \A n \in Name : models[n] # None => /\ entry[models[n]].state = "READY"
                                                        /\ entry[models[n]].gate = "open"
                                                        /\ entry[models[n]].name = n

(* Replacing a model is seamless: while nobody unloads, no handler that    *)
(* found the model is turned away, even one that found the entry that has  *)
(* been replaced since (server.cpp 405-406, 1060-1064, 1100-1101).         *)
ReplacementIsSeamless ==
    (\A u \in Unload : unload[u].at = "idle") =>
        \A r \in Predict : predict[r].model # None => predict[r].status \notin {"404", "rejected"}

(* No batch thread is forgotten: one that neither the map nor a call still *)
(* refers to has been joined (server.cpp 405-418).                         *)
NoBatchThreadIsLost ==
    \A e \in Load : \/ entry[e].gate = "shut"
                    \/ \E n \in Name : models[n] = e
                    \/ Holders(e) # {}
                    \/ load[e].at = "publish"
                    \/ \E r \in Predict : predict[r].model = e /\ predict[r].at = "destroy"
                    \/ \E l \in Load : load[l].old = e /\ load[l].at = "destroy"

(* What the repository asks of a batcher and gets from it is what the      *)
(* batcher's contract allows (server.cpp 411-418, 1100-1101).              *)
Asked(e, r) ==
    IF predict[r].model # e \/ predict[r].at \in {"idle", "get", "check", "parse", "submit"}
       \/ predict[r].status \in {"404", "400"} THEN "new"
    ELSE IF predict[r].at = "waiting" THEN "pending" ELSE predict[r].status
Batcher(e) == INSTANCE BatcherContract WITH
    Request <- Predict, gate <- entry[e].gate, answer <- [r \in Predict |-> Asked(e, r)]
BatchersAreUsedAsAgreed ==
    /\ \A e \in Load : Batcher(e)!Init
    /\ [][\A e \in Load : Batcher(e)!Next \/ UNCHANGED Batcher(e)!vars]_repository
=============================================================================
