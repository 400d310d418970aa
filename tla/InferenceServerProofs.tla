------------------------ MODULE InferenceServerProofs ------------------------
(***************************************************************************)
(* What ModelRepository promises under the server, for any number of       *)
(* names and calls.  The invariant follows an entry from the load call     *)
(* that makes it, through the map and the handlers that hold it, to the    *)
(* call that drops its last reference: unknown to all until published,     *)
(* serving while the map offers it, and destroyed by one call only, when   *)
(* nobody else can reach it.                                               *)
(***************************************************************************)
EXTENDS InferenceServer, TLAPS

(* The records of the handlers. *)
PredictCall == [at : {"idle", "get", "check", "parse", "submit", "waiting",
                      "leave", "destroy", "done"},
                name : Name \cup {None}, model : Load \cup {None},
                status : {"none", "404", "400", "rejected", "value", "error"}]
Entry == [name : Name \cup {None}, state : ModelState, gate : {"shut", "open", "closing"}]

(* An entry is referred to by the map, by a handler, or by a load call     *)
(* that replaced it.                                                       *)
Offered(e) == \E n \in Name : models[n] = e
Found(e) == \E r \in Predict : predict[r].model = e
Replaced(e) == \E l \in Load : load[l].old = e

Early == {"idle", "get", "check", "parse", "submit", "waiting"}
Holding == {"check", "parse", "submit", "waiting", "leave"}
Stopping == {"stop", "join"}

(* Nobody knows an entry before its load call publishes it, and by then    *)
(* its batcher runs.                                                       *)
UnpublishedIsUnknown ==
    \A e \in Load : load[e].at \in {"idle", "build", "publish"} =>
        /\ ~Offered(e) /\ ~Found(e) /\ ~Replaced(e)
        /\ load[e].at = "publish" => entry[e].state = "READY" /\ entry[e].gate = "open"
        /\ load[e].at # "publish" => entry[e].gate = "shut"
        /\ load[e].at # "idle" => entry[e].name \in Name

(* An entry is found under the name it was loaded for. *)
NamesAgree ==
    /\ \A n \in Name : models[n] # None => entry[models[n]].name = n
    /\ \A r \in Predict : predict[r].model # None => entry[predict[r].model].name = predict[r].name

(* Where a handler has a name, an entry and a status. *)
HandlersProgress ==
    \A r \in Predict : /\ predict[r].at # "idle" => predict[r].name \in Name
                       /\ predict[r].at \in {"idle", "get"} => predict[r].model = None
                       /\ predict[r].at \in Holding \cup {"destroy"} => predict[r].model \in Load
                       /\ predict[r].at \in Early => predict[r].status = "none"

(* One call at a time destroys or stops a batcher under mutex_. *)
MutexIsHeld ==
    /\ \A l \in Load : load[l].at = "destroy" => mutex = l
    /\ \A u \in Unload : unload[u].at \in Stopping => mutex = u
    /\ \A u \in Unload : unload[u].at # "idle" => unload[u].name \in Name
    /\ \A u \in Unload : unload[u].at \in Stopping => models[unload[u].name] # None
    /\ \A u \in Unload, l \in Load : ~(load[l].at = "destroy" /\ unload[u].at \in Stopping)

(* What the map offers serves, but for the one being unloaded. *)
OffersServe ==
    \A n \in Name :
        models[n] # None /\ (\A u \in Unload : unload[u].at \in Stopping => unload[u].name # n)
        => entry[models[n]].state = "READY" /\ entry[models[n]].gate = "open"

(* Who destroys an entry is the only one left that refers to it, and its   *)
(* batcher is being stopped.                                               *)
LoadersDestroyAlone ==
    \A l \in Load : load[l].at = "destroy" =>
        /\ load[l].old \in Load
        /\ ~Offered(load[l].old) /\ Holders(load[l].old) = {}
        /\ entry[load[l].old].gate = "closing"
        /\ \A r \in Predict : predict[r].at = "destroy" => predict[r].model # load[l].old
HandlersDestroyAlone ==
    \A r \in Predict : predict[r].at = "destroy" =>
        /\ predict[r].model \in Load
        /\ ~Offered(predict[r].model) /\ Holders(predict[r].model) = {}
        /\ entry[predict[r].model].gate = "closing"
        /\ \A q \in Predict : predict[q].at = "destroy" /\ predict[q].model = predict[r].model
                              => q = r
StoppedIsClosing ==
    \A u \in Unload : unload[u].at = "join" => entry[models[unload[u].name]].gate = "closing"

(* Until something is unloaded, whatever a handler holds serves. *)
HeldModelsServe ==
    (\A u \in Unload : unload[u].at = "idle") =>
        \A r \in Predict : predict[r].at \in Holding =>
            entry[predict[r].model].state = "READY" /\ entry[predict[r].model].gate = "open"

IInv ==
    /\ TypeOK
    /\ UnpublishedIsUnknown /\ NamesAgree /\ HandlersProgress /\ MutexIsHeld
    /\ LoadersDestroyAlone /\ HandlersDestroyAlone /\ StoppedIsClosing
    /\ OffersServe /\ HeldModelsServe /\ ReplacementIsSeamless /\ NoBatchThreadIsLost

(* What every entry's batcher sees of a step is a step of its contract. *)
Agreed == \A e \in Load : Batcher(e)!Next \/ UNCHANGED Batcher(e)!vars

(* A step that submits and answers nothing. *)
LEMMA GateMoves ==
    ASSUME \A e \in Load, r \in Predict : Asked(e, r)' = Asked(e, r),
           \A e \in Load : \/ entry'[e].gate \in {entry[e].gate, "closing"}
                           \/ entry[e].gate = "shut" /\ entry'[e].gate = "open"
                           \/ /\ entry[e].gate = "closing" /\ entry'[e].gate = "shut"
                              /\ \A r \in Predict : Asked(e, r) # "pending"
    PROVE  Agreed
<1>. SUFFICES ASSUME NEW e \in Load
              PROVE  Batcher(e)!Next \/ UNCHANGED Batcher(e)!vars
  BY DEF Agreed
<1>1. [r \in Predict |-> Asked(e, r)]' = [r \in Predict |-> Asked(e, r)]
  OBVIOUS
<1>2. CASE entry'[e].gate = entry[e].gate
  BY <1>1, <1>2 DEF Batcher!vars
<1>3. CASE entry'[e].gate = "closing"
  BY <1>1, <1>3 DEF Batcher!Next, Batcher!Close
<1>4. CASE entry[e].gate = "shut" /\ entry'[e].gate = "open"
  BY <1>1, <1>4 DEF Batcher!Next, Batcher!Open
<1>5. CASE /\ entry[e].gate = "closing" /\ entry'[e].gate = "shut"
           /\ \A r \in Predict : Asked(e, r) # "pending"
  BY <1>1, <1>5 DEF Batcher!Next, Batcher!Shut
<1>. QED  BY <1>2, <1>3, <1>4, <1>5

(* A step that submits one request. *)
LEMMA SubmitAgreed ==
    ASSUME NEW r \in Predict, UNCHANGED entry,
           \A e \in Load, q \in Predict :
               q # r \/ e # predict[r].model => Asked(e, q)' = Asked(e, q),
           Asked(predict[r].model, r) = "new",
           \A e \in Load : e = predict[r].model =>
               Asked(e, r)' = IF entry[e].gate = "open" THEN "pending" ELSE "rejected"
    PROVE  Agreed
<1>. SUFFICES ASSUME NEW e \in Load
              PROVE  Batcher(e)!Next \/ UNCHANGED Batcher(e)!vars
  BY DEF Agreed
<1>1. CASE e # predict[r].model
  <2>1. [q \in Predict |-> Asked(e, q)]' = [q \in Predict |-> Asked(e, q)]
    BY <1>1
  <2>. QED  BY <2>1 DEF Batcher!vars
<1>2. CASE e = predict[r].model
  <2>1. Batcher(e)!Submit(r)
    BY <1>2 DEF Batcher!Submit
  <2>. QED  BY <2>1 DEF Batcher!Next
<1>. QED  BY <1>1, <1>2

(* A step that answers one request. *)
LEMMA AnswerAgreed ==
    ASSUME NEW r \in Predict, UNCHANGED entry,
           \A e \in Load, q \in Predict :
               q # r \/ e # predict[r].model => Asked(e, q)' = Asked(e, q),
           Asked(predict[r].model, r) = "pending",
           \A e \in Load : e = predict[r].model => Asked(e, r)' \in {"value", "error"}
    PROVE  Agreed
<1>. SUFFICES ASSUME NEW e \in Load
              PROVE  Batcher(e)!Next \/ UNCHANGED Batcher(e)!vars
  BY DEF Agreed
<1>1. CASE e # predict[r].model
  <2>1. [q \in Predict |-> Asked(e, q)]' = [q \in Predict |-> Asked(e, q)]
    BY <1>1
  <2>. QED  BY <2>1 DEF Batcher!vars
<1>2. CASE e = predict[r].model
  <2>. DEFINE a == [s \in {r} |-> Asked(e, r)']
  <2>1. a \in [{r} -> {"value", "error"}]
    BY <1>2
  <2>2. [q \in Predict |-> Asked(e, q)]'
           = [q \in Predict |-> IF q \in {r} THEN a[q] ELSE Asked(e, q)]
    OBVIOUS
  <2>3. Batcher(e)!Answer({r})
    BY <1>2, <2>1, <2>2 DEF Batcher!Answer
  <2>. QED  BY <2>3 DEF Batcher!Next
<1>. QED  BY <1>1, <1>2


(* A step of a handler that neither finds an entry nor lets go of one. *)
SameHolder(r) ==
    /\ predict' \in [Predict -> PredictCall]
    /\ \A q \in Predict : q # r => predict'[q] = predict[q]
    /\ predict'[r].model = predict[r].model
    /\ predict[r].model # None => predict'[r].name = predict[r].name
    /\ predict'[r].at \in Holding <=> predict[r].at \in Holding
    /\ predict'[r].at = "destroy" <=> predict[r].at = "destroy"
    /\ UNCHANGED <<models, entry, mutex, load, unload>>

(* Such a step preserves all that does not look into the handlers. *)
LEMMA SameReferences ==
    ASSUME IInv, NEW r \in Predict, SameHolder(r)
    PROVE  /\ TypeOK' /\ UnpublishedIsUnknown' /\ NamesAgree' /\ MutexIsHeld'
           /\ LoadersDestroyAlone' /\ HandlersDestroyAlone' /\ StoppedIsClosing'
           /\ OffersServe' /\ HeldModelsServe' /\ NoBatchThreadIsLost'
<1>1. TypeOK /\ UNCHANGED <<models, entry, mutex, load, unload>>
  BY DEF IInv, SameHolder
<1>2. \A q \in Predict : /\ predict'[q].model = predict[q].model
                         /\ predict[q].model # None => predict'[q].name = predict[q].name
                         /\ predict'[q].at \in Holding <=> predict[q].at \in Holding
                         /\ predict'[q].at = "destroy" <=> predict[q].at = "destroy"
  BY DEF SameHolder
<1>3. ASSUME NEW e
      PROVE  /\ Offered(e)' <=> Offered(e)
             /\ Found(e)' <=> Found(e)
             /\ Replaced(e)' <=> Replaced(e)
             /\ Holders(e)' = Holders(e)
  BY <1>1, <1>2 DEF Offered, Found, Replaced, Holders, Holding
<1>4. TypeOK'
  BY <1>1 DEF TypeOK, SameHolder, PredictCall
<1>5. UnpublishedIsUnknown'
  BY <1>1, <1>3 DEF IInv, UnpublishedIsUnknown
<1>6. NamesAgree'
  BY <1>1, <1>2 DEF IInv, NamesAgree
<1>7. MutexIsHeld' /\ OffersServe' /\ StoppedIsClosing'
  BY <1>1 DEF IInv, MutexIsHeld, OffersServe, StoppedIsClosing
<1>8. LoadersDestroyAlone' /\ HandlersDestroyAlone'
  BY <1>1, <1>2, <1>3 DEF IInv, LoadersDestroyAlone, HandlersDestroyAlone
<1>9. HeldModelsServe'
  BY <1>1, <1>2 DEF IInv, HeldModelsServe
<1>10. NoBatchThreadIsLost'
  BY <1>1, <1>2, <1>3 DEF IInv, NoBatchThreadIsLost
<1>. QED  BY <1>4, <1>5, <1>6, <1>7, <1>8, <1>9, <1>10

(* A step that changes the gate of one batcher. *)
LEMMA GateChange ==
    ASSUME TypeOK, NEW e \in Load, NEW g \in {"shut", "open", "closing"}, Gate(e, g)
    PROVE  /\ entry' \in [Load -> Entry]
           /\ \A x \in Load : x # e => entry'[x] = entry[x]
           /\ entry'[e].gate = g
           /\ \A x \in Load : entry'[x].name = entry[x].name /\ entry'[x].state = entry[x].state
<1>1. entry \in [Load -> Entry] /\ entry' = [entry EXCEPT ![e].gate = g]
  BY DEF TypeOK, Entry, Gate
<1>. QED  BY <1>1 DEF Entry

(* A call arrives. *)
LEMMA PredictArrivesStep ==
    ASSUME IInv, NEW r \in Predict, NEW n \in Name, PredictArrives(r, n)
    PROVE  IInv' /\ Agreed
<1>1. TypeOK /\ predict \in [Predict -> PredictCall]
  BY DEF IInv, TypeOK, PredictCall
<1>2. predict[r].at = "idle" /\ HandlersProgress
  BY DEF IInv, PredictArrives, Goto, Reply
<1>3. predict' \in [Predict -> PredictCall]
  BY <1>1 DEF PredictArrives, Goto, Reply, PredictCall
<1>4. /\ \A q \in Predict : q # r => predict'[q] = predict[q]
      /\ predict'[r].model = predict[r].model
      /\ predict'[r].name = n
      /\ predict'[r].at = "get" /\ predict'[r].status = predict[r].status
  BY <1>1 DEF PredictArrives, Goto, Reply, PredictCall
<1>5. SameHolder(r)
  BY <1>2, <1>3, <1>4 DEF SameHolder, HandlersProgress, Holding, PredictArrives
<1>6. HandlersProgress'
  BY <1>2, <1>4 DEF HandlersProgress, Holding, Early
<1>7. ReplacementIsSeamless'
  BY <1>2, <1>4 DEF IInv, ReplacementIsSeamless, HeldModelsServe, HandlersProgress,
     Holding, Early, PredictArrives
<1>8. Agreed
  <2>1. \A e \in Load, q \in Predict : Asked(e, q)' = Asked(e, q)
    BY <1>2, <1>4 DEF Asked, HandlersProgress
  <2>. QED  BY <2>1, GateMoves DEF PredictArrives
<1>. QED  BY <1>5, <1>6, <1>7, <1>8, SameReferences DEF IInv

(* Only an unload makes the answer 404. *)
LEMMA CheckReadyStep ==
    ASSUME IInv, NEW r \in Predict, CheckReady(r)
    PROVE  IInv' /\ Agreed
<1>1. TypeOK /\ predict \in [Predict -> PredictCall]
  BY DEF IInv, TypeOK, PredictCall
<1>2. predict[r].at = "check" /\ HandlersProgress
  BY DEF IInv, CheckReady, Goto, Reply
<1>3. predict' \in [Predict -> PredictCall]
  BY <1>1 DEF CheckReady, Goto, Reply, PredictCall
<1>4. /\ \A q \in Predict : q # r => predict'[q] = predict[q]
      /\ predict'[r].model = predict[r].model
      /\ predict'[r].name = predict[r].name
      /\ \/ predict'[r].at = "leave" /\ predict'[r].status = "404"
            /\ entry[predict[r].model].state # "READY"
         \/ predict'[r].at = "parse" /\ predict'[r].status = predict[r].status
  BY <1>1 DEF CheckReady, Goto, Reply, PredictCall
<1>5. SameHolder(r)
  BY <1>2, <1>3, <1>4 DEF SameHolder, HandlersProgress, Holding, CheckReady
<1>6. HandlersProgress'
  BY <1>2, <1>4 DEF HandlersProgress, Holding, Early
<1>7. ReplacementIsSeamless'
  BY <1>2, <1>4 DEF IInv, ReplacementIsSeamless, HeldModelsServe, HandlersProgress,
     Holding, Early, CheckReady
<1>8. Agreed
  <2>1. \A e \in Load, q \in Predict : Asked(e, q)' = Asked(e, q)
    BY <1>2, <1>4 DEF Asked, HandlersProgress
  <2>. QED  BY <2>1, GateMoves DEF CheckReady
<1>. QED  BY <1>5, <1>6, <1>7, <1>8, SameReferences DEF IInv

(* The body may be malformed. *)
LEMMA ParseStep ==
    ASSUME IInv, NEW r \in Predict, Parse(r)
    PROVE  IInv' /\ Agreed
<1>1. TypeOK /\ predict \in [Predict -> PredictCall]
  BY DEF IInv, TypeOK, PredictCall
<1>2. predict[r].at = "parse" /\ HandlersProgress
  BY DEF IInv, Parse, Goto, Reply
<1>3. predict' \in [Predict -> PredictCall]
  BY <1>1 DEF Parse, Goto, Reply, PredictCall
<1>4. /\ \A q \in Predict : q # r => predict'[q] = predict[q]
      /\ predict'[r].model = predict[r].model
      /\ predict'[r].name = predict[r].name
      /\ \/ predict'[r].at = "leave" /\ predict'[r].status = "400"
         \/ predict'[r].at = "submit" /\ predict'[r].status = predict[r].status
  BY <1>1 DEF Parse, Goto, Reply, PredictCall
<1>5. SameHolder(r)
  BY <1>2, <1>3, <1>4 DEF SameHolder, HandlersProgress, Holding, Parse
<1>6. HandlersProgress'
  BY <1>2, <1>4 DEF HandlersProgress, Holding, Early
<1>7. ReplacementIsSeamless'
  BY <1>2, <1>4 DEF IInv, ReplacementIsSeamless, HeldModelsServe, HandlersProgress,
     Holding, Early, Parse
<1>8. Agreed
  <2>1. \A e \in Load, q \in Predict : Asked(e, q)' = Asked(e, q)
    BY <1>2, <1>4 DEF Asked, HandlersProgress
  <2>. QED  BY <2>1, GateMoves DEF Parse
<1>. QED  BY <1>5, <1>6, <1>7, <1>8, SameReferences DEF IInv

(* Only an unload makes submit() turn a request away. *)
LEMMA SubmitStep ==
    ASSUME IInv, NEW r \in Predict, Submit(r)
    PROVE  IInv' /\ Agreed
<1>1. TypeOK /\ predict \in [Predict -> PredictCall]
  BY DEF IInv, TypeOK, PredictCall
<1>2. predict[r].at = "submit" /\ HandlersProgress
  BY DEF IInv, Submit, Goto, Reply
<1>3. predict' \in [Predict -> PredictCall]
  BY <1>1 DEF Submit, Goto, Reply, PredictCall
<1>4. /\ \A q \in Predict : q # r => predict'[q] = predict[q]
      /\ predict'[r].model = predict[r].model
      /\ predict'[r].name = predict[r].name
      /\ \/ predict'[r].at = "waiting" /\ predict'[r].status = predict[r].status
            /\ entry[predict[r].model].gate = "open"
         \/ predict'[r].at = "leave" /\ predict'[r].status = "rejected"
            /\ entry[predict[r].model].gate # "open"
  BY <1>1 DEF Submit, Goto, Reply, PredictCall
<1>5. SameHolder(r)
  BY <1>2, <1>3, <1>4 DEF SameHolder, HandlersProgress, Holding, Submit
<1>6. HandlersProgress'
  BY <1>2, <1>4 DEF HandlersProgress, Holding, Early
<1>7. ReplacementIsSeamless'
  BY <1>2, <1>4 DEF IInv, ReplacementIsSeamless, HeldModelsServe, HandlersProgress,
     Holding, Early, Submit
<1>8. Agreed
  <2>1. \A e \in Load, q \in Predict : q # r \/ e # predict[r].model => Asked(e, q)' = Asked(e, q)
    BY <1>4 DEF Asked
  <2>2. Asked(predict[r].model, r) = "new" /\ predict[r].status = "none"
    BY <1>2 DEF Asked, HandlersProgress, Early
  <2>3. \A e \in Load : e = predict[r].model =>
           Asked(e, r)' = IF entry[e].gate = "open" THEN "pending" ELSE "rejected"
    BY <1>4, <2>2 DEF Asked
  <2>. QED  BY <2>1, <2>2, <2>3, SubmitAgreed DEF Submit
<1>. QED  BY <1>5, <1>6, <1>7, <1>8, SameReferences DEF IInv

(* The batch thread answers. *)
LEMMA AnswerStep ==
    ASSUME IInv, NEW r \in Predict, Answer(r)
    PROVE  IInv' /\ Agreed
<1>1. TypeOK /\ predict \in [Predict -> PredictCall]
  BY DEF IInv, TypeOK, PredictCall
<1>2. predict[r].at = "waiting" /\ HandlersProgress
  BY DEF IInv, Answer, Goto, Reply
<1>3. predict' \in [Predict -> PredictCall]
  BY <1>1 DEF Answer, Goto, Reply, PredictCall
<1>4. /\ \A q \in Predict : q # r => predict'[q] = predict[q]
      /\ predict'[r].model = predict[r].model
      /\ predict'[r].name = predict[r].name
      /\ predict'[r].at = "leave" /\ predict'[r].status \in {"value", "error"}
  BY <1>1 DEF Answer, Goto, Reply, PredictCall
<1>5. SameHolder(r)
  BY <1>2, <1>3, <1>4 DEF SameHolder, HandlersProgress, Holding, Answer
<1>6. HandlersProgress'
  BY <1>2, <1>4 DEF HandlersProgress, Holding, Early
<1>7. ReplacementIsSeamless'
  BY <1>2, <1>4 DEF IInv, ReplacementIsSeamless, HeldModelsServe, HandlersProgress,
     Holding, Early, Answer
<1>8. Agreed
  <2>1. \A e \in Load, q \in Predict : q # r \/ e # predict[r].model => Asked(e, q)' = Asked(e, q)
    BY <1>4 DEF Asked
  <2>2. Asked(predict[r].model, r) = "pending"
    BY <1>2 DEF Asked, HandlersProgress, Early
  <2>3. \A e \in Load : e = predict[r].model => Asked(e, r)' \in {"value", "error"}
    BY <1>4 DEF Asked
  <2>. QED  BY <2>1, <2>2, <2>3, AnswerAgreed DEF Answer
<1>. QED  BY <1>5, <1>6, <1>7, <1>8, SameReferences DEF IInv
(* With mutex_ free, what the map offers serves. *)
LEMMA GetModelStep ==
    ASSUME IInv, NEW r \in Predict, GetModel(r)
    PROVE  IInv' /\ Agreed
<1>1. TypeOK /\ predict \in [Predict -> PredictCall] /\ UNCHANGED <<models, entry, mutex, load, unload>>
  BY DEF IInv, TypeOK, PredictCall, GetModel
<1>2. predict[r].at = "get" /\ predict[r].model = None /\ predict[r].status = "none"
      /\ predict[r].name \in Name /\ mutex = None
  BY DEF IInv, GetModel, HandlersProgress, Early
<1>3. CASE models[predict[r].name] = None
  <2>1. predict' = [predict EXCEPT ![r].at = "done", ![r].status = "404"]
    BY <1>3 DEF GetModel, Reply
  <2>2. predict' \in [Predict -> PredictCall]
    BY <1>1, <2>1 DEF PredictCall
  <2>3. /\ \A q \in Predict : q # r => predict'[q] = predict[q]
        /\ predict'[r].model = None
        /\ predict'[r].name = predict[r].name
        /\ predict'[r].at = "done"
    BY <1>1, <1>2, <2>1 DEF PredictCall
  <2>4. SameHolder(r)
    BY <1>1, <1>2, <2>2, <2>3 DEF SameHolder, Holding
  <2>5. HandlersProgress'
    BY <1>2, <2>3 DEF IInv, HandlersProgress, Holding, Early
  <2>6. ReplacementIsSeamless'
    BY <1>1, <2>3 DEF IInv, ReplacementIsSeamless
  <2>7. \A x \in Load, q \in Predict : Asked(x, q)' = Asked(x, q)
    BY <1>2, <2>3, CallsAssumption DEF Asked
  <2>. QED  BY <1>1, <2>4, <2>5, <2>6, <2>7, SameReferences, GateMoves DEF IInv
<1>4. CASE models[predict[r].name] # None
  <2>. DEFINE e == models[predict[r].name]
  <2>1. predict' = [predict EXCEPT ![r].at = "check", ![r].model = e]
    BY <1>4 DEF GetModel, Reply
  <2>2. e \in Load /\ Offered(e) /\ entry[e].name = predict[r].name
    BY <1>1, <1>2, <1>4 DEF IInv, TypeOK, Offered, NamesAgree
  <2>. HIDE DEF e
  <2>3. predict' \in [Predict -> PredictCall]
    BY <1>1, <2>1, <2>2 DEF PredictCall
  <2>4. /\ \A q \in Predict : q # r => predict'[q] = predict[q]
        /\ predict'[r].model = e
        /\ predict'[r].name = predict[r].name
        /\ predict'[r].at = "check"
        /\ predict'[r].status = "none"
    BY <1>1, <1>2, <2>1 DEF PredictCall
  <2>5. /\ \A x \in Load : x # e => (Found(x)' <=> Found(x)) /\ Holders(x)' = Holders(x)
        /\ \A x \in Load : Holders(x) \subseteq Holders(x)'
        /\ \A x : (Offered(x)' <=> Offered(x)) /\ (Replaced(x)' <=> Replaced(x))
    BY <1>1, <1>2, <2>2, <2>4, CallsAssumption
       DEF Found, Holders, Offered, Replaced
  <2>6. TypeOK'
    BY <1>1, <2>3 DEF TypeOK, PredictCall
  <2>7. UnpublishedIsUnknown'
    BY <1>1, <2>2, <2>5 DEF IInv, UnpublishedIsUnknown
  <2>8. NamesAgree'
    BY <1>1, <2>2, <2>4 DEF IInv, NamesAgree
  <2>9. HandlersProgress'
    BY <1>2, <2>2, <2>4 DEF IInv, HandlersProgress, Holding, Early
  <2>10. MutexIsHeld' /\ OffersServe'
    BY <1>1 DEF IInv, MutexIsHeld, OffersServe
  <2>11. LoadersDestroyAlone' /\ HandlersDestroyAlone' /\ StoppedIsClosing'
    <3>1. LoadersDestroyAlone'
      BY <1>1, <2>2, <2>4, <2>5 DEF IInv, LoadersDestroyAlone
    <3>2. \A q \in Predict : predict'[q].at = "destroy" => q # r
      BY <2>4
    <3>3. HandlersDestroyAlone'
      BY <1>1, <2>2, <2>4, <2>5, <3>2 DEF IInv, HandlersDestroyAlone
    <3>. QED  BY <1>1, <3>1, <3>3 DEF IInv, StoppedIsClosing
  <2>12. entry[e].state = "READY" /\ entry[e].gate = "open"
    <3>1. \A u \in Unload : unload[u].at \notin Stopping
      BY <1>2, CallsAssumption DEF IInv, MutexIsHeld
    <3>. QED  BY <1>2, <1>4, <3>1 DEF e, IInv, OffersServe
  <2>13. HeldModelsServe'
    BY <1>1, <2>4, <2>12 DEF IInv, HeldModelsServe
  <2>14. ReplacementIsSeamless'
    BY <1>1, <2>4 DEF IInv, ReplacementIsSeamless
  <2>15. NoBatchThreadIsLost'
    <3>. SUFFICES ASSUME NEW x \in Load, entry[x].gate # "shut", ~Offered(x), Holders(x) = {},
                         load[x].at # "publish"
                  PROVE  \/ \E q \in Predict : predict'[q].model = x /\ predict'[q].at = "destroy"
                         \/ \E l \in Load : load[l].old = x /\ load[l].at = "destroy"
      BY <1>1, <2>5 DEF NoBatchThreadIsLost, Offered
    <3>1. \/ \E q \in Predict : predict[q].model = x /\ predict[q].at = "destroy"
          \/ \E l \in Load : load[l].old = x /\ load[l].at = "destroy"
      BY DEF IInv, NoBatchThreadIsLost, Offered
    <3>. QED  BY <1>2, <2>4, <3>1
  <2>16. Agreed
    <3>1. \A x \in Load, q \in Predict : Asked(x, q)' = Asked(x, q)
      BY <1>2, <2>4 DEF Asked
    <3>. QED  BY <1>1, <3>1, GateMoves
  <2>. QED  BY <2>6, <2>7, <2>8, <2>9, <2>10, <2>11, <2>13, <2>14, <2>15, <2>16 DEF IInv
<1>. QED  BY <1>3, <1>4

(* The last reference to a replaced entry goes. *)
LEMMA LeaveStep ==
    ASSUME IInv, NEW r \in Predict, Leave(r)
    PROVE  IInv' /\ Agreed
<1>1. TypeOK /\ predict \in [Predict -> PredictCall] /\ UNCHANGED <<models, mutex, load, unload>>
  BY DEF IInv, TypeOK, PredictCall, Leave
<1>. PICK e \in Load : e = predict[r].model
  BY DEF IInv, HandlersProgress, Holding, Leave, Goto
<1>2. /\ predict[r].at = "leave" /\ e \in Load /\ predict[r].name \in Name
      /\ entry[e].name = predict[r].name /\ r \in Holders(e)
      /\ load[e].at \notin {"idle", "build", "publish"}
  <2>1. predict[r].at = "leave"
    BY DEF Leave, Goto
  <2>2. e \in Load /\ predict[r].name \in Name
    BY <2>1 DEF IInv, HandlersProgress, Holding
  <2>3. entry[e].name = predict[r].name
    BY <2>2, CallsAssumption DEF IInv, NamesAgree
  <2>4. load[e].at \notin {"idle", "build", "publish"}
    BY <2>2 DEF IInv, UnpublishedIsUnknown, Found
  <2>. QED  BY <2>1, <2>2, <2>3, <2>4 DEF Holders
<1>3. CASE /\ e = models[predict[r].name] \/ Holders(e) # {r}
           /\ predict' = [predict EXCEPT ![r].at = "done"]
           /\ UNCHANGED entry
  <2>1. predict' \in [Predict -> PredictCall]
    BY <1>1, <1>3 DEF PredictCall
  <2>2. /\ \A q \in Predict : q # r => predict'[q] = predict[q]
        /\ predict'[r].model = e
        /\ predict'[r].name = predict[r].name
        /\ predict'[r].at = "done"
        /\ predict'[r].status = predict[r].status
    BY <1>1, <1>3 DEF PredictCall
  <2>3. \A q \in Predict : predict'[q].model = predict[q].model
    BY <2>2
  <2>4. /\ \A x : Found(x)' <=> Found(x)
        /\ \A x : Holders(x)' \subseteq Holders(x)
        /\ \A x : x # e => Holders(x)' = Holders(x)
        /\ Holders(e)' = Holders(e) \ {r}
        /\ \A x : (Offered(x)' <=> Offered(x)) /\ (Replaced(x)' <=> Replaced(x))
    BY <1>1, <1>2, <2>2, <2>3 DEF Found, Holders, Offered, Replaced
  <2>5. TypeOK'
    BY <1>1, <1>3, <2>1 DEF TypeOK, PredictCall
  <2>6. UnpublishedIsUnknown'
    BY <1>1, <1>3, <2>4 DEF IInv, UnpublishedIsUnknown
  <2>7. NamesAgree'
    BY <1>1, <1>2, <1>3, <2>2 DEF IInv, NamesAgree
  <2>8. HandlersProgress'
    BY <1>2, <2>2 DEF IInv, HandlersProgress, Holding, Early
  <2>9. MutexIsHeld' /\ OffersServe'
    BY <1>1, <1>3 DEF IInv, MutexIsHeld, OffersServe
  <2>10. LoadersDestroyAlone' /\ HandlersDestroyAlone' /\ StoppedIsClosing'
    <3>1. \A q \in Predict : predict'[q].at = "destroy" => predict'[q] = predict[q]
      BY <2>2
    <3>2. \A x \in Load : /\ Holders(x) = {} => Holders(x)' = {}
                          /\ Offered(x)' <=> Offered(x)
      BY <2>4
    <3>3. LoadersDestroyAlone'
      <4>1. load' = load /\ entry' = entry
        BY <1>1, <1>3
      <4>. QED  BY <3>1, <3>2, <4>1 DEF IInv, LoadersDestroyAlone
    <3>4. HandlersDestroyAlone'
      BY <1>3, <3>1, <3>2 DEF IInv, HandlersDestroyAlone
    <3>. QED  BY <1>1, <1>3, <3>3, <3>4 DEF IInv, StoppedIsClosing
  <2>11. HeldModelsServe'
    BY <1>1, <1>3, <2>2 DEF IInv, HeldModelsServe, Holding
  <2>12. ReplacementIsSeamless'
    BY <1>1, <2>2 DEF IInv, ReplacementIsSeamless
  <2>13. NoBatchThreadIsLost'
    <3>1. Offered(e) \/ Holders(e)' # {}
      BY <1>2, <1>3, <2>4 DEF Offered
    <3>2. \A x \in Load : Holders(x) # {} => Holders(x)' # {} \/ Offered(x)
      <4>1. \A x \in Load : x # e => Holders(x)' = Holders(x)
        BY <2>4
      <4>. QED  BY <3>1, <4>1
    <3>3. \A q \in Predict : predict[q].at = "destroy" => predict'[q] = predict[q]
      BY <1>2, <2>2
    <3>4. ASSUME NEW x \in Load, \E q \in Predict : predict[q].model = x /\ predict[q].at = "destroy"
          PROVE  \E q \in Predict : predict'[q].model = x /\ predict'[q].at = "destroy"
      BY <3>3, <3>4
    <3>. QED  BY <1>1, <1>3, <3>2, <3>4 DEF IInv, NoBatchThreadIsLost, Offered
  <2>14. Agreed
    <3>1. \A x \in Load, q \in Predict : Asked(x, q)' = Asked(x, q)
      BY <1>2, <2>2 DEF Asked
    <3>. QED  BY <1>3, <3>1, GateMoves
  <2>. QED  BY <2>5, <2>6, <2>7, <2>8, <2>9, <2>10, <2>11, <2>12, <2>13, <2>14 DEF IInv
<1>4. CASE /\ e # models[predict[r].name] /\ Holders(e) = {r}
           /\ predict' = [predict EXCEPT ![r].at = "destroy"]
           /\ entry' = [entry EXCEPT ![e].gate = "closing"]
  <2>1. predict' \in [Predict -> PredictCall]
    BY <1>1, <1>4 DEF PredictCall
  <2>2. /\ \A q \in Predict : q # r => predict'[q] = predict[q]
        /\ predict'[r].model = e
        /\ predict'[r].name = predict[r].name
        /\ predict'[r].at = "destroy"
        /\ predict'[r].status = predict[r].status
    BY <1>1, <1>4 DEF PredictCall
  <2>4. /\ entry' \in [Load -> Entry]
        /\ \A x \in Load : x # e => entry'[x] = entry[x]
        /\ entry'[e].gate = "closing"
        /\ \A x \in Load : entry'[x].name = entry[x].name /\ entry'[x].state = entry[x].state
    BY <1>1, <1>2, <1>4, GateChange DEF Gate
  <2>3. TypeOK'
    BY <1>1, <2>1, <2>4 DEF TypeOK, PredictCall, Entry
  <2>5. \A q \in Predict : predict'[q].model = predict[q].model
    BY <2>2
  <2>6. /\ \A x : Found(x)' <=> Found(x)
        /\ \A x : x # e => Holders(x)' = Holders(x)
        /\ Holders(e)' = {}
        /\ \A x : (Offered(x)' <=> Offered(x)) /\ (Replaced(x)' <=> Replaced(x))
        /\ ~Offered(e)
    <3>1. ~Offered(e)
      BY <1>2, <1>4, CallsAssumption DEF IInv, NamesAgree, Offered
    <3>2. Holders(e)' = Holders(e) \ {r}
      BY <1>2, <2>2, <2>5 DEF Holders
    <3>. QED  BY <1>1, <1>2, <1>4, <2>2, <2>5, <3>1, <3>2 DEF Found, Holders, Offered,
                 Replaced
  <2>7. UnpublishedIsUnknown'
    BY <1>1, <1>2, <2>4, <2>6 DEF IInv, UnpublishedIsUnknown
  <2>8. NamesAgree'
    BY <1>1, <1>2, <2>2, <2>4, CallsAssumption DEF IInv, NamesAgree, TypeOK
  <2>9. HandlersProgress'
    BY <1>2, <2>2 DEF IInv, HandlersProgress, Holding, Early
  <2>10. MutexIsHeld'
    BY <1>1 DEF IInv, MutexIsHeld
  <2>11. OffersServe'
    BY <1>1, <2>4, <2>6 DEF IInv, OffersServe, Offered, TypeOK
  <2>12. LoadersDestroyAlone' /\ HandlersDestroyAlone' /\ StoppedIsClosing'
    <3>1. \A l \in Load : load[l].at = "destroy" => load[l].old # e
      BY <1>2 DEF IInv, LoadersDestroyAlone
    <3>2. \A q \in Predict : predict[q].at = "destroy" => predict[q].model # e /\ q # r
      BY <1>2 DEF IInv, HandlersDestroyAlone
    <3>3. LoadersDestroyAlone'
      <4>. SUFFICES ASSUME NEW l \in Load, load[l].at = "destroy"
                    PROVE  /\ load[l].old \in Load
                           /\ ~Offered(load[l].old)' /\ Holders(load[l].old)' = {}
                           /\ entry'[load[l].old].gate = "closing"
                           /\ \A q \in Predict : predict'[q].at = "destroy"
                                                 => predict'[q].model # load[l].old
        BY <1>1 DEF LoadersDestroyAlone
      <4>. PICK x \in Load : x = load[l].old
        BY DEF IInv, LoadersDestroyAlone
      <4>1. x # e /\ load'[l].old = x
        BY <1>1, <3>1
      <4>2. \A q \in Predict : predict'[q].at = "destroy" => predict'[q].model # x
        BY <2>2, <4>1 DEF IInv, LoadersDestroyAlone
      <4>3. ~Offered(x)' /\ Holders(x)' = {} /\ entry'[x].gate = "closing"
        BY <2>4, <2>6, <4>1 DEF IInv, LoadersDestroyAlone
      <4>. QED  BY <1>1, <4>1, <4>2, <4>3
    <3>4. HandlersDestroyAlone'
      <4>. SUFFICES ASSUME NEW q \in Predict, predict'[q].at = "destroy"
                    PROVE  /\ predict'[q].model \in Load
                           /\ ~Offered(predict[q].model)' /\ Holders(predict[q].model)' = {}
                           /\ entry'[predict'[q].model].gate = "closing"
                           /\ \A p \in Predict : predict'[p].at = "destroy"
                                 /\ predict'[p].model = predict'[q].model => p = q
        BY DEF HandlersDestroyAlone
      <4>1. CASE q = r
        BY <1>2, <2>2, <2>4, <2>6, <3>2, <4>1
      <4>2. CASE q # r
        BY <1>2, <2>2, <2>4, <2>6, <3>2, <4>2 DEF IInv, HandlersDestroyAlone
      <4>. QED  BY <4>1, <4>2
    <3>5. \A u \in Unload : unload[u].at = "join" => models[unload[u].name] # e
                                                     /\ models[unload[u].name] \in Load
      BY <1>1, <2>6 DEF IInv, MutexIsHeld, Stopping, Offered, TypeOK
    <3>. QED  BY <1>1, <2>4, <3>3, <3>4, <3>5 DEF IInv, StoppedIsClosing
  <2>13. HeldModelsServe'
    <3>1. \A q \in Predict : predict'[q].at \in Holding => q # r /\ predict[q].model # e
      BY <1>4, <2>2 DEF Holders, Holding
    <3>2. \A q \in Predict : predict[q].at \in Holding => predict[q].model \in Load
      BY DEF IInv, HandlersProgress
    <3>. QED  BY <1>1, <2>2, <2>4, <3>1, <3>2 DEF IInv, HeldModelsServe
  <2>14. ReplacementIsSeamless'
    BY <1>1, <2>2 DEF IInv, ReplacementIsSeamless
  <2>15. NoBatchThreadIsLost'
    <3>2. \A q \in Predict : predict[q].at = "destroy" => predict'[q] = predict[q]
      BY <1>2, <2>2
    <3>. QED  BY <1>1, <2>2, <2>4, <2>6, <3>2 DEF IInv, NoBatchThreadIsLost, Offered
  <2>16. Agreed
    <3>1. \A x \in Load, q \in Predict : Asked(x, q)' = Asked(x, q)
      BY <1>2, <2>2 DEF Asked
    <3>. QED  BY <2>4, <3>1, GateMoves
  <2>. QED  BY <2>3, <2>7, <2>8, <2>9, <2>10, <2>11, <2>12, <2>13, <2>14, <2>15,
               <2>16 DEF IInv
<1>. QED  BY <1>3, <1>4 DEF Leave, Goto, Gate

(* The batcher is joined; nobody refers to the entry any more. *)
LEMMA DestroyModelStep ==
    ASSUME IInv, NEW r \in Predict, DestroyModel(r)
    PROVE  IInv' /\ Agreed
<1>1. TypeOK /\ predict \in [Predict -> PredictCall] /\ UNCHANGED <<models, mutex, load, unload>>
  BY DEF IInv, TypeOK, PredictCall, DestroyModel
<1>. PICK e \in Load : e = predict[r].model
  BY DEF IInv, HandlersDestroyAlone, DestroyModel, Goto
<1>2. /\ predict[r].at = "destroy" /\ e \in Load /\ predict[r].name \in Name
      /\ load[e].at \notin {"idle", "build", "publish"}
      /\ ~Offered(e) /\ Holders(e) = {}
  <2>1. predict[r].at = "destroy"
    BY DEF DestroyModel, Goto
  <2>2. e \in Load /\ predict[r].name \in Name
    BY <2>1 DEF IInv, HandlersProgress
  <2>4. load[e].at \notin {"idle", "build", "publish"}
    BY <2>2 DEF IInv, UnpublishedIsUnknown, Found
  <2>. QED  BY <2>1, <2>2, <2>4 DEF IInv, HandlersDestroyAlone
<1>3. predict' = [predict EXCEPT ![r].at = "done"] /\ entry' = [entry EXCEPT ![e].gate = "shut"]
  BY DEF DestroyModel, Goto, Gate
<1>4. predict' \in [Predict -> PredictCall]
  BY <1>1, <1>3 DEF PredictCall
<1>5. /\ \A q \in Predict : q # r => predict'[q] = predict[q]
      /\ predict'[r].model = e
      /\ predict'[r].name = predict[r].name
      /\ predict'[r].at = "done"
      /\ predict'[r].status = predict[r].status
  BY <1>1, <1>3 DEF PredictCall
<1>7. /\ entry' \in [Load -> Entry]
      /\ \A x \in Load : x # e => entry'[x] = entry[x]
      /\ entry'[e].gate = "shut"
      /\ \A x \in Load : entry'[x].name = entry[x].name /\ entry'[x].state = entry[x].state
  BY <1>1, <1>2, <1>3, GateChange DEF Gate
<1>6. TypeOK'
  BY <1>1, <1>4, <1>7 DEF TypeOK, PredictCall, Entry
<1>8. \A q \in Predict : predict'[q].model = predict[q].model
  BY <1>5
<1>9. \A x : /\ Found(x)' <=> Found(x)
             /\ Holders(x)' = Holders(x)
             /\ Offered(x)' <=> Offered(x)
             /\ Replaced(x)' <=> Replaced(x)
  BY <1>1, <1>2, <1>5, <1>8 DEF Found, Holders, Offered, Replaced
<1>10. UnpublishedIsUnknown'
  BY <1>1, <1>2, <1>7, <1>9 DEF IInv, UnpublishedIsUnknown
<1>11. NamesAgree'
  BY <1>1, <1>2, <1>5, <1>7, CallsAssumption DEF IInv, NamesAgree, TypeOK
<1>12. HandlersProgress'
  BY <1>2, <1>5 DEF IInv, HandlersProgress, Holding, Early
<1>13. MutexIsHeld'
  BY <1>1 DEF IInv, MutexIsHeld
<1>14. OffersServe'
  BY <1>1, <1>2, <1>7 DEF IInv, OffersServe, Offered, TypeOK
<1>15. LoadersDestroyAlone' /\ HandlersDestroyAlone' /\ StoppedIsClosing'
  <2>1. \A l \in Load : load[l].at = "destroy" => load[l].old # e
    BY <1>2 DEF IInv, LoadersDestroyAlone
  <2>2. \A q \in Predict : predict'[q].at = "destroy" => q # r /\ predict[q].model # e
    BY <1>2, <1>5 DEF IInv, HandlersDestroyAlone
  <2>3. LoadersDestroyAlone'
    <3>1. load' = load
      BY <1>1
    <3>2. \A l \in Load, q \in Predict : load[l].at = "destroy" /\ predict'[q].at = "destroy"
                                         => predict'[q].model # load[l].old
      BY <1>5, <2>2 DEF IInv, LoadersDestroyAlone
    <3>3. \A x \in Load : x # e => entry'[x].gate = entry[x].gate
      BY <1>7
    <3>. QED  BY <1>9, <2>1, <3>1, <3>2, <3>3 DEF IInv, LoadersDestroyAlone
  <2>4. HandlersDestroyAlone'
    BY <1>5, <1>7, <1>9, <2>2 DEF IInv, HandlersDestroyAlone
  <2>5. \A u \in Unload : unload[u].at = "join" => models[unload[u].name] # e
                                                   /\ models[unload[u].name] \in Load
    BY <1>1, <1>2 DEF IInv, MutexIsHeld, Stopping, Offered, TypeOK
  <2>. QED  BY <1>1, <1>7, <2>3, <2>4, <2>5 DEF IInv, StoppedIsClosing
<1>16. HeldModelsServe'
  <2>1. \A q \in Predict : predict'[q].at \in Holding => q # r /\ predict[q].model # e
    BY <1>2, <1>5 DEF Holders, Holding
  <2>2. \A q \in Predict : predict[q].at \in Holding => predict[q].model \in Load
    BY DEF IInv, HandlersProgress
  <2>. QED  BY <1>1, <1>5, <1>7, <2>1, <2>2 DEF IInv, HeldModelsServe
<1>17. ReplacementIsSeamless'
  BY <1>1, <1>5 DEF IInv, ReplacementIsSeamless
<1>18. NoBatchThreadIsLost'
  <2>1. \A q \in Predict : predict[q].at = "destroy" => predict'[q] = predict[q] \/ predict[q].model = e
    BY <1>5
  <2>. QED  BY <1>1, <1>7, <1>9, <2>1 DEF IInv, NoBatchThreadIsLost, Offered
<1>19. Agreed
  <2>1. \A x \in Load, q \in Predict : Asked(x, q)' = Asked(x, q)
    BY <1>2, <1>5 DEF Asked
  <2>2. entry[e].gate = "closing"
    BY <1>2 DEF IInv, HandlersDestroyAlone
  <2>3. \A q \in Predict : Asked(e, q) # "pending"
    BY <1>1, <1>2 DEF Asked, Holders, PredictCall
  <2>. QED  BY <1>7, <2>1, <2>2, <2>3, GateMoves
<1>. QED  BY <1>6, <1>10, <1>11, <1>12, <1>13, <1>14, <1>15, <1>16, <1>17, <1>18,
             <1>19 DEF IInv

(* A call of load_model() works on an entry that nobody else knows. *)
LoadCall == [at : {"idle", "build", "publish", "destroy", "done"}, old : Load \cup {None}]

(* What it does there preserves the invariant. *)
LEMMA UnknownEntry ==
    ASSUME IInv, NEW l \in Load, load[l].at \in {"idle", "build"},
           UNCHANGED <<models, mutex, predict, unload>>,
           load' \in [Load -> LoadCall], \A k \in Load : k # l => load'[k] = load[k],
           load'[l].at \in {"build", "publish", "done"}, load'[l].old = load[l].old,
           entry' \in [Load -> Entry], \A e \in Load : e # l => entry'[e] = entry[e],
           load'[l].at = "publish" => entry'[l].state = "READY" /\ entry'[l].gate = "open",
           load'[l].at # "publish" => entry'[l].gate = "shut",
           load'[l].at # "done" => entry'[l].name \in Name
    PROVE  IInv'
<1>1. TypeOK /\ ~Offered(l) /\ ~Found(l) /\ ~Replaced(l)
  BY DEF IInv, UnpublishedIsUnknown
<1>2. \A x \in Load : /\ Offered(x)' <=> Offered(x)
                      /\ Found(x)' <=> Found(x)
                      /\ Replaced(x)' <=> Replaced(x)
                      /\ Holders(x)' = Holders(x)
  <2>1. \A k \in Load : load'[k].old = load[k].old
    OBVIOUS
  <2>. QED  BY <2>1 DEF Offered, Found, Replaced, Holders
<1>3. TypeOK'
  BY <1>1 DEF TypeOK, LoadCall, Entry
<1>4. UnpublishedIsUnknown'
  BY <1>1, <1>2 DEF IInv, UnpublishedIsUnknown
<1>5. \A n \in Name : models[n] \in Load \cup {None} /\ models[n] # l
  BY <1>1 DEF TypeOK, Offered
<1>6. \A r \in Predict : predict[r].model \in Load \cup {None} /\ predict[r].model # l
  BY <1>1 DEF TypeOK, Found
<1>7. NamesAgree'
  BY <1>5, <1>6 DEF IInv, NamesAgree
<1>8. HandlersProgress' /\ ReplacementIsSeamless'
  BY DEF IInv, HandlersProgress, ReplacementIsSeamless
<1>9. MutexIsHeld'
  BY DEF IInv, MutexIsHeld
<1>10. LoadersDestroyAlone'
  <2>1. \A k \in Load : load'[k].at = "destroy" => load'[k] = load[k] /\ load[k].old # l
    BY <1>1 DEF Replaced
  <2>2. predict' = predict /\ \A x \in Load : x # l => entry'[x].gate = entry[x].gate
    OBVIOUS
  <2>. QED  BY <1>2, <2>1, <2>2 DEF IInv, LoadersDestroyAlone
<1>11. HandlersDestroyAlone'
  BY <1>2, <1>6 DEF IInv, HandlersDestroyAlone
<1>12. StoppedIsClosing'
  BY <1>5 DEF IInv, StoppedIsClosing, MutexIsHeld, Stopping
<1>13. OffersServe'
  BY <1>5 DEF IInv, OffersServe
<1>14. HeldModelsServe'
  BY <1>6 DEF IInv, HeldModelsServe, HandlersProgress
<1>15. NoBatchThreadIsLost'
  <2>1. \A k \in Load : load[k].at = "destroy" => load'[k] = load[k]
    OBVIOUS
  <2>. QED  BY <1>2, <2>1 DEF IInv, NoBatchThreadIsLost
<1>. QED  BY <1>3, <1>4, <1>7, <1>8, <1>9, <1>10, <1>11, <1>12, <1>13, <1>14, <1>15 DEF IInv

(* A load call arrives. *)
LEMMA LoadArrivesStep ==
    ASSUME IInv, NEW l \in Load, NEW n \in Name, LoadArrives(l, n)
    PROVE  IInv' /\ Agreed
<1>1. load \in [Load -> LoadCall] /\ entry \in [Load -> Entry]
  BY DEF IInv, TypeOK, LoadCall, Entry
<1>2. load[l].at = "idle" /\ entry[l].gate = "shut"
  BY DEF IInv, UnpublishedIsUnknown, LoadArrives
<1>3. /\ load' \in [Load -> LoadCall] /\ \A k \in Load : k # l => load'[k] = load[k]
      /\ load'[l].at = "build" /\ load'[l].old = load[l].old
  BY <1>1 DEF LoadArrives, LoadCall
<1>4. /\ entry' \in [Load -> Entry] /\ \A e \in Load : e # l => entry'[e] = entry[e]
      /\ entry'[l].gate = "shut" /\ entry'[l].name = n
  BY <1>1, <1>2 DEF LoadArrives, Entry
<1>5. \A x \in Load, q \in Predict : Asked(x, q)' = Asked(x, q)
  BY DEF Asked, LoadArrives
<1>. QED  BY <1>2, <1>3, <1>4, <1>5, UnknownEntry, GateMoves DEF LoadArrives

(* The model cannot be loaded. *)
LEMMA BuildFailsStep ==
    ASSUME IInv, NEW l \in Load, BuildFails(l)
    PROVE  IInv' /\ Agreed
<1>1. load \in [Load -> LoadCall] /\ entry \in [Load -> Entry]
  BY DEF IInv, TypeOK, LoadCall, Entry
<1>2. load[l].at = "build" /\ entry[l].gate = "shut"
  BY DEF IInv, UnpublishedIsUnknown, BuildFails
<1>3. /\ load' \in [Load -> LoadCall] /\ \A k \in Load : k # l => load'[k] = load[k]
      /\ load'[l].at = "done" /\ load'[l].old = load[l].old
  BY <1>1 DEF BuildFails, LoadCall
<1>4. /\ entry' \in [Load -> Entry] /\ \A e \in Load : e # l => entry'[e] = entry[e]
      /\ entry'[l].gate = "shut"
  BY <1>1, <1>2 DEF BuildFails, Entry, ModelState
<1>5. \A x \in Load, q \in Predict : Asked(x, q)' = Asked(x, q)
  BY DEF Asked, BuildFails
<1>. QED  BY <1>2, <1>3, <1>4, <1>5, UnknownEntry, GateMoves DEF BuildFails

(* The model is loaded and its batcher started. *)
LEMMA BuildStep ==
    ASSUME IInv, NEW l \in Load, Build(l)
    PROVE  IInv' /\ Agreed
<1>1. load \in [Load -> LoadCall] /\ entry \in [Load -> Entry]
  BY DEF IInv, TypeOK, LoadCall, Entry
<1>2. load[l].at = "build" /\ entry[l].name \in Name /\ entry[l].gate = "shut"
  BY DEF IInv, UnpublishedIsUnknown, Build
<1>3. /\ load' \in [Load -> LoadCall] /\ \A k \in Load : k # l => load'[k] = load[k]
      /\ load'[l].at = "publish" /\ load'[l].old = load[l].old
  BY <1>1 DEF Build, LoadCall
<1>4. /\ entry' \in [Load -> Entry] /\ \A e \in Load : e # l => entry'[e] = entry[e]
      /\ entry'[l].gate = "open" /\ entry'[l].state = "READY" /\ entry'[l].name = entry[l].name
  BY <1>1, <1>2 DEF Build, Entry, ModelState
<1>5. \A x \in Load, q \in Predict : Asked(x, q)' = Asked(x, q)
  BY DEF Asked, Build
<1>. QED  BY <1>2, <1>3, <1>4, <1>5, UnknownEntry, GateMoves DEF Build

(* models_[name] = entry: the replaced entry lives on while it is held. *)
LEMMA PublishStep ==
    ASSUME IInv, NEW l \in Load, Publish(l)
    PROVE  IInv' /\ Agreed
<1>1. TypeOK /\ UNCHANGED <<predict, unload>> /\ mutex = None /\ load[l].at = "publish"
  BY DEF IInv, Publish
<1>2. /\ ~Offered(l) /\ ~Found(l) /\ ~Replaced(l)
      /\ entry[l].state = "READY" /\ entry[l].gate = "open" /\ entry[l].name \in Name
  BY <1>1 DEF IInv, UnpublishedIsUnknown
<1>. PICK n \in Name : n = entry[l].name
  BY <1>2
<1>. PICK old \in Load \cup {None} : old = models[n]
  BY <1>1 DEF TypeOK
<1>3. /\ models' \in [Name -> Load \cup {None}] /\ models'[n] = l
      /\ \A m \in Name : m # n => models'[m] = models[m]
  BY <1>1 DEF Publish, TypeOK
<1>4. old # None => Offered(old) /\ old # l /\ load[old].at \notin {"idle", "build", "publish"}
  BY <1>2 DEF IInv, Offered, UnpublishedIsUnknown
<1>5. /\ \A x \in Load : x # l /\ x # old => (Offered(x)' <=> Offered(x))
      /\ old # None => ~Offered(old)'
      /\ Offered(l)'
  <2>1. \A m \in Name : models[m] = old /\ old # None => m = n
    BY DEF IInv, NamesAgree
  <2>. QED  BY <1>2, <1>3, <1>4, <2>1 DEF Offered
<1>6. \A x \in Load : (Found(x)' <=> Found(x)) /\ Holders(x)' = Holders(x)
  BY <1>1 DEF Found, Holders
<1>7. /\ \A k \in Load : load[k].at # "destroy"
      /\ \A u \in Unload : unload[u].at \notin Stopping
  BY <1>1, CallsAssumption DEF IInv, MutexIsHeld
<1>8. load \in [Load -> LoadCall] /\ entry \in [Load -> Entry]
  BY <1>1 DEF TypeOK, LoadCall, Entry
<1>0. \A x \in Load, q \in Predict : Asked(x, q)' = Asked(x, q)
  BY <1>1 DEF Asked
<1>9. CASE /\ old = None \/ Holders(old) # {}
           /\ load' = [load EXCEPT ![l].at = "done"]
           /\ UNCHANGED <<entry, mutex>>
  <2>1. /\ load' \in [Load -> LoadCall] /\ \A k \in Load : k # l => load'[k] = load[k]
        /\ load'[l].at = "done" /\ load'[l].old = load[l].old
    BY <1>8, <1>9 DEF LoadCall
  <2>2. \A x \in Load : Replaced(x)' <=> Replaced(x)
    BY <2>1 DEF Replaced
  <2>3. TypeOK'
    BY <1>1, <1>3, <1>9, <2>1 DEF TypeOK, LoadCall
  <2>4. UnpublishedIsUnknown'
    BY <1>4, <1>5, <1>6, <1>9, <2>1, <2>2, CallsAssumption DEF IInv, UnpublishedIsUnknown
  <2>5. NamesAgree' /\ HandlersProgress'
    BY <1>1, <1>3, <1>9 DEF IInv, NamesAgree, HandlersProgress
  <2>6. MutexIsHeld' /\ StoppedIsClosing' /\ LoadersDestroyAlone'
    BY <1>1, <1>7, <2>1, <1>9 DEF IInv, MutexIsHeld, StoppedIsClosing, LoadersDestroyAlone,
       Stopping
  <2>7. HandlersDestroyAlone'
    <3>1. \A r \in Predict : predict[r].at = "destroy" => predict[r].model # l /\ predict[r].model # old
      BY <1>2, <1>4, CallsAssumption DEF IInv, HandlersDestroyAlone, Found
    <3>. QED  BY <1>1, <1>5, <1>6, <1>9, <3>1 DEF IInv, HandlersDestroyAlone
  <2>8. OffersServe'
    BY <1>1, <1>2, <1>3, <1>9 DEF IInv, OffersServe
  <2>9. HeldModelsServe' /\ ReplacementIsSeamless'
    BY <1>1, <1>9 DEF IInv, HeldModelsServe, ReplacementIsSeamless
  <2>10. NoBatchThreadIsLost'
    <3>. SUFFICES ASSUME NEW x \in Load, entry[x].gate # "shut", ~Offered(x)', Holders(x)' = {},
                         load'[x].at # "publish"
                  PROVE  \/ \E q \in Predict : predict[q].model = x /\ predict[q].at = "destroy"
                         \/ \E k \in Load : load'[k].old = x /\ load'[k].at = "destroy"
      BY <1>1, <1>9 DEF NoBatchThreadIsLost, Offered
    <3>1. x # l /\ x # old /\ ~Offered(x) /\ Holders(x) = {} /\ load[x].at # "publish"
      BY <1>5, <1>6, <1>9, <2>1, CallsAssumption
    <3>2. \/ \E q \in Predict : predict[q].model = x /\ predict[q].at = "destroy"
          \/ \E k \in Load : load[k].old = x /\ load[k].at = "destroy"
      BY <3>1 DEF IInv, NoBatchThreadIsLost, Offered
    <3>. QED  BY <1>7, <3>2
  <2>11. Agreed
    BY <1>0, <1>9, GateMoves
  <2>. QED  BY <2>3, <2>4, <2>5, <2>6, <2>7, <2>8, <2>9, <2>10, <2>11 DEF IInv
<1>10. CASE /\ old # None /\ Holders(old) = {}
            /\ load' = [load EXCEPT ![l] = [at |-> "destroy", old |-> old]]
            /\ Gate(old, "closing")
            /\ mutex' = l
  <2>1. /\ load' \in [Load -> LoadCall] /\ \A k \in Load : k # l => load'[k] = load[k]
        /\ load'[l].at = "destroy" /\ load'[l].old = old
    BY <1>8, <1>10 DEF LoadCall
  <2>2. \A x \in Load : Replaced(x)' => Replaced(x) \/ x = old
    BY <2>1 DEF Replaced
  <2>3. /\ entry' \in [Load -> Entry]
        /\ \A x \in Load : x # old => entry'[x] = entry[x]
        /\ entry'[old].gate = "closing"
        /\ \A x \in Load : entry'[x].name = entry[x].name /\ entry'[x].state = entry[x].state
    BY <1>1, <1>10, GateChange
  <2>4. TypeOK'
    BY <1>1, <1>3, <1>10, <2>1, <2>3 DEF TypeOK, LoadCall, Entry
  <2>5. UnpublishedIsUnknown'
    BY <1>4, <1>5, <1>6, <1>10, <2>1, <2>2, <2>3 DEF IInv, UnpublishedIsUnknown
  <2>6. NamesAgree' /\ HandlersProgress'
    <3>1. \A m \in Name : models[m] \in Load \cup {None}
      BY <1>1 DEF TypeOK
    <3>2. \A r \in Predict : predict[r].model \in Load \cup {None}
      BY <1>1 DEF TypeOK
    <3>. QED  BY <1>1, <1>3, <2>3, <3>1, <3>2 DEF IInv, NamesAgree, HandlersProgress
  <2>7. MutexIsHeld'
    BY <1>1, <1>7, <1>10, <2>1 DEF IInv, MutexIsHeld
  <2>8. StoppedIsClosing'
    BY <1>1, <1>7 DEF StoppedIsClosing, Stopping
  <2>9. \A r \in Predict : predict[r].at = "destroy" => predict[r].model # l /\ predict[r].model # old
    BY <1>2, <1>4, <1>10 DEF IInv, HandlersDestroyAlone, Found
  <2>10. LoadersDestroyAlone'
    <3>1. \A k \in Load : load'[k].at = "destroy" => k = l
      BY <1>7, <2>1
    <3>2. ~Offered(old)' /\ Holders(old)' = {}
      BY <1>5, <1>6, <1>10
    <3>. QED  BY <1>1, <1>10, <2>1, <2>3, <2>9, <3>1, <3>2 DEF LoadersDestroyAlone
  <2>11. HandlersDestroyAlone'
    BY <1>1, <1>5, <1>6, <2>3, <2>9 DEF IInv, HandlersDestroyAlone
  <2>12. OffersServe'
    <3>1. \A m \in Name : m # n => models[m] # old
      BY <1>10 DEF IInv, NamesAgree
    <3>2. \A m \in Name : models[m] \in Load \cup {None}
      BY <1>1 DEF TypeOK
    <3>. QED  BY <1>1, <1>2, <1>3, <1>4, <1>10, <2>3, <3>1, <3>2 DEF IInv, OffersServe
  <2>13. HeldModelsServe' /\ ReplacementIsSeamless'
    <3>1. \A q \in Predict : predict[q].at \in Holding => predict[q].model # old /\ predict[q].model \in Load
      BY <1>10 DEF IInv, HandlersProgress, Holders, Holding
    <3>. QED  BY <1>1, <2>3, <3>1 DEF IInv, HeldModelsServe, ReplacementIsSeamless
  <2>14. NoBatchThreadIsLost'
    <3>. SUFFICES ASSUME NEW x \in Load, entry'[x].gate # "shut", ~Offered(x)', Holders(x)' = {},
                         load'[x].at # "publish"
                  PROVE  \/ \E q \in Predict : predict[q].model = x /\ predict[q].at = "destroy"
                         \/ \E k \in Load : load'[k].old = x /\ load'[k].at = "destroy"
      BY <1>1 DEF NoBatchThreadIsLost, Offered
    <3>1. CASE x = old
      BY <2>1, <3>1
    <3>2. CASE x # old
      <4>1. entry[x].gate # "shut" /\ x # l /\ ~Offered(x) /\ Holders(x) = {} /\ load[x].at # "publish"
        BY <1>5, <1>6, <2>1, <2>3, <3>2
      <4>2. \/ \E q \in Predict : predict[q].model = x /\ predict[q].at = "destroy"
            \/ \E k \in Load : load[k].old = x /\ load[k].at = "destroy"
        BY <4>1 DEF IInv, NoBatchThreadIsLost, Offered
      <4>. QED  BY <1>7, <4>2
    <3>. QED  BY <3>1, <3>2
  <2>15. Agreed
    BY <1>0, <2>3, GateMoves
  <2>. QED  BY <2>4, <2>5, <2>6, <2>7, <2>8, <2>10, <2>11, <2>12, <2>13, <2>14,
               <2>15 DEF IInv
<1>. QED  BY <1>9, <1>10 DEF Publish

(* The batcher of the replaced entry is joined under mutex_. *)
LEMMA DestroyOldStep ==
    ASSUME IInv, NEW l \in Load, DestroyOld(l)
    PROVE  IInv' /\ Agreed
<1>1. TypeOK /\ UNCHANGED <<models, predict, unload>> /\ load[l].at = "destroy" /\ mutex' = None
  BY DEF IInv, DestroyOld
<1>. PICK old \in Load : old = load[l].old
  BY <1>1 DEF IInv, LoadersDestroyAlone
<1>2. /\ ~Offered(old) /\ Holders(old) = {}
      /\ \A r \in Predict : predict[r].at = "destroy" => predict[r].model # old
      /\ load[old].at \notin {"idle", "build", "publish"}
  BY <1>1 DEF IInv, LoadersDestroyAlone, UnpublishedIsUnknown, Replaced
<1>3. load \in [Load -> LoadCall]
  BY <1>1 DEF TypeOK, LoadCall
<1>4. /\ load' \in [Load -> LoadCall] /\ \A k \in Load : k # l => load'[k] = load[k]
      /\ load'[l].at = "done" /\ load'[l].old = load[l].old
  BY <1>3 DEF LoadCall, DestroyOld
<1>5. /\ entry' \in [Load -> Entry]
      /\ \A x \in Load : x # old => entry'[x] = entry[x]
      /\ entry'[old].gate = "shut"
      /\ \A x \in Load : entry'[x].name = entry[x].name /\ entry'[x].state = entry[x].state
  BY <1>1, GateChange DEF DestroyOld
<1>6. \A x \in Load : /\ Offered(x)' <=> Offered(x)
                      /\ Found(x)' <=> Found(x)
                      /\ Replaced(x)' <=> Replaced(x)
                      /\ Holders(x)' = Holders(x)
  <2>1. \A k \in Load : load'[k].old = load[k].old
    BY <1>4
  <2>. QED  BY <1>1, <2>1 DEF Offered, Found, Replaced, Holders
<1>7. /\ \A k \in Load : load'[k].at # "destroy"
      /\ \A u \in Unload : unload[u].at \notin Stopping
  BY <1>1, <1>4 DEF IInv, MutexIsHeld
<1>8. \A m \in Name : models[m] \in Load \cup {None} /\ models[m] # old
  BY <1>1, <1>2 DEF TypeOK, Offered
<1>9. \A q \in Predict : /\ predict[q].model \in Load \cup {None}
                         /\ predict[q].at \in Holding => predict[q].model # old
  BY <1>1, <1>2 DEF TypeOK, Holders, Holding
<1>10. TypeOK'
  BY <1>1, <1>4, <1>5 DEF TypeOK, LoadCall, Entry
<1>11. UnpublishedIsUnknown'
  BY <1>2, <1>4, <1>5, <1>6 DEF IInv, UnpublishedIsUnknown
<1>12. NamesAgree' /\ HandlersProgress'
  BY <1>1, <1>5, <1>8, <1>9 DEF IInv, NamesAgree, HandlersProgress
<1>13. MutexIsHeld' /\ StoppedIsClosing' /\ LoadersDestroyAlone'
  BY <1>1, <1>7 DEF IInv, MutexIsHeld, StoppedIsClosing, LoadersDestroyAlone, Stopping
<1>14. HandlersDestroyAlone'
  BY <1>1, <1>2, <1>5, <1>6 DEF IInv, HandlersDestroyAlone
<1>15. OffersServe'
  BY <1>1, <1>5, <1>8 DEF IInv, OffersServe
<1>16. HeldModelsServe' /\ ReplacementIsSeamless'
  BY <1>1, <1>5, <1>9 DEF IInv, HeldModelsServe, ReplacementIsSeamless, HandlersProgress
<1>17. NoBatchThreadIsLost'
  <2>. SUFFICES ASSUME NEW x \in Load, entry'[x].gate # "shut", ~Offered(x)', Holders(x)' = {},
                       load'[x].at # "publish"
                PROVE  \E q \in Predict : predict[q].model = x /\ predict[q].at = "destroy"
    BY <1>1 DEF NoBatchThreadIsLost, Offered
  <2>1. /\ x # old /\ entry[x].gate # "shut" /\ ~Offered(x) /\ Holders(x) = {}
        /\ load[x].at # "publish"
    BY <1>1, <1>4, <1>5, <1>6
  <2>2. \A k \in Load : load[k].at = "destroy" => load[k].old = old
    BY <1>1, <1>4, <1>7
  <2>. QED  BY <2>1, <2>2 DEF IInv, NoBatchThreadIsLost, Offered
<1>18. Agreed
  <2>1. \A x \in Load, q \in Predict : Asked(x, q)' = Asked(x, q)
    BY <1>1 DEF Asked
  <2>2. entry[old].gate = "closing"
    BY <1>1 DEF IInv, LoadersDestroyAlone
  <2>3. \A q \in Predict : Asked(old, q) # "pending"
    BY <1>1, <1>2 DEF Asked, Holders, TypeOK
  <2>. QED  BY <1>5, <2>1, <2>2, <2>3, GateMoves
<1>. QED  BY <1>10, <1>11, <1>12, <1>13, <1>14, <1>15, <1>16, <1>17, <1>18 DEF IInv

(* unload_model(). *)
UnloadCall == [at : {"idle", "find", "stop", "join", "done"}, name : Name \cup {None}]

(* What does not depend on the unload calls or on the entry u works on. *)
LEMMA UnloadKeeps ==
    ASSUME IInv, NEW u \in Unload, UNCHANGED <<models, predict, load>>,
           entry' \in [Load -> Entry], mutex' \in Load \cup Unload \cup {None},
           unload' \in [Unload -> UnloadCall],
           \A v \in Unload : v # u => unload'[v] = unload[v],
           \A x \in Load : /\ entry'[x].name = entry[x].name
                           /\ ~Offered(x) => entry'[x] = entry[x]
                           /\ entry'[x] = entry[x] \/ unload'[u].at # "idle",
           unload'[u].at # "idle"
    PROVE  /\ TypeOK' /\ UnpublishedIsUnknown' /\ NamesAgree' /\ HandlersProgress'
           /\ LoadersDestroyAlone' /\ HandlersDestroyAlone'
           /\ HeldModelsServe' /\ ReplacementIsSeamless' /\ NoBatchThreadIsLost'
<1>1. TypeOK
  BY DEF IInv
<1>2. \A x \in Load : /\ Offered(x)' <=> Offered(x)
                      /\ Found(x)' <=> Found(x)
                      /\ Replaced(x)' <=> Replaced(x)
                      /\ Holders(x)' = Holders(x)
  BY DEF Offered, Found, Replaced, Holders
<1>3. TypeOK'
  BY <1>1 DEF TypeOK, Entry, UnloadCall
<1>4. UnpublishedIsUnknown'
  BY <1>2 DEF IInv, UnpublishedIsUnknown
<1>5. NamesAgree' /\ HandlersProgress'
  BY <1>1 DEF IInv, NamesAgree, HandlersProgress, TypeOK
<1>6. LoadersDestroyAlone'
  BY <1>2 DEF IInv, LoadersDestroyAlone
<1>7. HandlersDestroyAlone'
  BY <1>2 DEF IInv, HandlersDestroyAlone
<1>8. HeldModelsServe' /\ ReplacementIsSeamless'
  BY DEF HeldModelsServe, ReplacementIsSeamless
<1>9. NoBatchThreadIsLost'
  BY <1>2 DEF IInv, NoBatchThreadIsLost, Offered
<1>. QED  BY <1>3, <1>4, <1>5, <1>6, <1>7, <1>8, <1>9

(* An unload call arrives. *)
LEMMA UnloadArrivesStep ==
    ASSUME IInv, NEW u \in Unload, NEW n \in Name, UnloadArrives(u, n)
    PROVE  IInv' /\ Agreed
<1>1. unload \in [Unload -> UnloadCall] /\ entry \in [Load -> Entry]
      /\ mutex \in Load \cup Unload \cup {None}
  BY DEF IInv, TypeOK, UnloadCall, Entry
<1>2. /\ unload' \in [Unload -> UnloadCall] /\ \A v \in Unload : v # u => unload'[v] = unload[v]
      /\ unload'[u].at = "find" /\ unload'[u].name = n /\ unload[u].at = "idle"
      /\ UNCHANGED <<models, entry, mutex, predict, load>>
  BY <1>1 DEF UnloadArrives, UnloadCall
<1>3. MutexIsHeld' /\ StoppedIsClosing' /\ OffersServe'
  BY <1>2 DEF IInv, MutexIsHeld, StoppedIsClosing, OffersServe, Stopping
<1>4. \A x \in Load, q \in Predict : Asked(x, q)' = Asked(x, q)
  BY <1>2 DEF Asked
<1>. QED  BY <1>1, <1>2, <1>3, <1>4, UnloadKeeps, GateMoves DEF IInv

(* The entry found under the name is marked, and mutex_ kept. *)
LEMMA MarkUnloadingStep ==
    ASSUME IInv, NEW u \in Unload, MarkUnloading(u)
    PROVE  IInv' /\ Agreed
<1>. DEFINE n == unload[u].name
            e == models[n]
<1>1. /\ unload \in [Unload -> UnloadCall] /\ entry \in [Load -> Entry]
      /\ mutex = None /\ unload[u].at = "find" /\ n \in Name /\ e \in Load \cup {None}
      /\ UNCHANGED <<models, predict, load>>
  BY DEF IInv, TypeOK, UnloadCall, Entry, MarkUnloading, MutexIsHeld
<1>2. /\ \A k \in Load : load[k].at # "destroy"
      /\ \A v \in Unload : unload[v].at \notin Stopping
  BY <1>1, CallsAssumption DEF IInv, MutexIsHeld
<1>0. \A x \in Load, q \in Predict : Asked(x, q)' = Asked(x, q)
  BY <1>1 DEF Asked
<1>3. CASE e = None
  <2>1. /\ unload' \in [Unload -> UnloadCall] /\ \A v \in Unload : v # u => unload'[v] = unload[v]
        /\ unload'[u].at = "done" /\ unload'[u].name = n /\ entry' = entry /\ mutex' = mutex
    BY <1>1, <1>3 DEF MarkUnloading, UnloadCall
  <2>2. MutexIsHeld' /\ StoppedIsClosing' /\ OffersServe'
    BY <1>1, <1>2, <2>1 DEF IInv, MutexIsHeld, StoppedIsClosing, OffersServe, Stopping
  <2>. QED  BY <1>0, <1>1, <2>1, <2>2, UnloadKeeps, GateMoves DEF IInv
<1>4. CASE e # None
  <2>1. /\ unload' \in [Unload -> UnloadCall] /\ \A v \in Unload : v # u => unload'[v] = unload[v]
        /\ unload'[u].at = "stop" /\ unload'[u].name = n /\ mutex' = u
    BY <1>1, <1>4 DEF MarkUnloading, UnloadCall
  <2>2. /\ entry' \in [Load -> Entry]
        /\ \A x \in Load : /\ entry'[x].name = entry[x].name /\ entry'[x].gate = entry[x].gate
                           /\ x # e => entry'[x] = entry[x]
    BY <1>1, <1>4 DEF MarkUnloading, Entry, ModelState
  <2>3. Offered(e)
    BY <1>1 DEF Offered
  <2>4. MutexIsHeld' /\ StoppedIsClosing'
    BY <1>1, <1>2, <1>4, <2>1 DEF IInv, MutexIsHeld, StoppedIsClosing, Stopping
  <2>5. OffersServe'
    <3>1. \A m \in Name : m # n => models[m] # e
      BY <1>1, <1>4 DEF IInv, NamesAgree
    <3>2. \A m \in Name : models[m] \in Load \cup {None}
      BY DEF IInv, TypeOK
    <3>. QED  BY <1>1, <1>2, <2>1, <2>2, <3>1, <3>2 DEF IInv, OffersServe, Stopping
  <2>6. Agreed
    BY <1>0, <2>2, GateMoves
  <2>. QED  BY <1>1, <2>1, <2>2, <2>3, <2>4, <2>5, <2>6, UnloadKeeps DEF IInv
<1>. QED  BY <1>3, <1>4

(* stop() is called on its batcher. *)
LEMMA StopBatcherStep ==
    ASSUME IInv, NEW u \in Unload, StopBatcher(u)
    PROVE  IInv' /\ Agreed
<1>1. /\ TypeOK /\ unload \in [Unload -> UnloadCall] /\ mutex = u /\ unload[u].at = "stop"
      /\ unload[u].name \in Name /\ models[unload[u].name] \in Load
      /\ UNCHANGED <<models, mutex, predict, load>>
  BY DEF IInv, TypeOK, UnloadCall, StopBatcher, MutexIsHeld, Stopping
<1>. PICK n \in Name : n = unload[u].name
  BY <1>1
<1>. PICK e \in Load : e = models[n]
  BY <1>1
<1>2. /\ unload' \in [Unload -> UnloadCall] /\ \A v \in Unload : v # u => unload'[v] = unload[v]
      /\ unload'[u].at = "join" /\ unload'[u].name = n
  BY <1>1 DEF StopBatcher, UnloadCall
<1>3. /\ entry' \in [Load -> Entry]
      /\ \A x \in Load : x # e => entry'[x] = entry[x]
      /\ entry'[e].gate = "closing"
      /\ \A x \in Load : entry'[x].name = entry[x].name /\ entry'[x].state = entry[x].state
  BY <1>1, GateChange DEF StopBatcher
<1>4. Offered(e) /\ mutex \in Load \cup Unload \cup {None}
  BY <1>1 DEF Offered, TypeOK
<1>5. MutexIsHeld'
  BY <1>1, <1>2 DEF IInv, MutexIsHeld, Stopping
<1>6. \A v \in Unload : unload[v].at \in Stopping => v = u
  BY <1>1 DEF IInv, MutexIsHeld
<1>7. StoppedIsClosing'
  BY <1>1, <1>2, <1>3, <1>6 DEF StoppedIsClosing, Stopping
<1>8. OffersServe'
  <2>1. \A m \in Name : m # n => models[m] # e
    BY <1>1, CallsAssumption DEF IInv, NamesAgree
  <2>2. \A m \in Name : models[m] \in Load \cup {None}
    BY <1>1 DEF TypeOK
  <2>. QED  BY <1>1, <1>2, <1>3, <1>6, <2>1, <2>2 DEF IInv, OffersServe, Stopping
<1>9. Agreed
  <2>1. \A x \in Load, q \in Predict : Asked(x, q)' = Asked(x, q)
    BY <1>1 DEF Asked
  <2>. QED  BY <1>3, <2>1, GateMoves
<1>. QED  BY <1>1, <1>2, <1>3, <1>4, <1>5, <1>7, <1>8, <1>9, UnloadKeeps DEF IInv

(* The entry goes from the map; its batcher is joined. *)
LEMMA EraseStep ==
    ASSUME IInv, NEW u \in Unload, Erase(u)
    PROVE  IInv' /\ Agreed
<1>1. /\ TypeOK /\ unload \in [Unload -> UnloadCall] /\ mutex = u /\ unload[u].at = "join"
      /\ unload[u].name \in Name /\ models[unload[u].name] \in Load
      /\ mutex' = None /\ UNCHANGED <<predict, load>>
  BY DEF IInv, TypeOK, UnloadCall, Erase, MutexIsHeld, Stopping
<1>. PICK n \in Name : n = unload[u].name
  BY <1>1
<1>. PICK e \in Load : e = models[n]
  BY <1>1
<1>2. /\ unload' \in [Unload -> UnloadCall] /\ \A v \in Unload : v # u => unload'[v] = unload[v]
      /\ unload'[u].at = "done" /\ unload'[u].name = n
  BY <1>1 DEF Erase, UnloadCall
<1>3. /\ entry' \in [Load -> Entry]
      /\ \A x \in Load : x # e => entry'[x] = entry[x]
      /\ entry'[e].gate = "shut"
      /\ \A x \in Load : entry'[x].name = entry[x].name /\ entry'[x].state = entry[x].state
  BY <1>1, GateChange DEF Erase
<1>4. /\ models' \in [Name -> Load \cup {None}] /\ models'[n] = None
      /\ \A m \in Name : m # n => models'[m] = models[m] /\ models[m] # e
  BY <1>1, CallsAssumption DEF Erase, TypeOK, IInv, NamesAgree
<1>5. /\ Offered(e) /\ load[e].at \notin {"idle", "build", "publish"}
      /\ \A v \in Unload : unload'[v].at \notin Stopping
      /\ \A k \in Load : load[k].at # "destroy"
  BY <1>1, <1>2 DEF IInv, Offered, UnpublishedIsUnknown, MutexIsHeld, Stopping
<1>6. \A x \in Load : /\ Found(x)' <=> Found(x)
                      /\ Replaced(x)' <=> Replaced(x)
                      /\ Holders(x)' = Holders(x)
                      /\ x # e => (Offered(x)' <=> Offered(x))
                      /\ Offered(x)' => Offered(x)
  BY <1>1, <1>4, CallsAssumption DEF Offered, Found, Replaced, Holders
<1>7. TypeOK'
  BY <1>1, <1>2, <1>3, <1>4 DEF TypeOK, Entry, UnloadCall
<1>8. UnpublishedIsUnknown'
  BY <1>1, <1>3, <1>5, <1>6 DEF IInv, UnpublishedIsUnknown
<1>9. NamesAgree' /\ HandlersProgress'
  BY <1>1, <1>3, <1>4 DEF IInv, NamesAgree, HandlersProgress, TypeOK
<1>10. MutexIsHeld' /\ LoadersDestroyAlone' /\ StoppedIsClosing'
  BY <1>1, <1>2, <1>5 DEF IInv, MutexIsHeld, LoadersDestroyAlone, StoppedIsClosing, Stopping
<1>11. HandlersDestroyAlone'
  BY <1>1, <1>3, <1>5, <1>6 DEF IInv, HandlersDestroyAlone
<1>12. OffersServe'
  <2>1. \A v \in Unload : unload[v].at \in Stopping => v = u
    BY <1>1 DEF IInv, MutexIsHeld
  <2>. QED  BY <1>1, <1>2, <1>3, <1>4, <2>1 DEF IInv, OffersServe, TypeOK
<1>13. HeldModelsServe' /\ ReplacementIsSeamless'
  BY <1>2 DEF HeldModelsServe, ReplacementIsSeamless
<1>14. NoBatchThreadIsLost'
  <2>. SUFFICES ASSUME NEW x \in Load, entry'[x].gate # "shut", ~Offered(x)', Holders(x)' = {},
                       load[x].at # "publish"
                PROVE  \E q \in Predict : predict[q].model = x /\ predict[q].at = "destroy"
    BY <1>1 DEF NoBatchThreadIsLost, Offered
  <2>1. x # e /\ entry[x].gate # "shut" /\ ~Offered(x) /\ Holders(x) = {}
    BY <1>3, <1>6
  <2>. QED  BY <1>5, <2>1 DEF IInv, NoBatchThreadIsLost, Offered
<1>15. Agreed
  <2>1. \A x \in Load, q \in Predict : Asked(x, q)' = Asked(x, q)
    BY <1>1 DEF Asked
  <2>2. entry[e].gate = "closing"
    BY <1>1 DEF IInv, StoppedIsClosing
  <2>3. \A q \in Predict : Asked(e, q) # "pending"
    BY <1>1 DEF Asked, Erase, Pending, Holders, TypeOK
  <2>. QED  BY <1>3, <2>1, <2>2, <2>3, GateMoves
<1>. QED  BY <1>7, <1>8, <1>9, <1>10, <1>11, <1>12, <1>13, <1>14, <1>15 DEF IInv

(* The calls of the repository, and the server around them. *)
LEMMA RepositoryStep ==
    ASSUME IInv, Arrives \/ Handle
    PROVE  IInv' /\ Agreed
<1>1. ASSUME NEW n \in Name, NEW r \in Predict, PredictArrives(r, n)  PROVE  IInv' /\ Agreed
  BY <1>1, PredictArrivesStep
<1>2. ASSUME NEW n \in Name, NEW l \in Load, LoadArrives(l, n)  PROVE  IInv' /\ Agreed
  BY <1>2, LoadArrivesStep
<1>3. ASSUME NEW n \in Name, NEW u \in Unload, UnloadArrives(u, n)  PROVE  IInv' /\ Agreed
  BY <1>3, UnloadArrivesStep
<1>4. ASSUME NEW r \in Predict, PredictStep(r)  PROVE  IInv' /\ Agreed
  BY <1>4, GetModelStep, CheckReadyStep, ParseStep, SubmitStep, AnswerStep, LeaveStep,
     DestroyModelStep DEF PredictStep
<1>5. ASSUME NEW l \in Load, LoadStep(l)  PROVE  IInv' /\ Agreed
  BY <1>5, BuildFailsStep, BuildStep, PublishStep, DestroyOldStep DEF LoadStep
<1>6. ASSUME NEW u \in Unload, UnloadStep(u)  PROVE  IInv' /\ Agreed
  BY <1>6, MarkUnloadingStep, StopBatcherStep, EraseStep DEF UnloadStep
<1>. QED  BY <1>1, <1>2, <1>3, <1>4, <1>5, <1>6 DEF Arrives, Handle

(* The other threads of the server leave the repository alone. *)
LEMMA ServerStep ==
    ASSUME IInv, UNCHANGED repository
    PROVE  IInv'
<1>1. TypeOK' /\ UnpublishedIsUnknown' /\ NamesAgree' /\ HandlersProgress' /\ MutexIsHeld'
  BY DEF repository, IInv, TypeOK, UnpublishedIsUnknown, NamesAgree, HandlersProgress,
         MutexIsHeld, Offered, Found, Replaced
<1>2. LoadersDestroyAlone' /\ HandlersDestroyAlone' /\ StoppedIsClosing'
  BY DEF repository, IInv, LoadersDestroyAlone, HandlersDestroyAlone, StoppedIsClosing,
     Offered,
         Holders
<1>3. OffersServe' /\ HeldModelsServe' /\ ReplacementIsSeamless' /\ NoBatchThreadIsLost'
  BY DEF repository, IInv, OffersServe, HeldModelsServe, ReplacementIsSeamless,
         NoBatchThreadIsLost, Holders
<1>. QED  BY <1>1, <1>2, <1>3 DEF IInv

(* Every step. *)
LEMMA NextStep ==
    ASSUME IInv, [Next]_vars
    PROVE  IInv' /\ (UNCHANGED repository \/ Agreed)
<1>1. ASSUME Arrives \/ Handle  PROVE  IInv' /\ Agreed
  BY <1>1, RepositoryStep
<1>2. CASE UNCHANGED repository
  BY <1>2, ServerStep
<1>. QED  BY <1>1, <1>2 DEF Next, vars, Start, ServeStep, PublishHandle, Listen,
             ListenReturns,
             ClearHandle, Stop, StopStep, Look, Join, Wait, Poll, WaiterJoins

(* The invariant holds initially, ... *)
LEMMA InitEstablishes == ServerInit => IInv
<1>. SUFFICES ASSUME ServerInit  PROVE  IInv
  OBVIOUS
<1>. USE CallsAssumption DEF ServerInit, Init
<1>1. TypeOK
  BY DEF TypeOK, ModelState
<1>2. UnpublishedIsUnknown /\ NamesAgree /\ HandlersProgress /\ MutexIsHeld
  BY DEF UnpublishedIsUnknown, NamesAgree, HandlersProgress, MutexIsHeld, Offered, Found,
         Replaced, Holding, Early, Stopping
<1>3. LoadersDestroyAlone /\ HandlersDestroyAlone /\ StoppedIsClosing
  BY DEF LoadersDestroyAlone, HandlersDestroyAlone, StoppedIsClosing
<1>4. OffersServe /\ HeldModelsServe /\ ReplacementIsSeamless /\ NoBatchThreadIsLost
  BY DEF OffersServe, HeldModelsServe, ReplacementIsSeamless, NoBatchThreadIsLost, Holding
<1>. QED  BY <1>1, <1>2, <1>3, <1>4 DEF IInv

(* ... and therefore always. *)
THEOREM Inductive == Spec => []IInv
<1>1. ServerInit => IInv
  BY InitEstablishes
<1>2. IInv /\ [Next]_vars => IInv'
  BY NextStep
<1>. QED  BY <1>1, <1>2, PTL DEF Spec
-----------------------------------------------------------------------------
(* The threads and flags of the server are what the code has, and the     *)
(* calls of start() stay within their bound.                               *)
THEOREM TypeCorrect == Spec => []ServerTypeOK
<1>1. ServerInit => ServerTypeOK
  <2>1. ServerInit => TypeOK
    BY InitEstablishes DEF IInv
  <2>2. ServerInit => starts \in 0..MaxStarts
    BY MaxStartsAssumption DEF ServerInit
  <2>. QED  BY <2>1, <2>2, Zenon DEF ServerInit, ServerTypeOK
<1>2. TypeOK' /\ ServerTypeOK /\ [Next]_vars => ServerTypeOK'
  <2>. SUFFICES ASSUME TypeOK', ServerTypeOK, [Next]_vars  PROVE  ServerTypeOK'
    OBVIOUS
  <2>. USE MaxStartsAssumption DEF ServerTypeOK
  <2>1. CASE UNCHANGED server
    BY <2>1 DEF server
  <2>2. CASE Start
    BY <2>2 DEF Start
  <2>3. CASE ServeStep
    BY <2>3 DEF ServeStep, PublishHandle, Listen, ListenReturns, ClearHandle
  <2>4. CASE Stop \/ StopStep
    BY <2>4 DEF Stop, StopStep, Look, Join
  <2>5. CASE Wait \/ Poll \/ WaiterJoins
    BY <2>5 DEF Wait, Poll, WaiterJoins
  <2>. QED  BY <2>1, <2>2, <2>3, <2>4, <2>5 DEF Next, vars
<1>3. IInv => TypeOK
  BY DEF IInv
<1>. QED  BY <1>1, <1>2, <1>3, Inductive, PTL DEF Spec

(* Whoever gets mutex_ finds only entries that are READY with their        *)
(* batchers running, under the names they were loaded for (server.cpp      *)
(* 344-419), however loads, replacements and unloads overlap.              *)
THEOREM Offers == Spec => []OfferedModelsServe
<1>1. IInv => OfferedModelsServe
  <2>. SUFFICES ASSUME IInv, mutex = None, NEW n \in Name, models[n] # None
                PROVE  /\ entry[models[n]].state = "READY"
                       /\ entry[models[n]].gate = "open"
                       /\ entry[models[n]].name = n
    BY DEF OfferedModelsServe
  <2>1. \A u \in Unload : unload[u].at \notin Stopping
    BY CallsAssumption DEF IInv, MutexIsHeld
  <2>. QED  BY <2>1 DEF IInv, OffersServe, NamesAgree
<1>. QED  BY <1>1, Inductive, PTL

(* While nothing is unloaded, no handler that found the model is turned    *)
(* away, whichever entry it found (server.cpp 405-406, 1060-1064,          *)
(* 1100-1101).                                                             *)
THEOREM Seamless == Spec => []ReplacementIsSeamless
<1>1. IInv => ReplacementIsSeamless
  BY DEF IInv
<1>. QED  BY <1>1, Inductive, PTL

(* A batch thread that neither the map nor a call refers to has been       *)
(* joined (server.cpp 405-418).                                            *)
THEOREM NoneLost == Spec => []NoBatchThreadIsLost
<1>1. IInv => NoBatchThreadIsLost
  BY DEF IInv
<1>. QED  BY <1>1, Inductive, PTL

(* The repository with its handlers, loads and unloads is a user of every  *)
(* entry's batcher that BatcherContract allows: it submits a request once, *)
(* has the answer of the batcher and no other, and lets stop() return only *)
(* when nobody is left waiting (server.cpp 411-418, 1100-1101).            *)
THEOREM UsedAsAgreed == Spec => BatchersAreUsedAsAgreed
<1>1. ServerInit => \A e \in Load : Batcher(e)!Init
  BY DEF ServerInit, Init, Batcher!Init, Asked
<1>2. IInv /\ [Next]_vars => [\A e \in Load : Batcher(e)!Next \/ UNCHANGED Batcher(e)!vars]_repository
  BY NextStep DEF Agreed
<1>. QED  BY <1>1, <1>2, Inductive, PTL DEF Spec, BatchersAreUsedAsAgreed
=============================================================================
