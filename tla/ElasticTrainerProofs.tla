------------------------ MODULE ElasticTrainerProofs ------------------------
(***************************************************************************)
(* Proofs about the rendezvous and the elastic trainer, for every number   *)
(* of workers, every configuration, every number of rounds and crashes:    *)
(* the types are right, membership is consistent, failed joins leave no    *)
(* member key behind, the restart budget holds, and current_round never    *)
(* goes back.                                                              *)
(***************************************************************************)
EXTENDS ElasticTrainer, TLAPS

(* Where join() has a slot with a member key, where it may still close the *)
(* round, and where it is about to open the next one.                      *)
Holding == {"check", "barrier", "freeze", "read"}
Closing == {"check", "barrier", "freeze"}
Opening == {"compare", "publish"}
InRound == {"claim", "guard", "report"} \cup Holding \cup Opening

(* Slot s of round r is w's: w joined under it, or is about to. *)
Owns(w, r, s) ==
    \/ joined[w] = r /\ rank[w] = s
    \/ at[w] \in Holding /\ round[w] = r /\ slot[w] = s

RoundsHaveBegun == \A w \in Worker : at[w] \in InRound => round[w] <= current
SlotsAreCounted == \A w \in Worker, r \in Round, s \in Nat : Owns(w, r, s) => s < counter[r]
SlotsAreUnique ==
    \A v, w \in Worker, r \in Round, s \in Nat : Owns(v, r, s) /\ Owns(w, r, s) => v = w

(* The holder of slot 0 closes the round, once. *)
WorldsAreFrozen ==
    /\ \A r \in Round : world[r] # 0 => world[r] >= config.min /\ counter[r] # 0
    /\ \A w \in Worker : at[w] \in Closing /\ slot[w] = 0 => world[round[w]] = 0
    /\ \A w \in Worker : at[w] = "freeze" => slot[w] = 0 /\ count[w] >= config.min

(* Who has joined is outside of join(), under the world_size of its round. *)
JoinedAreSettled ==
    \A w \in Worker :
        IF joined[w] = -1 THEN rank[w] = -1
        ELSE /\ at[w] \in {"idle", "returned"} /\ phase[w] # "new"
             /\ rank[w] # -1 /\ rank[w] < size[w]
             /\ size[w] = world[joined[w]] /\ world[joined[w]] # 0

(* One worker opens the next round, and nothing happens to current_round   *)
(* between its comparison and its store.                                   *)
OneOpensTheNext ==
    /\ \A w \in Worker : at[w] \in Opening => guard[round[w]] # 0
    /\ \A v, w \in Worker :
           at[v] \in Opening /\ at[w] \in Opening /\ round[v] = round[w] => v = w
    /\ \A w \in Worker : at[w] = "publish" => current = round[w]

MembersAreOwned ==
    \A r \in Round : \A s \in member[r] : <<r, s>> \in left \/ \E w \in Worker : Owns(w, r, s)

(* Where run() is, join() is, and how much of the budget is spent. *)
RunsJoin ==
    \A w \in Worker : phase[w] \in {"new", "training"} => at[w] = "idle"
BudgetIsKept ==
    \A w \in Worker :
        /\ joins[w] <= restarts[w] + 1
        /\ phase[w] = "joining" => joins[w] <= restarts[w]
        /\ phase[w] \in {"new", "joining", "training", "recovering"}
              => restarts[w] <= config.restarts
        /\ phase[w] = "recovering" => restarts[w] < config.restarts
        /\ joins[w] <= config.restarts + 1
        /\ phase[w] = "new" => joins[w] = 0
MonitorsAreFresh == \A w \in Worker : monitored[w] = NoMonitor => dead[w] = {}

Ownership == SlotsAreCounted /\ SlotsAreUnique /\ MembersAreOwned
Running == RunsJoin /\ BudgetIsKept /\ MonitorsAreFresh

IInv ==
    /\ TypeOK
    /\ RoundsHaveBegun /\ Ownership /\ WorldsAreFrozen /\ JoinedAreSettled
    /\ OneOpensTheNext /\ Running

trainer == <<phase, restarts, worldOf, monitored, dead, joins>>
-----------------------------------------------------------------------------
(* What every configuration satisfies. *)
LEMMA ConfigFacts ==
    ASSUME RdzvTypeOK
    PROVE  /\ config.min \in Nat /\ config.min # 0 /\ config.max \in Nat
           /\ config.min <= config.max /\ config.restarts \in Nat
BY ConfigsAssumption DEF RdzvTypeOK

(* The round a worker is in has been opened, and has its keys. *)
LEMMA RoundFacts ==
    ASSUME IInv, NEW w \in Worker
    PROVE  /\ RdzvTypeOK
           /\ round[w] \in 0..MaxRound + 1
           /\ at[w] \in InRound => round[w] \in Round /\ round[w] <= current
<1>1. RdzvTypeOK
  BY DEF IInv, TypeOK
<1>2. round[w] \in 0..MaxRound + 1 /\ current \in 0..MaxRound
  BY <1>1 DEF RdzvTypeOK, Round
<1>3. at[w] \in InRound => round[w] <= current
  BY DEF IInv, RoundsHaveBegun
<1>. QED  BY <1>1, <1>2, <1>3, MaxRoundAssumption DEF Round

(* A step that gives no slot away keeps ownership in order, provided that  *)
(* whoever gives one up deletes its member key or leaves a leave key.      *)
LEMMA OwnershipKept ==
    ASSUME Ownership, counter' = counter, left \subseteq left',
           \A r \in Round : member'[r] \subseteq member[r],
           \A v \in Worker, r \in Round, s \in Nat : Owns(v, r, s)' => Owns(v, r, s),
           \A v \in Worker, r \in Round : \A s \in member'[r] :
               Owns(v, r, s) => Owns(v, r, s)' \/ <<r, s>> \in left'
    PROVE  Ownership'
<1>1. SlotsAreCounted' /\ SlotsAreUnique'
  BY DEF Ownership, SlotsAreCounted, SlotsAreUnique
<1>2. MembersAreOwned'
  BY DEF Ownership, MembersAreOwned
<1>. QED  BY <1>1, <1>2 DEF Ownership

(* A step inside join() is none of the trainer's. *)
LEMMA TrainerKept ==
    ASSUME IInv, RdzvTypeOK', UNCHANGED <<trainer, config>>, NEW w \in Worker,
           at[w] # "idle", \A v \in Worker : v # w => at'[v] = at[v]
    PROVE  TypeOK' /\ Running'
<1>1. TypeOK'
  BY DEF IInv, TypeOK, trainer
<1>2. RunsJoin'
  BY DEF IInv, Running, RunsJoin, trainer
<1>3. BudgetIsKept' /\ MonitorsAreFresh'
  BY DEF IInv, Running, BudgetIsKept, MonitorsAreFresh, trainer
<1>. QED  BY <1>1, <1>2, <1>3 DEF Running
-----------------------------------------------------------------------------
(* The commands of join() preserve the invariant; first, the round read is *)
(* the active one.                                                         *)
LEMMA ReadCurrentRoundStep ==
    ASSUME NEW w \in Worker, IInv, ReadCurrentRound(w), UNCHANGED trainer
    PROVE  IInv'
<1>. USE DEF ReadCurrentRound, Go, store
<1>1. RdzvTypeOK /\ config' = config /\ round[w] \in 0..MaxRound + 1
      /\ (at[w] \in InRound => round[w] \in Round /\ round[w] <= current)
  BY RoundFacts
<1>2. RdzvTypeOK'
  <2>1. at' \in [Worker -> Joining \cup {"idle", "returned", "threw"}]
    BY <1>1 DEF RdzvTypeOK, Joining
  <2>2. round' \in [Worker -> 0..MaxRound + 1]
    BY <1>1, MaxRoundAssumption DEF RdzvTypeOK, Round
  <2>. QED  BY <1>1, <2>1, <2>2 DEF RdzvTypeOK
<1>3. RoundsHaveBegun'
  BY <1>1, <1>2, MaxRoundAssumption DEF IInv, RdzvTypeOK, RoundsHaveBegun, InRound,
     Holding, Opening, Round
<1>4. Ownership'
  <2>1. \A r \in Round : member'[r] \subseteq member[r]
    BY <1>1 DEF RdzvTypeOK
  <2>2. ASSUME NEW v \in Worker, NEW r \in Round, NEW s \in Nat
        PROVE  /\ Owns(v, r, s)' => Owns(v, r, s)
               /\ Owns(v, r, s) => Owns(v, r, s)' \/ s \notin member'[r]
    BY <1>1, <1>2 DEF IInv, RdzvTypeOK, Owns, Holding, InRound, JoinedAreSettled
  <2>3. \A r \in Round : member'[r] \subseteq Nat
    BY <1>2 DEF RdzvTypeOK
  <2>. QED  BY <2>1, <2>2, <2>3, OwnershipKept DEF IInv
<1>5. WorldsAreFrozen'
  BY <1>1, ConfigFacts DEF IInv, RdzvTypeOK, WorldsAreFrozen, Closing, InRound, Holding,
     Opening
<1>6. JoinedAreSettled'
  BY <1>1, <1>2 DEF IInv, RdzvTypeOK, JoinedAreSettled, trainer
<1>7. OneOpensTheNext'
  BY <1>1, <1>2 DEF IInv, RdzvTypeOK, OneOpensTheNext, Opening, InRound
<1>8. TypeOK' /\ Running'
  <2>1. at[w] # "idle" /\ \A v \in Worker : v # w => at'[v] = at[v]
    BY <1>1 DEF RdzvTypeOK
  <2>. QED  BY <1>1, <1>2, <2>1, TrainerKept
<1>. QED  BY <1>3, <1>4, <1>5, <1>6, <1>7, <1>8 DEF IInv

(* A worker that finds the round closed deletes its member key. *)
LEMMA CheckClosedStep ==
    ASSUME NEW w \in Worker, IInv, CheckClosed(w), UNCHANGED trainer
    PROVE  IInv'
<1>. USE DEF CheckClosed, Go, DropMember, local
<1>1. RdzvTypeOK /\ config' = config /\ round[w] \in 0..MaxRound + 1
      /\ (at[w] \in InRound => round[w] \in Round /\ round[w] <= current)
  BY RoundFacts
<1>2. RdzvTypeOK'
  <2>1. at' \in [Worker -> Joining \cup {"idle", "returned", "threw"}]
    BY <1>1 DEF RdzvTypeOK, Joining
  <2>2. member' \in [Round -> SUBSET Nat]
    BY <1>1 DEF RdzvTypeOK, InRound, Holding, Opening
  <2>. QED  BY <1>1, <2>1, <2>2 DEF RdzvTypeOK
<1>3. RoundsHaveBegun'
  <2>1. \A v \in Worker : at'[v] \in InRound => at[v] \in InRound
    BY <1>1 DEF RdzvTypeOK, InRound, Holding, Opening
  <2>2. round' = round /\ current' = current
    OBVIOUS
  <2>. QED  BY <2>1, <2>2 DEF IInv, RoundsHaveBegun
<1>4. Ownership'
  <2>1. \A r \in Round : member'[r] \subseteq member[r]
    BY <1>1 DEF RdzvTypeOK
  <2>2. ASSUME NEW v \in Worker, NEW r \in Round, NEW s \in Nat
        PROVE  /\ Owns(v, r, s)' => Owns(v, r, s)
               /\ Owns(v, r, s) => Owns(v, r, s)' \/ s \notin member'[r]
    BY <1>1, <1>2 DEF IInv, RdzvTypeOK, Owns, Holding, InRound, JoinedAreSettled
  <2>3. \A r \in Round : member'[r] \subseteq Nat
    BY <1>2 DEF RdzvTypeOK
  <2>. QED  BY <2>1, <2>2, <2>3, OwnershipKept DEF IInv
<1>5. WorldsAreFrozen'
  BY <1>1, ConfigFacts DEF IInv, RdzvTypeOK, WorldsAreFrozen, Closing, InRound, Holding,
     Opening
<1>6. JoinedAreSettled'
  BY <1>1, <1>2 DEF IInv, RdzvTypeOK, JoinedAreSettled, trainer
<1>7. OneOpensTheNext'
  BY <1>1, <1>2 DEF IInv, RdzvTypeOK, OneOpensTheNext, Opening, InRound
<1>8. TypeOK' /\ Running'
  <2>1. at[w] # "idle" /\ \A v \in Worker : v # w => at'[v] = at[v]
    BY <1>1 DEF RdzvTypeOK
  <2>. QED  BY <1>1, <1>2, <2>1, TrainerKept
<1>. QED  BY <1>3, <1>4, <1>5, <1>6, <1>7, <1>8 DEF IInv

(* Only slot 0 goes on to close the round, and only with min_workers there. *)
LEMMA BarrierStep ==
    ASSUME NEW w \in Worker, IInv, Barrier(w), UNCHANGED trainer
    PROVE  IInv'
<1>. USE DEF Barrier, Go, DropMember
<1>1. RdzvTypeOK /\ config' = config /\ round[w] \in 0..MaxRound + 1
      /\ (at[w] \in InRound => round[w] \in Round /\ round[w] <= current)
  BY RoundFacts
<1>2. RdzvTypeOK'
  <2>1. at' \in [Worker -> Joining \cup {"idle", "returned", "threw"}]
    BY <1>1 DEF RdzvTypeOK, Joining
  <2>2. member' \in [Round -> SUBSET Nat]
    BY <1>1 DEF RdzvTypeOK, InRound, Holding, Opening
  <2>3. count' \in [Worker -> Nat]
    BY <1>1, ConfigFacts DEF RdzvTypeOK, InRound, Holding, Opening
  <2>. QED  BY <1>1, <2>1, <2>2, <2>3 DEF RdzvTypeOK
<1>3. RoundsHaveBegun'
  <2>1. \A v \in Worker : at'[v] \in InRound => at[v] \in InRound
    BY <1>1 DEF RdzvTypeOK, InRound, Holding, Opening
  <2>2. round' = round /\ current' = current
    OBVIOUS
  <2>. QED  BY <2>1, <2>2 DEF IInv, RoundsHaveBegun
<1>4. Ownership'
  <2>1. \A r \in Round : member'[r] \subseteq member[r]
    BY <1>1 DEF RdzvTypeOK
  <2>2. ASSUME NEW v \in Worker, NEW r \in Round, NEW s \in Nat
        PROVE  /\ Owns(v, r, s)' => Owns(v, r, s)
               /\ Owns(v, r, s) => Owns(v, r, s)' \/ s \notin member'[r]
    BY <1>1, <1>2 DEF IInv, RdzvTypeOK, Owns, Holding, InRound, JoinedAreSettled
  <2>3. \A r \in Round : member'[r] \subseteq Nat
    BY <1>2 DEF RdzvTypeOK
  <2>. QED  BY <2>1, <2>2, <2>3, OwnershipKept DEF IInv
<1>5. WorldsAreFrozen'
  BY <1>1, ConfigFacts DEF IInv, RdzvTypeOK, WorldsAreFrozen, Closing, InRound, Holding,
     Opening
<1>6. JoinedAreSettled'
  BY <1>1, <1>2 DEF IInv, RdzvTypeOK, JoinedAreSettled, trainer
<1>7. OneOpensTheNext'
  BY <1>1, <1>2 DEF IInv, RdzvTypeOK, OneOpensTheNext, Opening, InRound
<1>8. TypeOK' /\ Running'
  <2>1. at[w] # "idle" /\ \A v \in Worker : v # w => at'[v] = at[v]
    BY <1>1 DEF RdzvTypeOK
  <2>. QED  BY <1>1, <1>2, <2>1, TrainerKept
<1>. QED  BY <1>3, <1>4, <1>5, <1>6, <1>7, <1>8 DEF IInv

(* world_size is set once: nobody else has slot 0, and nobody joined yet. *)
LEMMA FreezeStep ==
    ASSUME NEW w \in Worker, IInv, Freeze(w), UNCHANGED trainer
    PROVE  IInv'
<1>. USE DEF Freeze, Go, local
<1>1. RdzvTypeOK /\ config' = config /\ round[w] \in 0..MaxRound + 1
      /\ (at[w] \in InRound => round[w] \in Round /\ round[w] <= current)
  BY RoundFacts
<1>2. RdzvTypeOK'
  <2>1. at' \in [Worker -> Joining \cup {"idle", "returned", "threw"}]
    BY <1>1 DEF RdzvTypeOK, Joining
  <2>2. world' \in [Round -> 0..config'.max]
    BY <1>1, ConfigFacts DEF RdzvTypeOK, InRound, Holding, Opening
  <2>. QED  BY <1>1, <2>1, <2>2 DEF RdzvTypeOK
<1>3. RoundsHaveBegun'
  <2>1. \A v \in Worker : at'[v] \in InRound => at[v] \in InRound
    BY <1>1 DEF RdzvTypeOK, InRound, Holding, Opening
  <2>2. round' = round /\ current' = current
    OBVIOUS
  <2>. QED  BY <2>1, <2>2 DEF IInv, RoundsHaveBegun
<1>4. Ownership'
  <2>1. \A r \in Round : member'[r] \subseteq member[r]
    BY <1>1 DEF RdzvTypeOK
  <2>2. ASSUME NEW v \in Worker, NEW r \in Round, NEW s \in Nat
        PROVE  /\ Owns(v, r, s)' => Owns(v, r, s)
               /\ Owns(v, r, s) => Owns(v, r, s)' \/ s \notin member'[r]
    BY <1>1, <1>2 DEF IInv, RdzvTypeOK, Owns, Holding, InRound, JoinedAreSettled
  <2>3. \A r \in Round : member'[r] \subseteq Nat
    BY <1>2 DEF RdzvTypeOK
  <2>. QED  BY <2>1, <2>2, <2>3, OwnershipKept DEF IInv
<1>5. WorldsAreFrozen'
  <2>1. round[w] \in Round /\ slot[w] = 0 /\ count[w] >= config.min /\ world[round[w]] = 0
        /\ counter[round[w]] # 0
    BY <1>1 DEF IInv, WorldsAreFrozen, InRound, Holding, Closing, Ownership,
       SlotsAreCounted,
                Owns, RdzvTypeOK
  <2>2. world'[round[w]] >= config.min
    BY <1>1, <2>1, ConfigFacts DEF RdzvTypeOK
  <2>3. \A r \in Round : world'[r] # 0 => world'[r] >= config.min /\ counter[r] # 0
    BY <1>1, <2>1, <2>2 DEF IInv, WorldsAreFrozen, RdzvTypeOK
  <2>4. ASSUME NEW v \in Worker, at'[v] \in Closing, slot[v] = 0 PROVE world'[round[v]] = 0
    <3>1. v # w /\ at[v] \in Closing
      BY <1>1, <2>4 DEF RdzvTypeOK, Closing
    <3>2. round[v] # round[w]
      BY <2>1, <3>1, <2>4 DEF IInv, Ownership, SlotsAreUnique, Owns, Holding, Closing
    <3>. QED  BY <1>1, <2>4, <3>1, <3>2 DEF IInv, WorldsAreFrozen, RdzvTypeOK
  <2>5. \A v \in Worker : at'[v] = "freeze" => slot[v] = 0 /\ count[v] >= config.min
    BY <1>1 DEF IInv, WorldsAreFrozen, RdzvTypeOK
  <2>. QED  BY <1>1, <2>3, <2>4, <2>5 DEF WorldsAreFrozen
<1>6. JoinedAreSettled'
  <2>1. slot[w] = 0 /\ world[round[w]] = 0
    BY DEF IInv, WorldsAreFrozen, Closing
  <2>. QED  BY <1>1, <1>2, <2>1 DEF IInv, RdzvTypeOK, JoinedAreSettled, trainer
<1>7. OneOpensTheNext'
  BY <1>1, <1>2 DEF IInv, RdzvTypeOK, OneOpensTheNext, Opening, InRound
<1>8. TypeOK' /\ Running'
  <2>1. at[w] # "idle" /\ \A v \in Worker : v # w => at'[v] = at[v]
    BY <1>1 DEF RdzvTypeOK
  <2>. QED  BY <1>1, <1>2, <2>1, TrainerKept
<1>. QED  BY <1>3, <1>4, <1>5, <1>6, <1>7, <1>8 DEF IInv

(* The slot becomes the rank. *)
LEMMA GetWorldSizeStep ==
    ASSUME NEW w \in Worker, IInv, GetWorldSize(w), UNCHANGED trainer
    PROVE  IInv'
<1>. USE DEF GetWorldSize, Go, DropMember, EndLocals, store, local
<1>1. RdzvTypeOK /\ config' = config /\ round[w] \in 0..MaxRound + 1
      /\ (at[w] \in InRound => round[w] \in Round /\ round[w] <= current)
  BY RoundFacts
<1>2. RdzvTypeOK'
  <2>1. at' \in [Worker -> Joining \cup {"idle", "returned", "threw"}]
    BY <1>1 DEF RdzvTypeOK, Joining
  <2>2. member' \in [Round -> SUBSET Nat]
    BY <1>1 DEF RdzvTypeOK, InRound, Holding, Opening
  <2>3. rank' \in [Worker -> Nat \cup {-1}]
    BY <1>1 DEF RdzvTypeOK, InRound, Holding, Opening
  <2>4. size' \in [Worker -> 0..config'.max]
    BY <1>1, ConfigFacts DEF RdzvTypeOK, InRound, Holding, Opening
  <2>5. joined' \in [Worker -> Round \cup {-1}]
    BY <1>1, MaxRoundAssumption DEF RdzvTypeOK, Round, InRound, Holding, Opening
  <2>6. slot' \in [Worker -> Nat]
    BY <1>1 DEF RdzvTypeOK, InRound, Holding, Opening
  <2>7. count' \in [Worker -> Nat]
    BY <1>1, ConfigFacts DEF RdzvTypeOK, InRound, Holding, Opening
  <2>. QED  BY <1>1, <2>1, <2>2, <2>3, <2>4, <2>5, <2>6, <2>7 DEF RdzvTypeOK
<1>3. RoundsHaveBegun'
  <2>1. \A v \in Worker : at'[v] \in InRound => at[v] \in InRound
    BY <1>1 DEF RdzvTypeOK, InRound, Holding, Opening
  <2>2. round' = round /\ current' = current
    OBVIOUS
  <2>. QED  BY <2>1, <2>2 DEF IInv, RoundsHaveBegun
<1>4. Ownership'
  <2>1. \A r \in Round : member'[r] \subseteq member[r]
    BY <1>1 DEF RdzvTypeOK
  <2>2. ASSUME NEW v \in Worker, NEW r \in Round, NEW s \in Nat
        PROVE  /\ Owns(v, r, s)' => Owns(v, r, s)
               /\ Owns(v, r, s) => Owns(v, r, s)' \/ s \notin member'[r]
    BY <1>1, <1>2 DEF IInv, RdzvTypeOK, Owns, Holding, InRound, JoinedAreSettled
  <2>3. \A r \in Round : member'[r] \subseteq Nat
    BY <1>2 DEF RdzvTypeOK
  <2>. QED  BY <2>1, <2>2, <2>3, OwnershipKept DEF IInv
<1>5. WorldsAreFrozen'
  BY <1>1, ConfigFacts DEF IInv, RdzvTypeOK, WorldsAreFrozen, Closing, InRound, Holding,
     Opening
<1>6. JoinedAreSettled'
  <2>1. phase[w] # "new" /\ slot[w] \in Nat /\ round[w] \in Round
    BY <1>1 DEF IInv, Running, RunsJoin, RdzvTypeOK, InRound, Holding
  <2>2. slot[w] # -1 /\ round[w] # -1
    BY <2>1, MaxRoundAssumption DEF Round
  <2>. QED  BY <1>1, <1>2, <2>1, <2>2 DEF IInv, RdzvTypeOK, JoinedAreSettled, trainer
<1>7. OneOpensTheNext'
  BY <1>1, <1>2 DEF IInv, RdzvTypeOK, OneOpensTheNext, Opening, InRound
<1>8. TypeOK' /\ Running'
  <2>1. at[w] # "idle" /\ \A v \in Worker : v # w => at'[v] = at[v]
    BY <1>1 DEF RdzvTypeOK
  <2>. QED  BY <1>1, <1>2, <2>1, TrainerKept
<1>. QED  BY <1>3, <1>4, <1>5, <1>6, <1>7, <1>8 DEF IInv

(* A worker that gives up deletes its member key. *)
LEMMA NoWorldSizeStep ==
    ASSUME NEW w \in Worker, IInv, NoWorldSize(w), UNCHANGED trainer
    PROVE  IInv'
<1>. USE DEF NoWorldSize, Go, DropMember, local
<1>1. RdzvTypeOK /\ config' = config /\ round[w] \in 0..MaxRound + 1
      /\ (at[w] \in InRound => round[w] \in Round /\ round[w] <= current)
  BY RoundFacts
<1>2. RdzvTypeOK'
  <2>1. at' \in [Worker -> Joining \cup {"idle", "returned", "threw"}]
    BY <1>1 DEF RdzvTypeOK, Joining
  <2>2. member' \in [Round -> SUBSET Nat]
    BY <1>1 DEF RdzvTypeOK, InRound, Holding, Opening
  <2>. QED  BY <1>1, <2>1, <2>2 DEF RdzvTypeOK
<1>3. RoundsHaveBegun'
  <2>1. \A v \in Worker : at'[v] \in InRound => at[v] \in InRound
    BY <1>1 DEF RdzvTypeOK, InRound, Holding, Opening
  <2>2. round' = round /\ current' = current
    OBVIOUS
  <2>. QED  BY <2>1, <2>2 DEF IInv, RoundsHaveBegun
<1>4. Ownership'
  <2>1. \A r \in Round : member'[r] \subseteq member[r]
    BY <1>1 DEF RdzvTypeOK
  <2>2. ASSUME NEW v \in Worker, NEW r \in Round, NEW s \in Nat
        PROVE  /\ Owns(v, r, s)' => Owns(v, r, s)
               /\ Owns(v, r, s) => Owns(v, r, s)' \/ s \notin member'[r]
    BY <1>1, <1>2 DEF IInv, RdzvTypeOK, Owns, Holding, InRound, JoinedAreSettled
  <2>3. \A r \in Round : member'[r] \subseteq Nat
    BY <1>2 DEF RdzvTypeOK
  <2>. QED  BY <2>1, <2>2, <2>3, OwnershipKept DEF IInv
<1>5. WorldsAreFrozen'
  BY <1>1, ConfigFacts DEF IInv, RdzvTypeOK, WorldsAreFrozen, Closing, InRound, Holding,
     Opening
<1>6. JoinedAreSettled'
  BY <1>1, <1>2 DEF IInv, RdzvTypeOK, JoinedAreSettled, trainer
<1>7. OneOpensTheNext'
  BY <1>1, <1>2 DEF IInv, RdzvTypeOK, OneOpensTheNext, Opening, InRound
<1>8. TypeOK' /\ Running'
  <2>1. at[w] # "idle" /\ \A v \in Worker : v # w => at'[v] = at[v]
    BY <1>1 DEF RdzvTypeOK
  <2>. QED  BY <1>1, <1>2, <2>1, TrainerKept
<1>. QED  BY <1>3, <1>4, <1>5, <1>6, <1>7, <1>8 DEF IInv

(* One worker of a round passes its guard. *)
LEMMA WinGuardStep ==
    ASSUME NEW w \in Worker, IInv, WinGuard(w), UNCHANGED trainer
    PROVE  IInv'
<1>. USE DEF WinGuard, Go, local
<1>1. RdzvTypeOK /\ config' = config /\ round[w] \in 0..MaxRound + 1
      /\ (at[w] \in InRound => round[w] \in Round /\ round[w] <= current)
  BY RoundFacts
<1>2. RdzvTypeOK'
  <2>1. at' \in [Worker -> Joining \cup {"idle", "returned", "threw"}]
    BY <1>1 DEF RdzvTypeOK, Joining
  <2>2. guard' \in [Round -> Nat]
    BY <1>1 DEF RdzvTypeOK, InRound, Holding, Opening
  <2>. QED  BY <1>1, <2>1, <2>2 DEF RdzvTypeOK
<1>3. RoundsHaveBegun'
  <2>1. \A v \in Worker : at'[v] \in InRound => at[v] \in InRound
    BY <1>1 DEF RdzvTypeOK, InRound, Holding, Opening
  <2>2. round' = round /\ current' = current
    OBVIOUS
  <2>. QED  BY <2>1, <2>2 DEF IInv, RoundsHaveBegun
<1>4. Ownership'
  <2>1. \A r \in Round : member'[r] \subseteq member[r]
    BY <1>1 DEF RdzvTypeOK
  <2>2. ASSUME NEW v \in Worker, NEW r \in Round, NEW s \in Nat
        PROVE  /\ Owns(v, r, s)' => Owns(v, r, s)
               /\ Owns(v, r, s) => Owns(v, r, s)' \/ s \notin member'[r]
    BY <1>1, <1>2 DEF IInv, RdzvTypeOK, Owns, Holding, InRound, JoinedAreSettled
  <2>3. \A r \in Round : member'[r] \subseteq Nat
    BY <1>2 DEF RdzvTypeOK
  <2>. QED  BY <2>1, <2>2, <2>3, OwnershipKept DEF IInv
<1>5. WorldsAreFrozen'
  BY <1>1, ConfigFacts DEF IInv, RdzvTypeOK, WorldsAreFrozen, Closing, InRound, Holding,
     Opening
<1>6. JoinedAreSettled'
  BY <1>1, <1>2 DEF IInv, RdzvTypeOK, JoinedAreSettled, trainer
<1>7. OneOpensTheNext'
  BY <1>1, <1>2 DEF IInv, RdzvTypeOK, OneOpensTheNext, Opening, InRound
<1>8. TypeOK' /\ Running'
  <2>1. at[w] # "idle" /\ \A v \in Worker : v # w => at'[v] = at[v]
    BY <1>1 DEF RdzvTypeOK
  <2>. QED  BY <1>1, <1>2, <2>1, TrainerKept
<1>. QED  BY <1>3, <1>4, <1>5, <1>6, <1>7, <1>8 DEF IInv

(* Who goes on to publish has seen its own round as the active one. *)
LEMMA CompareStep ==
    ASSUME NEW w \in Worker, IInv, Compare(w), UNCHANGED trainer
    PROVE  IInv'
<1>. USE DEF Compare, Go, store, local
<1>1. RdzvTypeOK /\ config' = config /\ round[w] \in 0..MaxRound + 1
      /\ (at[w] \in InRound => round[w] \in Round /\ round[w] <= current)
  BY RoundFacts
<1>2. RdzvTypeOK'
  <2>1. at' \in [Worker -> Joining \cup {"idle", "returned", "threw"}]
    BY <1>1 DEF RdzvTypeOK, Joining
  <2>. QED  BY <1>1, <2>1 DEF RdzvTypeOK
<1>3. RoundsHaveBegun'
  <2>1. \A v \in Worker : at'[v] \in InRound => at[v] \in InRound
    BY <1>1 DEF RdzvTypeOK, InRound, Holding, Opening
  <2>2. round' = round /\ current' = current
    OBVIOUS
  <2>. QED  BY <2>1, <2>2 DEF IInv, RoundsHaveBegun
<1>4. Ownership'
  <2>1. \A r \in Round : member'[r] \subseteq member[r]
    BY <1>1 DEF RdzvTypeOK
  <2>2. ASSUME NEW v \in Worker, NEW r \in Round, NEW s \in Nat
        PROVE  /\ Owns(v, r, s)' => Owns(v, r, s)
               /\ Owns(v, r, s) => Owns(v, r, s)' \/ s \notin member'[r]
    BY <1>1, <1>2 DEF IInv, RdzvTypeOK, Owns, Holding, InRound, JoinedAreSettled
  <2>3. \A r \in Round : member'[r] \subseteq Nat
    BY <1>2 DEF RdzvTypeOK
  <2>. QED  BY <2>1, <2>2, <2>3, OwnershipKept DEF IInv
<1>5. WorldsAreFrozen'
  BY <1>1, ConfigFacts DEF IInv, RdzvTypeOK, WorldsAreFrozen, Closing, InRound, Holding,
     Opening
<1>6. JoinedAreSettled'
  BY <1>1, <1>2 DEF IInv, RdzvTypeOK, JoinedAreSettled, trainer
<1>7. OneOpensTheNext'
  <2>1. current < round[w] + 1 => current = round[w]
    BY <1>1, MaxRoundAssumption DEF RdzvTypeOK, InRound, Opening, Round
  <2>. QED  BY <1>1, <1>2, <2>1 DEF IInv, RdzvTypeOK, OneOpensTheNext, Opening, InRound
<1>8. TypeOK' /\ Running'
  <2>1. at[w] # "idle" /\ \A v \in Worker : v # w => at'[v] = at[v]
    BY <1>1 DEF RdzvTypeOK
  <2>. QED  BY <1>1, <1>2, <2>1, TrainerKept
<1>. QED  BY <1>3, <1>4, <1>5, <1>6, <1>7, <1>8 DEF IInv

(* Nobody else can have opened the next round. *)
LEMMA PublishStep ==
    ASSUME NEW w \in Worker, IInv, Publish(w), UNCHANGED trainer
    PROVE  IInv'
<1>. USE DEF Publish, Go, local
<1>1. RdzvTypeOK /\ config' = config /\ round[w] \in 0..MaxRound + 1
      /\ (at[w] \in InRound => round[w] \in Round /\ round[w] <= current)
  BY RoundFacts
<1>2. RdzvTypeOK'
  <2>1. at' \in [Worker -> Joining \cup {"idle", "returned", "threw"}]
    BY <1>1 DEF RdzvTypeOK, Joining
  <2>2. current' \in Round
    BY <1>1, MaxRoundAssumption DEF RdzvTypeOK, Round, InRound, Holding, Opening
  <2>. QED  BY <1>1, <2>1, <2>2 DEF RdzvTypeOK
<1>3. RoundsHaveBegun'
  <2>1. current = round[w] /\ current \in Int /\ current' = current + 1
    BY <1>1 DEF IInv, OneOpensTheNext, RdzvTypeOK, Round
  <2>2. \A v \in Worker : at'[v] \in InRound => at[v] \in InRound
    BY <1>1 DEF RdzvTypeOK, InRound, Opening
  <2>3. \A v \in Worker : round[v] \in Int
    BY <1>1 DEF RdzvTypeOK
  <2>. QED  BY <2>1, <2>2, <2>3 DEF IInv, RoundsHaveBegun
<1>4. Ownership'
  <2>1. \A r \in Round : member'[r] \subseteq member[r]
    BY <1>1 DEF RdzvTypeOK
  <2>2. ASSUME NEW v \in Worker, NEW r \in Round, NEW s \in Nat
        PROVE  /\ Owns(v, r, s)' => Owns(v, r, s)
               /\ Owns(v, r, s) => Owns(v, r, s)' \/ s \notin member'[r]
    BY <1>1, <1>2 DEF IInv, RdzvTypeOK, Owns, Holding, InRound, JoinedAreSettled
  <2>3. \A r \in Round : member'[r] \subseteq Nat
    BY <1>2 DEF RdzvTypeOK
  <2>. QED  BY <2>1, <2>2, <2>3, OwnershipKept DEF IInv
<1>5. WorldsAreFrozen'
  BY <1>1, ConfigFacts DEF IInv, RdzvTypeOK, WorldsAreFrozen, Closing, InRound, Holding,
     Opening
<1>6. JoinedAreSettled'
  BY <1>1, <1>2 DEF IInv, RdzvTypeOK, JoinedAreSettled, trainer
<1>7. OneOpensTheNext'
  BY <1>1, <1>2 DEF IInv, RdzvTypeOK, OneOpensTheNext, Opening, InRound
<1>8. TypeOK' /\ Running'
  <2>1. at[w] # "idle" /\ \A v \in Worker : v # w => at'[v] = at[v]
    BY <1>1 DEF RdzvTypeOK
  <2>. QED  BY <1>1, <1>2, <2>1, TrainerKept
<1>. QED  BY <1>3, <1>4, <1>5, <1>6, <1>7, <1>8 DEF IInv

(* The round reported may lie beyond the keys; nothing is done there. *)
LEMMA ReportStep ==
    ASSUME NEW w \in Worker, IInv, Report(w), UNCHANGED trainer
    PROVE  IInv'
<1>. USE DEF Report, Go, EndLocals, store
<1>1. RdzvTypeOK /\ config' = config /\ round[w] \in 0..MaxRound + 1
      /\ (at[w] \in InRound => round[w] \in Round /\ round[w] <= current)
  BY RoundFacts
<1>2. RdzvTypeOK'
  <2>1. at' \in [Worker -> Joining \cup {"idle", "returned", "threw"}]
    BY <1>1 DEF RdzvTypeOK, Joining
  <2>2. round' \in [Worker -> 0..MaxRound + 1]
    <3>1. round[w] \in Round /\ current \in Round
      BY <1>1 DEF RdzvTypeOK, InRound
    <3>2. (IF current > round[w] + 1 THEN current ELSE round[w] + 1) \in 0..MaxRound + 1
      BY <3>1, MaxRoundAssumption DEF Round
    <3>. QED  BY <1>1, <3>2 DEF RdzvTypeOK
  <2>3. slot' \in [Worker -> Nat]
    BY <1>1 DEF RdzvTypeOK, InRound, Holding, Opening
  <2>4. count' \in [Worker -> Nat]
    BY <1>1, ConfigFacts DEF RdzvTypeOK, InRound, Holding, Opening
  <2>. QED  BY <1>1, <2>1, <2>2, <2>3, <2>4 DEF RdzvTypeOK
<1>3. RoundsHaveBegun'
  BY <1>1, <1>2, MaxRoundAssumption DEF IInv, RdzvTypeOK, RoundsHaveBegun, InRound,
     Holding, Opening, Round
<1>4. Ownership'
  <2>1. \A r \in Round : member'[r] \subseteq member[r]
    BY <1>1 DEF RdzvTypeOK
  <2>2. ASSUME NEW v \in Worker, NEW r \in Round, NEW s \in Nat
        PROVE  /\ Owns(v, r, s)' => Owns(v, r, s)
               /\ Owns(v, r, s) => Owns(v, r, s)' \/ s \notin member'[r]
    BY <1>1, <1>2 DEF IInv, RdzvTypeOK, Owns, Holding, InRound, JoinedAreSettled
  <2>3. \A r \in Round : member'[r] \subseteq Nat
    BY <1>2 DEF RdzvTypeOK
  <2>. QED  BY <2>1, <2>2, <2>3, OwnershipKept DEF IInv
<1>5. WorldsAreFrozen'
  BY <1>1, ConfigFacts DEF IInv, RdzvTypeOK, WorldsAreFrozen, Closing, InRound, Holding,
     Opening
<1>6. JoinedAreSettled'
  BY <1>1, <1>2 DEF IInv, RdzvTypeOK, JoinedAreSettled, trainer
<1>7. OneOpensTheNext'
  BY <1>1, <1>2 DEF IInv, RdzvTypeOK, OneOpensTheNext, Opening, InRound
<1>8. TypeOK' /\ Running'
  <2>1. at[w] # "idle" /\ \A v \in Worker : v # w => at'[v] = at[v]
    BY <1>1 DEF RdzvTypeOK
  <2>. QED  BY <1>1, <1>2, <2>1, TrainerKept
<1>. QED  BY <1>3, <1>4, <1>5, <1>6, <1>7, <1>8 DEF IInv

(* A new slot is nobody's: all others are below the counter. *)
LEMMA ClaimSlotStep ==
    ASSUME NEW w \in Worker, IInv, ClaimSlot(w), UNCHANGED trainer
    PROVE  IInv'
<1>. USE DEF ClaimSlot, Go
<1>1. RdzvTypeOK /\ config' = config /\ round[w] \in 0..MaxRound + 1
      /\ (at[w] \in InRound => round[w] \in Round /\ round[w] <= current)
  BY RoundFacts
<1>2. RdzvTypeOK'
  <2>1. at' \in [Worker -> Joining \cup {"idle", "returned", "threw"}]
    BY <1>1 DEF RdzvTypeOK, Joining
  <2>2. slot' \in [Worker -> Nat]
    BY <1>1 DEF RdzvTypeOK, InRound, Holding, Opening
  <2>3. counter' \in [Round -> Nat]
    BY <1>1 DEF RdzvTypeOK, InRound, Holding, Opening
  <2>4. member' \in [Round -> SUBSET Nat]
    BY <1>1 DEF RdzvTypeOK, InRound, Holding, Opening
  <2>. QED  BY <1>1, <2>1, <2>2, <2>3, <2>4 DEF RdzvTypeOK
<1>3. RoundsHaveBegun'
  <2>1. \A v \in Worker : at'[v] \in InRound => at[v] \in InRound
    BY <1>1 DEF RdzvTypeOK, InRound, Holding, Opening
  <2>2. round' = round /\ current' = current
    OBVIOUS
  <2>. QED  BY <2>1, <2>2 DEF IInv, RoundsHaveBegun
<1>4. Ownership'
  <2>. DEFINE r0 == round[w]
              s0 == counter[round[w]]
  <2>1. r0 \in Round /\ s0 \in Nat /\ joined[w] = -1
    BY <1>1 DEF IInv, JoinedAreSettled, RdzvTypeOK, InRound
  <2>2. ASSUME NEW v \in Worker, NEW r \in Round, NEW s \in Nat
        PROVE  Owns(v, r, s)' <=> Owns(v, r, s) \/ (v = w /\ r = r0 /\ s = s0)
    BY <1>1, <2>1, MaxRoundAssumption DEF RdzvTypeOK, Owns, Holding, Round
  <2>3. ASSUME NEW v \in Worker, NEW r \in Round, NEW s \in Nat, Owns(v, r, s)
        PROVE  s < counter[r] /\ (r = r0 => s # s0)
    BY <2>3, <1>1 DEF IInv, Ownership, SlotsAreCounted, RdzvTypeOK
  <2>4. \A r \in Round : counter'[r] = IF r = r0 THEN s0 + 1 ELSE counter[r]
    BY <1>1 DEF RdzvTypeOK
  <2>5. SlotsAreCounted'
    <3>. SUFFICES ASSUME NEW v \in Worker, NEW r \in Round, NEW s \in Nat, Owns(v, r, s)'
                  PROVE  s < counter'[r]
      BY DEF SlotsAreCounted
    <3>1. counter[r] \in Nat
      BY <1>1 DEF RdzvTypeOK
    <3>. QED  BY <2>1, <2>2, <2>3, <2>4, <3>1
  <2>6. SlotsAreUnique'
    BY <2>2, <2>3 DEF IInv, Ownership, SlotsAreUnique
  <2>7. MembersAreOwned'
    <3>. SUFFICES ASSUME NEW r \in Round, NEW s \in member'[r]
                  PROVE  <<r, s>> \in left \/ \E v \in Worker : Owns(v, r, s)'
      BY DEF MembersAreOwned
    <3>1. s \in Nat /\ (s \in member[r] \/ (r = r0 /\ s = s0))
      BY <1>1, <1>2 DEF RdzvTypeOK
    <3>2. CASE s \in member[r]
      BY <2>2, <3>1, <3>2 DEF IInv, Ownership, MembersAreOwned
    <3>3. CASE r = r0 /\ s = s0
      BY <2>2, <3>1, <3>3
    <3>. QED  BY <3>1, <3>2, <3>3
  <2>. QED  BY <2>5, <2>6, <2>7 DEF Ownership
<1>5. WorldsAreFrozen'
  BY <1>1, ConfigFacts DEF IInv, RdzvTypeOK, WorldsAreFrozen, Closing, InRound, Holding,
     Opening
<1>6. JoinedAreSettled'
  BY <1>1, <1>2 DEF IInv, RdzvTypeOK, JoinedAreSettled, trainer
<1>7. OneOpensTheNext'
  BY <1>1, <1>2 DEF IInv, RdzvTypeOK, OneOpensTheNext, Opening, InRound
<1>8. TypeOK' /\ Running'
  <2>1. at[w] # "idle" /\ \A v \in Worker : v # w => at'[v] = at[v]
    BY <1>1 DEF RdzvTypeOK
  <2>. QED  BY <1>1, <1>2, <2>1, TrainerKept
<1>. QED  BY <1>3, <1>4, <1>5, <1>6, <1>7, <1>8 DEF IInv
-----------------------------------------------------------------------------
(* The trainer's steps leave the rendezvous in order. *)
Rendezvousing == RoundsHaveBegun /\ Ownership /\ WorldsAreFrozen /\ OneOpensTheNext

(* Calling join(), or taking its result. *)
LEMMA CallKeeps ==
    ASSUME IInv, NEW w \in Worker, at[w] \in {"idle", "returned", "threw"},
           NEW a \in {"idle", "start"}, at' = [at EXCEPT ![w] = a],
           UNCHANGED <<config, store, local>>
    PROVE  RdzvTypeOK' /\ Rendezvousing'
<1>. USE DEF store, local
<1>1. RdzvTypeOK
  BY DEF IInv, TypeOK
<1>2. RdzvTypeOK'
  BY <1>1 DEF RdzvTypeOK, Joining
<1>3. RoundsHaveBegun'
  BY <1>1 DEF IInv, RoundsHaveBegun, InRound, Holding, Opening, RdzvTypeOK
<1>4. Ownership'
  <2>1. \A v \in Worker, r \in Round, s \in Nat : Owns(v, r, s)' <=> Owns(v, r, s)
    BY <1>1 DEF Owns, Holding, RdzvTypeOK
  <2>2. \A r \in Round : member[r] \subseteq Nat
    BY <1>1 DEF RdzvTypeOK
  <2>. QED  BY <2>1, <2>2, OwnershipKept DEF IInv
<1>5. WorldsAreFrozen'
  BY <1>1 DEF IInv, WorldsAreFrozen, Closing, RdzvTypeOK
<1>6. OneOpensTheNext'
  BY <1>1 DEF IInv, OneOpensTheNext, Opening, RdzvTypeOK
<1>. QED  BY <1>2, <1>3, <1>4, <1>5, <1>6 DEF Rendezvousing

(* leave(), followed by join() or not. *)
LEMMA LeaveKeeps ==
    ASSUME IInv, NEW w \in Worker, phase[w] = "training", Leave(w),
           NEW a \in {"idle", "start"}, at' = [at EXCEPT ![w] = a]
    PROVE  /\ RdzvTypeOK' /\ Rendezvousing'
           /\ joined'[w] = -1 /\ rank'[w] = -1
           /\ \A v \in Worker : v # w => joined'[v] = joined[v] /\ rank'[v] = rank[v]
                                         /\ size'[v] = size[v] /\ at'[v] = at[v]
<1>. USE DEF Leave
<1>1. RdzvTypeOK /\ at[w] = "idle"
  BY DEF IInv, TypeOK, Running, RunsJoin
<1>2. /\ joined'[w] = -1 /\ rank'[w] = -1
      /\ \A v \in Worker : v # w => joined'[v] = joined[v] /\ rank'[v] = rank[v]
                                    /\ size'[v] = size[v] /\ at'[v] = at[v]
  BY <1>1 DEF RdzvTypeOK
<1>3. RdzvTypeOK'
  <2>1. left' \subseteq Round \X Nat
    <3>1. rank[w] >= 0 /\ joined[w] >= 0 => rank[w] \in Nat /\ joined[w] \in Round
      BY <1>1, MaxRoundAssumption DEF RdzvTypeOK, Round
    <3>. QED  BY <1>1, <3>1 DEF RdzvTypeOK
  <2>2. at' \in [Worker -> Joining \cup {"idle", "returned", "threw"}]
    BY <1>1 DEF RdzvTypeOK, Joining
  <2>3. size' \in [Worker -> 0..config.max]
    BY <1>1, ConfigFacts DEF RdzvTypeOK
  <2>4. rank' \in [Worker -> Nat \cup {-1}] /\ joined' \in [Worker -> Round \cup {-1}]
    BY <1>1 DEF RdzvTypeOK
  <2>. QED  BY <1>1, <2>1, <2>2, <2>3, <2>4 DEF RdzvTypeOK
<1>4. RoundsHaveBegun'
  BY <1>1 DEF IInv, RoundsHaveBegun, InRound, Holding, Opening, RdzvTypeOK
<1>5. Ownership'
  <2>1. ASSUME NEW v \in Worker, NEW r \in Round, NEW s \in Nat
        PROVE  /\ Owns(v, r, s)' => Owns(v, r, s)
               /\ Owns(v, r, s) => Owns(v, r, s)' \/ <<r, s>> \in left'
    <3>1. r >= 0 /\ s >= 0 /\ r # -1
      BY MaxRoundAssumption DEF Round
    <3>2. CASE v # w
      BY <1>1, <1>2, <3>2 DEF Owns, RdzvTypeOK
    <3>3. CASE v = w
      BY <1>1, <1>2, <3>1, <3>3 DEF Owns, Holding, RdzvTypeOK
    <3>. QED  BY <3>2, <3>3
  <2>2. \A r \in Round : member[r] \subseteq Nat
    BY <1>1 DEF RdzvTypeOK
  <2>. QED  BY <2>1, <2>2, OwnershipKept DEF IInv
<1>6. WorldsAreFrozen'
  BY <1>1 DEF IInv, WorldsAreFrozen, Closing, RdzvTypeOK
<1>7. OneOpensTheNext'
  BY <1>1 DEF IInv, OneOpensTheNext, Opening, RdzvTypeOK
<1>. QED  BY <1>2, <1>3, <1>4, <1>5, <1>6, <1>7 DEF Rendezvousing

(* A step that does not concern the rendezvous. *)
LEMMA SameRendezvous ==
    ASSUME IInv, UNCHANGED rdzvVars
    PROVE  RdzvTypeOK' /\ Rendezvousing'
<1>. USE DEF rdzvVars, store, local
<1>1. RdzvTypeOK'
  BY DEF IInv, TypeOK, RdzvTypeOK
<1>2. RoundsHaveBegun' /\ WorldsAreFrozen' /\ OneOpensTheNext'
  BY DEF IInv, RoundsHaveBegun, WorldsAreFrozen, OneOpensTheNext
<1>3. Ownership'
  BY DEF IInv, Ownership, SlotsAreCounted, SlotsAreUnique, MembersAreOwned, Owns
<1>. QED  BY <1>1, <1>2, <1>3 DEF Rendezvousing

(* The rest of the invariant, as facts about one worker. *)
LEMMA TrainerFacts ==
    ASSUME IInv, NEW w \in Worker
    PROVE  /\ RdzvTypeOK /\ config.restarts \in Nat /\ config.max \in Nat
           /\ restarts[w] \in 0..config.restarts + 1 /\ joins[w] \in Nat
           /\ phase \in [Worker -> Ended \cup {"joining", "training", "recovering"}]
           /\ restarts \in [Worker -> 0..config.restarts + 1]
           /\ worldOf \in [Worker -> [rank : Nat \cup {-1}, size : 0..config.max]]
           /\ monitored \in [Worker -> (SUBSET (0..config.max - 1)) \cup {NoMonitor}]
           /\ dead \in [Worker -> SUBSET (0..config.max - 1)]
           /\ \A v \in Worker : dead[v] \subseteq monitored[v]
           /\ joins \in [Worker -> Nat]
           /\ rank[w] \in Nat \cup {-1} /\ size[w] \in 0..config.max
<1>1. TypeOK /\ RdzvTypeOK
  BY DEF IInv, TypeOK
<1>2. config.restarts \in Nat /\ config.max \in Nat
  BY <1>1, ConfigFacts
<1>3. rank[w] \in Nat \cup {-1} /\ size[w] \in 0..config.max
  BY <1>1 DEF RdzvTypeOK
<1>. QED  BY <1>1, <1>2, <1>3 DEF TypeOK

(* run() begins. *)
LEMMA RunStep ==
    ASSUME NEW w \in Worker, IInv, Run(w)
    PROVE  IInv'
<1>. USE DEF Run
<1>1. RdzvTypeOK' /\ Rendezvousing'
  <2>1. at[w] \in {"idle", "returned", "threw"}
    BY DEF IInv, Running, RunsJoin
  <2>2. PICK a \in {"idle", "start"} : at' = [at EXCEPT ![w] = a]
    BY DEF Accept, Go
  <2>3. UNCHANGED <<config, store, local>>
    BY DEF Accept
  <2>. QED  BY <2>1, <2>2, <2>3, CallKeeps
<1>2. TypeOK'
  <2>0. config' = config
    BY DEF Run, store, local, Leave
  <2>1. phase' \in [Worker -> Ended \cup {"joining", "training", "recovering"}]
    BY TrainerFacts DEF Run, store, local, Ended
  <2>2. restarts' \in [Worker -> 0..config.restarts + 1]
    BY TrainerFacts DEF Run, store, local, IInv, Running, BudgetIsKept
  <2>3. worldOf' \in [Worker -> [rank : Nat \cup {-1}, size : 0..config.max]]
    BY TrainerFacts DEF Run, store, local, Nowhere
  <2>4. monitored' \in [Worker -> (SUBSET (0..config.max - 1)) \cup {NoMonitor}]
    BY TrainerFacts DEF Run, store, local, Peers
  <2>5. dead' \in [Worker -> SUBSET (0..config.max - 1)]
    BY TrainerFacts DEF Run, store, local, NoMonitor
  <2>6. \A v \in Worker : dead'[v] \subseteq monitored'[v]
    BY TrainerFacts DEF Run, store, local, IInv, Running, MonitorsAreFresh, Peers
  <2>7. joins' \in [Worker -> Nat]
    BY TrainerFacts DEF Run, store, local
  <2>. QED  BY <1>1, <2>0, <2>1, <2>2, <2>3, <2>4, <2>5, <2>6, <2>7 DEF TypeOK
<1>3. JoinedAreSettled'
  BY <1>1, TrainerFacts DEF Run, store, local, IInv, JoinedAreSettled, RdzvTypeOK
<1>4. RunsJoin'
  BY <1>1, TrainerFacts DEF Run, store, local, IInv, Running, RunsJoin, RdzvTypeOK
<1>5. BudgetIsKept'
  BY <1>1, TrainerFacts DEF Run, store, local, Leave, IInv, Running, BudgetIsKept
<1>6. MonitorsAreFresh'
  BY <1>1, TrainerFacts DEF Run, store, local, IInv, Running, MonitorsAreFresh, NoMonitor,
     Peers
<1>. QED  BY <1>1, <1>2, <1>3, <1>4, <1>5, <1>6 DEF IInv, Running, Rendezvousing

(* A join uses up what a restart allowed. *)
LEMMA JoinReturnedStep ==
    ASSUME NEW w \in Worker, IInv, JoinReturned(w)
    PROVE  IInv'
<1>. USE DEF JoinReturned
<1>1. RdzvTypeOK' /\ Rendezvousing'
  <2>1. at[w] \in {"idle", "returned", "threw"}
    BY DEF Accept, Go
  <2>2. PICK a \in {"idle", "start"} : at' = [at EXCEPT ![w] = a]
    BY DEF Accept, Go
  <2>3. UNCHANGED <<config, store, local>>
    BY DEF Accept
  <2>. QED  BY <2>1, <2>2, <2>3, CallKeeps
<1>2. TypeOK'
  <2>0. config' = config
    BY DEF JoinReturned, Accept, Go, store, local, Leave
  <2>1. phase' \in [Worker -> Ended \cup {"joining", "training", "recovering"}]
    BY TrainerFacts DEF JoinReturned, Accept, Go, store, local, Ended
  <2>2. restarts' \in [Worker -> 0..config.restarts + 1]
    BY TrainerFacts DEF JoinReturned, Accept, Go, store, local, IInv, Running, BudgetIsKept
  <2>3. worldOf' \in [Worker -> [rank : Nat \cup {-1}, size : 0..config.max]]
    BY TrainerFacts DEF JoinReturned, Accept, Go, store, local, Nowhere
  <2>4. monitored' \in [Worker -> (SUBSET (0..config.max - 1)) \cup {NoMonitor}]
    BY TrainerFacts DEF JoinReturned, Accept, Go, store, local, Peers
  <2>5. dead' \in [Worker -> SUBSET (0..config.max - 1)]
    BY TrainerFacts DEF JoinReturned, Accept, Go, store, local, NoMonitor
  <2>6. \A v \in Worker : dead'[v] \subseteq monitored'[v]
    BY TrainerFacts DEF JoinReturned, Accept, Go, store, local, IInv, Running,
       MonitorsAreFresh, Peers
  <2>7. joins' \in [Worker -> Nat]
    BY TrainerFacts DEF JoinReturned, Accept, Go, store, local
  <2>. QED  BY <1>1, <2>0, <2>1, <2>2, <2>3, <2>4, <2>5, <2>6, <2>7 DEF TypeOK
<1>3. JoinedAreSettled'
  BY <1>1, TrainerFacts DEF JoinReturned, Accept, Go, store, local, IInv, JoinedAreSettled,
     RdzvTypeOK
<1>4. RunsJoin'
  BY <1>1, TrainerFacts DEF JoinReturned, Accept, Go, store, local, IInv, Running,
     RunsJoin, RdzvTypeOK
<1>5. BudgetIsKept'
  BY <1>1, TrainerFacts DEF JoinReturned, Accept, Go, store, local, Leave, IInv, Running,
     BudgetIsKept
<1>6. MonitorsAreFresh'
  BY <1>1, TrainerFacts DEF JoinReturned, Accept, Go, store, local, IInv, Running,
     MonitorsAreFresh, NoMonitor, Peers
<1>. QED  BY <1>1, <1>2, <1>3, <1>4, <1>5, <1>6 DEF IInv, Running, Rendezvousing

(* A failed join costs a restart, or ends run(). *)
LEMMA JoinThrewStep ==
    ASSUME NEW w \in Worker, IInv, JoinThrew(w)
    PROVE  IInv'
<1>. USE DEF JoinThrew
<1>1. RdzvTypeOK' /\ Rendezvousing'
  <2>1. at[w] \in {"idle", "returned", "threw"}
    BY DEF Accept, Go
  <2>2. PICK a \in {"idle", "start"} : at' = [at EXCEPT ![w] = a]
    BY DEF Accept, Go
  <2>3. UNCHANGED <<config, store, local>>
    BY DEF Accept
  <2>. QED  BY <2>1, <2>2, <2>3, CallKeeps
<1>2. TypeOK'
  <2>0. config' = config
    BY DEF JoinThrew, Go, store, local, Leave
  <2>1. phase' \in [Worker -> Ended \cup {"joining", "training", "recovering"}]
    BY TrainerFacts DEF JoinThrew, Go, store, local, Ended
  <2>2. restarts' \in [Worker -> 0..config.restarts + 1]
    BY TrainerFacts DEF JoinThrew, Go, store, local, IInv, Running, BudgetIsKept
  <2>3. worldOf' \in [Worker -> [rank : Nat \cup {-1}, size : 0..config.max]]
    BY TrainerFacts DEF JoinThrew, Go, store, local, Nowhere
  <2>4. monitored' \in [Worker -> (SUBSET (0..config.max - 1)) \cup {NoMonitor}]
    BY TrainerFacts DEF JoinThrew, Go, store, local, Peers
  <2>5. dead' \in [Worker -> SUBSET (0..config.max - 1)]
    BY TrainerFacts DEF JoinThrew, Go, store, local, NoMonitor
  <2>6. \A v \in Worker : dead'[v] \subseteq monitored'[v]
    BY TrainerFacts DEF JoinThrew, Go, store, local, IInv, Running, MonitorsAreFresh, Peers
  <2>7. joins' \in [Worker -> Nat]
    BY TrainerFacts DEF JoinThrew, Go, store, local
  <2>. QED  BY <1>1, <2>0, <2>1, <2>2, <2>3, <2>4, <2>5, <2>6, <2>7 DEF TypeOK
<1>3. JoinedAreSettled'
  BY <1>1, TrainerFacts DEF JoinThrew, Go, store, local, IInv, JoinedAreSettled, RdzvTypeOK
<1>4. RunsJoin'
  BY <1>1, TrainerFacts DEF JoinThrew, Go, store, local, IInv, Running, RunsJoin, RdzvTypeOK
<1>5. BudgetIsKept'
  BY <1>1, TrainerFacts DEF JoinThrew, Go, store, local, Leave, IInv, Running, BudgetIsKept
<1>6. MonitorsAreFresh'
  BY <1>1, TrainerFacts DEF JoinThrew, Go, store, local, IInv, Running, MonitorsAreFresh,
     NoMonitor, Peers
<1>. QED  BY <1>1, <1>2, <1>3, <1>4, <1>5, <1>6 DEF IInv, Running, Rendezvousing

(* A recovery counts as a restart once it has succeeded. *)
LEMMA RecoverReturnedStep ==
    ASSUME NEW w \in Worker, IInv, RecoverReturned(w)
    PROVE  IInv'
<1>. USE DEF RecoverReturned
<1>1. RdzvTypeOK' /\ Rendezvousing'
  <2>1. at[w] \in {"idle", "returned", "threw"}
    BY DEF Accept, Go
  <2>2. PICK a \in {"idle", "start"} : at' = [at EXCEPT ![w] = a]
    BY DEF Accept, Go
  <2>3. UNCHANGED <<config, store, local>>
    BY DEF Accept
  <2>. QED  BY <2>1, <2>2, <2>3, CallKeeps
<1>2. TypeOK'
  <2>0. config' = config
    BY DEF RecoverReturned, Accept, Go, store, local, Leave
  <2>1. phase' \in [Worker -> Ended \cup {"joining", "training", "recovering"}]
    BY TrainerFacts DEF RecoverReturned, Accept, Go, store, local, Ended
  <2>2. restarts' \in [Worker -> 0..config.restarts + 1]
    BY TrainerFacts DEF RecoverReturned, Accept, Go, store, local, IInv, Running,
       BudgetIsKept
  <2>3. worldOf' \in [Worker -> [rank : Nat \cup {-1}, size : 0..config.max]]
    BY TrainerFacts DEF RecoverReturned, Accept, Go, store, local, Nowhere
  <2>4. monitored' \in [Worker -> (SUBSET (0..config.max - 1)) \cup {NoMonitor}]
    BY TrainerFacts DEF RecoverReturned, Accept, Go, store, local, Peers
  <2>5. dead' \in [Worker -> SUBSET (0..config.max - 1)]
    BY TrainerFacts DEF RecoverReturned, Accept, Go, store, local, NoMonitor
  <2>6. \A v \in Worker : dead'[v] \subseteq monitored'[v]
    BY TrainerFacts DEF RecoverReturned, Accept, Go, store, local, IInv, Running,
       MonitorsAreFresh, Peers
  <2>7. joins' \in [Worker -> Nat]
    BY TrainerFacts DEF RecoverReturned, Accept, Go, store, local
  <2>. QED  BY <1>1, <2>0, <2>1, <2>2, <2>3, <2>4, <2>5, <2>6, <2>7 DEF TypeOK
<1>3. JoinedAreSettled'
  BY <1>1, TrainerFacts DEF RecoverReturned, Accept, Go, store, local, IInv,
     JoinedAreSettled, RdzvTypeOK
<1>4. RunsJoin'
  BY <1>1, TrainerFacts DEF RecoverReturned, Accept, Go, store, local, IInv, Running,
     RunsJoin, RdzvTypeOK
<1>5. BudgetIsKept'
  BY <1>1, TrainerFacts DEF RecoverReturned, Accept, Go, store, local, Leave, IInv,
     Running, BudgetIsKept
<1>6. MonitorsAreFresh'
  BY <1>1, TrainerFacts DEF RecoverReturned, Accept, Go, store, local, IInv, Running,
     MonitorsAreFresh, NoMonitor, Peers
<1>. QED  BY <1>1, <1>2, <1>3, <1>4, <1>5, <1>6 DEF IInv, Running, Rendezvousing

(* A failed recovery leaves the worker outside of every world. *)
LEMMA RecoverThrewStep ==
    ASSUME NEW w \in Worker, IInv, RecoverThrew(w)
    PROVE  IInv'
<1>. USE DEF RecoverThrew
<1>1. RdzvTypeOK' /\ Rendezvousing'
  <2>1. at[w] \in {"idle", "returned", "threw"}
    BY DEF Accept, Go
  <2>2. PICK a \in {"idle", "start"} : at' = [at EXCEPT ![w] = a]
    BY DEF Accept, Go
  <2>3. UNCHANGED <<config, store, local>>
    BY DEF Accept
  <2>. QED  BY <2>1, <2>2, <2>3, CallKeeps
<1>2. TypeOK'
  <2>0. config' = config
    BY DEF RecoverThrew, Go, store, local, Leave
  <2>1. phase' \in [Worker -> Ended \cup {"joining", "training", "recovering"}]
    BY TrainerFacts DEF RecoverThrew, Go, store, local, Ended
  <2>2. restarts' \in [Worker -> 0..config.restarts + 1]
    BY TrainerFacts DEF RecoverThrew, Go, store, local, IInv, Running, BudgetIsKept
  <2>3. worldOf' \in [Worker -> [rank : Nat \cup {-1}, size : 0..config.max]]
    BY TrainerFacts DEF RecoverThrew, Go, store, local, Nowhere
  <2>4. monitored' \in [Worker -> (SUBSET (0..config.max - 1)) \cup {NoMonitor}]
    <3>. DEFINE M == (SUBSET (0..config.max - 1)) \cup {NoMonitor}
    <3>1. monitored \in [Worker -> M]
      BY TrainerFacts
    <3>2. NoMonitor \in M
      OBVIOUS
    <3>. HIDE DEF M
    <3>3. monitored' \in [Worker -> M]
      BY <3>1, <3>2
    <3>. QED  BY <3>3 DEF M
  <2>5. dead' \in [Worker -> SUBSET (0..config.max - 1)]
    BY TrainerFacts DEF RecoverThrew, Go, store, local, NoMonitor
  <2>6. \A v \in Worker : dead'[v] \subseteq monitored'[v]
    BY TrainerFacts DEF RecoverThrew, Go, store, local, IInv, Running, MonitorsAreFresh,
       Peers
  <2>7. joins' \in [Worker -> Nat]
    BY TrainerFacts DEF RecoverThrew, Go, store, local
  <2>. QED  BY <1>1, <2>0, <2>1, <2>2, <2>3, <2>4, <2>5, <2>6, <2>7 DEF TypeOK
<1>3. JoinedAreSettled'
  BY <1>1, TrainerFacts DEF RecoverThrew, Go, store, local, IInv, JoinedAreSettled,
     RdzvTypeOK
<1>4. RunsJoin'
  BY <1>1, TrainerFacts DEF RecoverThrew, Go, store, local, IInv, Running, RunsJoin,
     RdzvTypeOK
<1>5. BudgetIsKept'
  BY <1>1, TrainerFacts DEF RecoverThrew, Go, store, local, Leave, IInv, Running,
     BudgetIsKept
<1>6. MonitorsAreFresh'
  BY <1>1, TrainerFacts DEF RecoverThrew, Go, store, local, IInv, Running,
     MonitorsAreFresh, NoMonitor, Peers
<1>. QED  BY <1>1, <1>2, <1>3, <1>4, <1>5, <1>6 DEF IInv, Running, Rendezvousing

(* train_fn fails: leave(), and a restart or the end. *)
LEMMA TrainThrowsStep ==
    ASSUME NEW w \in Worker, IInv, TrainThrows(w)
    PROVE  IInv'
<1>. USE DEF TrainThrows
<1>1. RdzvTypeOK' /\ Rendezvousing'
  <2>1. PICK a \in {"idle", "start"} : at' = [at EXCEPT ![w] = a]
    BY DEF IInv, Running, RunsJoin, TypeOK, RdzvTypeOK
  <2>. QED  BY <2>1, LeaveKeeps
<1>2. TypeOK'
  <2>0. config' = config
    BY DEF TrainThrows, Leave
  <2>1. phase' \in [Worker -> Ended \cup {"joining", "training", "recovering"}]
    BY TrainerFacts DEF TrainThrows, Ended
  <2>2. restarts' \in [Worker -> 0..config.restarts + 1]
    BY TrainerFacts DEF TrainThrows, IInv, Running, BudgetIsKept
  <2>3. worldOf' \in [Worker -> [rank : Nat \cup {-1}, size : 0..config.max]]
    BY TrainerFacts DEF TrainThrows, Nowhere
  <2>4. monitored' \in [Worker -> (SUBSET (0..config.max - 1)) \cup {NoMonitor}]
    BY TrainerFacts DEF TrainThrows, Peers
  <2>5. dead' \in [Worker -> SUBSET (0..config.max - 1)]
    BY TrainerFacts DEF TrainThrows, NoMonitor
  <2>6. \A v \in Worker : dead'[v] \subseteq monitored'[v]
    BY TrainerFacts DEF TrainThrows, IInv, Running, MonitorsAreFresh, Peers
  <2>7. joins' \in [Worker -> Nat]
    BY TrainerFacts DEF TrainThrows
  <2>. QED  BY <1>1, <2>0, <2>1, <2>2, <2>3, <2>4, <2>5, <2>6, <2>7 DEF TypeOK
<1>3. JoinedAreSettled'
  <2>1. UNCHANGED world
    BY DEF Leave
  <2>3. \A v \in Worker : v # w => phase'[v] = phase[v]
    BY TrainerFacts
  <2>2. PICK a \in {"idle", "start"} : at' = [at EXCEPT ![w] = a]
    BY DEF IInv, Running, RunsJoin, TypeOK, RdzvTypeOK
  <2>4. /\ joined'[w] = -1 /\ rank'[w] = -1
        /\ \A v \in Worker : v # w => joined'[v] = joined[v] /\ rank'[v] = rank[v]
                                      /\ size'[v] = size[v] /\ at'[v] = at[v]
    BY <2>2, LeaveKeeps
  <2>. QED  BY <2>1, <2>3, <2>4 DEF IInv, JoinedAreSettled
<1>4. RunsJoin'
  BY <1>1, TrainerFacts DEF TrainThrows, IInv, Running, RunsJoin, RdzvTypeOK
<1>5. BudgetIsKept'
  BY <1>1, TrainerFacts DEF TrainThrows, Leave, IInv, Running, BudgetIsKept
<1>6. MonitorsAreFresh'
  BY <1>1, TrainerFacts DEF TrainThrows, IInv, Running, MonitorsAreFresh, NoMonitor, Peers
<1>. QED  BY <1>1, <1>2, <1>3, <1>4, <1>5, <1>6 DEF IInv, Running, Rendezvousing

(* A recovery begins only within the budget. *)
LEMMA RecoverStep ==
    ASSUME NEW w \in Worker, IInv, Recover(w)
    PROVE  IInv'
<1>. USE DEF Recover
<1>1. RdzvTypeOK' /\ Rendezvousing'
  <2>1. PICK a \in {"idle", "start"} : at' = [at EXCEPT ![w] = a]
    BY DEF IInv, Running, RunsJoin, TypeOK, RdzvTypeOK
  <2>. QED  BY <2>1, LeaveKeeps
<1>2. TypeOK'
  <2>0. config' = config
    BY DEF Recover, Leave
  <2>1. phase' \in [Worker -> Ended \cup {"joining", "training", "recovering"}]
    BY TrainerFacts DEF Recover, Ended
  <2>2. restarts' \in [Worker -> 0..config.restarts + 1]
    BY TrainerFacts DEF Recover, IInv, Running, BudgetIsKept
  <2>3. worldOf' \in [Worker -> [rank : Nat \cup {-1}, size : 0..config.max]]
    BY TrainerFacts DEF Recover, Nowhere
  <2>4. monitored' \in [Worker -> (SUBSET (0..config.max - 1)) \cup {NoMonitor}]
    BY TrainerFacts DEF Recover, Peers
  <2>5. dead' \in [Worker -> SUBSET (0..config.max - 1)]
    BY TrainerFacts DEF Recover, NoMonitor
  <2>6. \A v \in Worker : dead'[v] \subseteq monitored'[v]
    BY TrainerFacts DEF Recover, IInv, Running, MonitorsAreFresh, Peers
  <2>7. joins' \in [Worker -> Nat]
    BY TrainerFacts DEF Recover
  <2>. QED  BY <1>1, <2>0, <2>1, <2>2, <2>3, <2>4, <2>5, <2>6, <2>7 DEF TypeOK
<1>3. JoinedAreSettled'
  <2>1. UNCHANGED world
    BY DEF Leave
  <2>3. \A v \in Worker : v # w => phase'[v] = phase[v]
    BY TrainerFacts
  <2>2. PICK a \in {"idle", "start"} : at' = [at EXCEPT ![w] = a]
    BY DEF IInv, Running, RunsJoin, TypeOK, RdzvTypeOK
  <2>4. /\ joined'[w] = -1 /\ rank'[w] = -1
        /\ \A v \in Worker : v # w => joined'[v] = joined[v] /\ rank'[v] = rank[v]
                                      /\ size'[v] = size[v] /\ at'[v] = at[v]
    BY <2>2, LeaveKeeps
  <2>. QED  BY <2>1, <2>3, <2>4 DEF IInv, JoinedAreSettled
<1>4. RunsJoin'
  BY <1>1, TrainerFacts DEF Recover, IInv, Running, RunsJoin, RdzvTypeOK
<1>5. BudgetIsKept'
  BY <1>1, TrainerFacts DEF Recover, Leave, IInv, Running, BudgetIsKept
<1>6. MonitorsAreFresh'
  BY <1>1, TrainerFacts DEF Recover, IInv, Running, MonitorsAreFresh, NoMonitor, Peers
<1>. QED  BY <1>1, <1>2, <1>3, <1>4, <1>5, <1>6 DEF IInv, Running, Rendezvousing

(* train_fn returns. *)
LEMMA TrainReturnsStep ==
    ASSUME NEW w \in Worker, IInv, TrainReturns(w)
    PROVE  IInv'
<1>. USE DEF TrainReturns
<1>1. RdzvTypeOK' /\ Rendezvousing'
  BY SameRendezvous
<1>2. TypeOK'
  <2>0. config' = config
    BY DEF TrainReturns, rdzvVars, store, local, Leave
  <2>1. phase' \in [Worker -> Ended \cup {"joining", "training", "recovering"}]
    BY TrainerFacts DEF TrainReturns, rdzvVars, store, local, Ended
  <2>2. restarts' \in [Worker -> 0..config.restarts + 1]
    BY TrainerFacts DEF TrainReturns, rdzvVars, store, local, IInv, Running, BudgetIsKept
  <2>3. worldOf' \in [Worker -> [rank : Nat \cup {-1}, size : 0..config.max]]
    BY TrainerFacts DEF TrainReturns, rdzvVars, store, local, Nowhere
  <2>4. monitored' \in [Worker -> (SUBSET (0..config.max - 1)) \cup {NoMonitor}]
    BY TrainerFacts DEF TrainReturns, rdzvVars, store, local, Peers
  <2>5. dead' \in [Worker -> SUBSET (0..config.max - 1)]
    BY TrainerFacts DEF TrainReturns, rdzvVars, store, local, NoMonitor
  <2>6. \A v \in Worker : dead'[v] \subseteq monitored'[v]
    BY TrainerFacts DEF TrainReturns, rdzvVars, store, local, IInv, Running,
       MonitorsAreFresh, Peers
  <2>7. joins' \in [Worker -> Nat]
    BY TrainerFacts DEF TrainReturns, rdzvVars, store, local
  <2>. QED  BY <1>1, <2>0, <2>1, <2>2, <2>3, <2>4, <2>5, <2>6, <2>7 DEF TypeOK
<1>3. JoinedAreSettled'
  BY <1>1, TrainerFacts DEF TrainReturns, rdzvVars, store, local, IInv, JoinedAreSettled,
     RdzvTypeOK
<1>4. RunsJoin'
  BY <1>1, TrainerFacts DEF TrainReturns, rdzvVars, store, local, IInv, Running, RunsJoin,
     RdzvTypeOK
<1>5. BudgetIsKept'
  BY <1>1, TrainerFacts DEF TrainReturns, rdzvVars, store, local, Leave, IInv, Running,
     BudgetIsKept
<1>6. MonitorsAreFresh'
  BY <1>1, TrainerFacts DEF TrainReturns, rdzvVars, store, local, IInv, Running,
     MonitorsAreFresh, NoMonitor, Peers
<1>. QED  BY <1>1, <1>2, <1>3, <1>4, <1>5, <1>6 DEF IInv, Running, Rendezvousing

(* The monitor watches the other ranks. *)
LEMMA StartMonitorStep ==
    ASSUME NEW w \in Worker, IInv, StartMonitor(w)
    PROVE  IInv'
<1>. USE DEF StartMonitor
<1>1. RdzvTypeOK' /\ Rendezvousing'
  BY SameRendezvous
<1>2. TypeOK'
  <2>0. config' = config
    BY DEF StartMonitor, rdzvVars, store, local, Leave
  <2>1. phase' \in [Worker -> Ended \cup {"joining", "training", "recovering"}]
    BY TrainerFacts DEF StartMonitor, rdzvVars, store, local, Ended
  <2>2. restarts' \in [Worker -> 0..config.restarts + 1]
    BY TrainerFacts DEF StartMonitor, rdzvVars, store, local, IInv, Running, BudgetIsKept
  <2>3. worldOf' \in [Worker -> [rank : Nat \cup {-1}, size : 0..config.max]]
    BY TrainerFacts DEF StartMonitor, rdzvVars, store, local, Nowhere
  <2>4. monitored' \in [Worker -> (SUBSET (0..config.max - 1)) \cup {NoMonitor}]
    BY TrainerFacts DEF StartMonitor, rdzvVars, store, local, Peers
  <2>5. dead' \in [Worker -> SUBSET (0..config.max - 1)]
    BY TrainerFacts DEF StartMonitor, rdzvVars, store, local, NoMonitor
  <2>6. \A v \in Worker : dead'[v] \subseteq monitored'[v]
    BY TrainerFacts DEF StartMonitor, rdzvVars, store, local, IInv, Running,
       MonitorsAreFresh, Peers
  <2>7. joins' \in [Worker -> Nat]
    BY TrainerFacts DEF StartMonitor, rdzvVars, store, local
  <2>. QED  BY <1>1, <2>0, <2>1, <2>2, <2>3, <2>4, <2>5, <2>6, <2>7 DEF TypeOK
<1>3. JoinedAreSettled'
  BY <1>1, TrainerFacts DEF StartMonitor, rdzvVars, store, local, IInv, JoinedAreSettled,
     RdzvTypeOK
<1>4. RunsJoin'
  BY <1>1, TrainerFacts DEF StartMonitor, rdzvVars, store, local, IInv, Running, RunsJoin,
     RdzvTypeOK
<1>5. BudgetIsKept'
  BY <1>1, TrainerFacts DEF StartMonitor, rdzvVars, store, local, Leave, IInv, Running,
     BudgetIsKept
<1>6. MonitorsAreFresh'
  BY <1>1, TrainerFacts DEF StartMonitor, rdzvVars, store, local, IInv, Running,
     MonitorsAreFresh, NoMonitor, Peers
<1>. QED  BY <1>1, <1>2, <1>3, <1>4, <1>5, <1>6 DEF IInv, Running, Rendezvousing

(* The monitor changes its mind about a rank it watches. *)
LEMMA HeartbeatsStep ==
    ASSUME NEW w \in Worker, IInv, Heartbeats(w)
    PROVE  IInv'
<1>. USE DEF Heartbeats
<1>1. RdzvTypeOK' /\ Rendezvousing'
  BY SameRendezvous
<1>2. TypeOK'
  <2>0. config' = config
    BY DEF Heartbeats, rdzvVars, store, local, Leave
  <2>1. phase' \in [Worker -> Ended \cup {"joining", "training", "recovering"}]
    BY TrainerFacts DEF Heartbeats, rdzvVars, store, local, Ended
  <2>2. restarts' \in [Worker -> 0..config.restarts + 1]
    BY TrainerFacts DEF Heartbeats, rdzvVars, store, local, IInv, Running, BudgetIsKept
  <2>3. worldOf' \in [Worker -> [rank : Nat \cup {-1}, size : 0..config.max]]
    BY TrainerFacts DEF Heartbeats, rdzvVars, store, local, Nowhere
  <2>4. monitored' \in [Worker -> (SUBSET (0..config.max - 1)) \cup {NoMonitor}]
    BY TrainerFacts DEF Heartbeats, rdzvVars, store, local, Peers
  <2>5. dead' \in [Worker -> SUBSET (0..config.max - 1)]
    <3>1. PICK k \in monitored[w] :
               dead' = [dead EXCEPT ![w] = IF k \in @ THEN @ \ {k} ELSE @ \cup {k}]
      OBVIOUS
    <3>2. monitored[w] \subseteq 0..config.max - 1 /\ dead[w] \subseteq 0..config.max - 1
      <4>1. monitored[w] \in (SUBSET (0..config.max - 1)) \cup {NoMonitor}
        BY TrainerFacts
      <4>2. dead[w] \in SUBSET (0..config.max - 1)
        BY TrainerFacts
      <4>. QED  BY <4>1, <4>2
    <3>3. (IF k \in dead[w] THEN dead[w] \ {k} ELSE dead[w] \cup {k})
             \in SUBSET (0..config.max - 1)
      BY <3>2
    <3>. QED  BY <3>1, <3>3, TrainerFacts
  <2>6. \A v \in Worker : dead'[v] \subseteq monitored'[v]
    BY TrainerFacts DEF Heartbeats, rdzvVars, store, local, IInv, Running,
       MonitorsAreFresh, Peers
  <2>7. joins' \in [Worker -> Nat]
    BY TrainerFacts DEF Heartbeats, rdzvVars, store, local
  <2>. QED  BY <1>1, <2>0, <2>1, <2>2, <2>3, <2>4, <2>5, <2>6, <2>7 DEF TypeOK
<1>3. JoinedAreSettled'
  BY <1>1, TrainerFacts DEF Heartbeats, rdzvVars, store, local, IInv, JoinedAreSettled,
     RdzvTypeOK
<1>4. RunsJoin'
  BY <1>1, TrainerFacts DEF Heartbeats, rdzvVars, store, local, IInv, Running, RunsJoin,
     RdzvTypeOK
<1>5. BudgetIsKept'
  BY <1>1, TrainerFacts DEF Heartbeats, rdzvVars, store, local, Leave, IInv, Running,
     BudgetIsKept
<1>6. MonitorsAreFresh'
  BY <1>1, TrainerFacts DEF Heartbeats, rdzvVars, store, local, IInv, Running,
     MonitorsAreFresh, NoMonitor, Peers
<1>. QED  BY <1>1, <1>2, <1>3, <1>4, <1>5, <1>6 DEF IInv, Running, Rendezvousing

(* A crash leaves everything as it is. *)
LEMMA CrashStep ==
    ASSUME NEW w \in Worker, IInv, Crash(w)
    PROVE  IInv'
<1>. USE DEF Crash
<1>1. RdzvTypeOK' /\ Rendezvousing'
  BY SameRendezvous
<1>2. TypeOK'
  <2>0. config' = config
    BY DEF Crash, rdzvVars, store, local, Leave
  <2>1. phase' \in [Worker -> Ended \cup {"joining", "training", "recovering"}]
    BY TrainerFacts DEF Crash, rdzvVars, store, local, Ended
  <2>2. restarts' \in [Worker -> 0..config.restarts + 1]
    BY TrainerFacts DEF Crash, rdzvVars, store, local, IInv, Running, BudgetIsKept
  <2>3. worldOf' \in [Worker -> [rank : Nat \cup {-1}, size : 0..config.max]]
    BY TrainerFacts DEF Crash, rdzvVars, store, local, Nowhere
  <2>4. monitored' \in [Worker -> (SUBSET (0..config.max - 1)) \cup {NoMonitor}]
    BY TrainerFacts DEF Crash, rdzvVars, store, local, Peers
  <2>5. dead' \in [Worker -> SUBSET (0..config.max - 1)]
    BY TrainerFacts DEF Crash, rdzvVars, store, local, NoMonitor
  <2>6. \A v \in Worker : dead'[v] \subseteq monitored'[v]
    BY TrainerFacts DEF Crash, rdzvVars, store, local, IInv, Running, MonitorsAreFresh,
       Peers
  <2>7. joins' \in [Worker -> Nat]
    BY TrainerFacts DEF Crash, rdzvVars, store, local
  <2>. QED  BY <1>1, <2>0, <2>1, <2>2, <2>3, <2>4, <2>5, <2>6, <2>7 DEF TypeOK
<1>3. JoinedAreSettled'
  BY <1>1, TrainerFacts DEF Crash, rdzvVars, store, local, IInv, JoinedAreSettled,
     RdzvTypeOK
<1>4. RunsJoin'
  BY <1>1, TrainerFacts DEF Crash, rdzvVars, store, local, IInv, Running, RunsJoin,
     RdzvTypeOK
<1>5. BudgetIsKept'
  BY <1>1, TrainerFacts DEF Crash, rdzvVars, store, local, Leave, IInv, Running,
     BudgetIsKept
<1>6. MonitorsAreFresh'
  BY <1>1, TrainerFacts DEF Crash, rdzvVars, store, local, IInv, Running, MonitorsAreFresh,
     NoMonitor, Peers
<1>. QED  BY <1>1, <1>2, <1>3, <1>4, <1>5, <1>6 DEF IInv, Running, Rendezvousing
-----------------------------------------------------------------------------
(* Every step preserves the invariant. *)
LEMMA NextPreserves == IInv /\ [Next]_vars => IInv'
<1>. SUFFICES ASSUME IInv, [Next]_vars PROVE IInv'
  OBVIOUS
<1>1. CASE UNCHANGED vars
  <2>1. UNCHANGED rdzvVars /\ UNCHANGED trainer
    BY <1>1 DEF vars, trainer
  <2>2. RdzvTypeOK' /\ Rendezvousing'
    BY <2>1, SameRendezvous
  <2>3. TypeOK' /\ JoinedAreSettled' /\ Running'
    BY <2>1, <2>2 DEF IInv, TypeOK, JoinedAreSettled, Running, RunsJoin, BudgetIsKept,
                      MonitorsAreFresh, trainer, rdzvVars, local, store
  <2>. QED  BY <2>2, <2>3 DEF IInv, Rendezvousing
<1>2. ASSUME NEW w \in Worker, Join(w) PROVE IInv'
  <2>1. JoinStep(w) /\ UNCHANGED trainer
    BY <1>2 DEF Join, trainer
  <2>. QED  BY <2>1, ReadCurrentRoundStep, ClaimSlotStep, CheckClosedStep, BarrierStep,
               FreezeStep, GetWorldSizeStep, NoWorldSizeStep, WinGuardStep, CompareStep,
               PublishStep, ReportStep DEF JoinStep
<1>3. ASSUME NEW w \in Worker, Call(w) PROVE IInv'
  BY <1>3, RunStep, JoinReturnedStep, JoinThrewStep, RecoverReturnedStep, RecoverThrewStep
  DEF Call
<1>4. ASSUME NEW w \in Worker, Train(w) PROVE IInv'
  BY <1>4, TrainReturnsStep, TrainThrowsStep DEF Train
<1>. QED  BY <1>1, <1>2, <1>3, <1>4, StartMonitorStep, HeartbeatsStep, RecoverStep,
             CrashStep
          DEF Next

(* The invariant holds initially, ... *)
LEMMA InitEstablishes == Init => IInv
<1>. SUFFICES ASSUME Init PROVE IInv
  OBVIOUS
<1>. USE DEF Init, RdzvInit
<1>1. RdzvTypeOK
  <2>1. config \in Configs /\ config.max \in Nat
    BY ConfigsAssumption
  <2>. QED  BY <2>1, MaxRoundAssumption DEF RdzvTypeOK, Round, Joining
<1>2. config.restarts \in Nat /\ config.max \in Nat
  BY <1>1, ConfigFacts
<1>3. TypeOK
  <2>1. phase \in [Worker -> Ended \cup {"joining", "training", "recovering"}]
    BY DEF Ended
  <2>2. restarts \in [Worker -> 0..config.restarts + 1] /\ joins \in [Worker -> Nat]
    BY <1>2
  <2>3. worldOf \in [Worker -> [rank : Nat \cup {-1}, size : 0..config.max]]
    BY <1>2 DEF Nowhere
  <2>4. monitored \in [Worker -> (SUBSET (0..config.max - 1)) \cup {NoMonitor}]
    OBVIOUS
  <2>5. dead \in [Worker -> SUBSET (0..config.max - 1)]
        /\ \A w \in Worker : dead[w] \subseteq monitored[w]
    OBVIOUS
  <2>. QED  BY <1>1, <2>1, <2>2, <2>3, <2>4, <2>5 DEF TypeOK
<1>4. Ownership
  BY MaxRoundAssumption DEF Ownership, SlotsAreCounted, SlotsAreUnique, MembersAreOwned,
     Owns,
                            Holding, Round
<1>5. RoundsHaveBegun /\ WorldsAreFrozen /\ OneOpensTheNext
  BY DEF RoundsHaveBegun, WorldsAreFrozen, OneOpensTheNext, InRound, Holding, Closing,
     Opening
<1>6. JoinedAreSettled /\ Running
  BY <1>2 DEF JoinedAreSettled, Running, RunsJoin, BudgetIsKept, MonitorsAreFresh
<1>. QED  BY <1>3, <1>4, <1>5, <1>6 DEF IInv

(* ... and therefore always. *)
LEMMA Inductive == Spec => []IInv
BY InitEstablishes, NextPreserves, PTL DEF Spec
-----------------------------------------------------------------------------
(* The store's keys, what join() and run() keep and the monitors' findings *)
(* have their types in every reachable state: world_size never exceeds     *)
(* max_workers, and restart_count_ exceeds max_restarts by one at most     *)
(* (rendezvous.cpp:203-213, elastic_trainer.cpp:130-136).                  *)
THEOREM TypeCorrect == Spec => []TypeOK
<1>1. IInv => TypeOK
  BY DEF IInv
<1>. QED  BY <1>1, Inductive, PTL

(* Those who joined a round agree on its size and have different ranks     *)
(* below it, for any number of workers and whoever crashes                 *)
(* (rendezvous.cpp:203-240).                                               *)
THEOREM Membership == Spec => []MembershipIsConsistent
<1>1. IInv => MembershipIsConsistent
  <2>. SUFFICES ASSUME IInv, NEW v \in Worker, NEW w \in Worker,
                       joined[v] >= 0, joined[v] = joined[w]
                PROVE  /\ v # w => rank[v] # rank[w]
                       /\ size[v] = size[w]
                       /\ rank[v] < size[v]
                       /\ size[v] \in config.min..config.max
    BY DEF MembershipIsConsistent
  <2>1. RdzvTypeOK
    BY DEF IInv, TypeOK
  <2>2. joined[v] # -1 /\ joined[v] \in Round
    BY <2>1 DEF RdzvTypeOK
  <2>3. /\ rank[v] \in Nat /\ rank[v] < size[v] /\ rank[w] \in Nat
        /\ size[v] = world[joined[v]] /\ size[w] = size[v] /\ size[v] # 0
    BY <2>1, <2>2 DEF IInv, JoinedAreSettled, RdzvTypeOK
  <2>4. v # w => rank[v] # rank[w]
    BY <2>2, <2>3 DEF IInv, Ownership, SlotsAreUnique, Owns
  <2>5. size[v] >= config.min /\ size[v] \in 0..config.max
    BY <2>1, <2>2, <2>3 DEF IInv, WorldsAreFrozen, RdzvTypeOK
  <2>. QED  BY <2>1, <2>3, <2>4, <2>5, ConfigFacts
<1>. QED  BY <1>1, Inductive, PTL

(* A member key belongs to somebody who is joining, joined or left under   *)
(* it: no failed attempt leaves one behind (rendezvous.cpp:214-220,        *)
(* 242-248).                                                               *)
THEOREM NoOrphans == Spec => []NoOrphanMembers
<1>1. IInv => NoOrphanMembers
  <2>. DEFINE Kept(w, r, s) == \/ joined[w] = r /\ rank[w] = s
                               \/ at[w] \in Joining /\ round[w] = r /\ slot[w] = s
  <2>1. \A w, r, s : Owns(w, r, s) => Kept(w, r, s)
    BY DEF Owns, Holding, Joining
  <2>. HIDE DEF Kept
  <2>2. IInv => \A r \in Round : \A s \in member[r] :
                   <<r, s>> \in left \/ \E w \in Worker : Kept(w, r, s)
    BY <2>1 DEF IInv, Ownership, MembersAreOwned
  <2>. QED  BY <2>2 DEF NoOrphanMembers, Kept
<1>. QED  BY <1>1, Inductive, PTL

(* However train_fn's failures and check_and_recover() share the budget, a *)
(* worker enters at most max_restarts + 1 worlds (elastic_trainer.cpp:     *)
(* 130-136).                                                               *)
THEOREM Budget == Spec => []JoinsWithinBudget
<1>1. IInv => JoinsWithinBudget
  BY DEF IInv, Running, BudgetIsKept, JoinsWithinBudget
<1>. QED  BY <1>1, Inductive, PTL

(* current_round, compared and then set by two commands of whoever won the *)
(* guard, never goes back (rendezvous.cpp:84-94).                          *)
THEOREM RoundIsMonotonic == Spec => RoundNeverGoesBack
<1>1. IInv /\ [Next]_vars => [current' >= current]_current
  <2>. SUFFICES ASSUME IInv, [Next]_vars, current' # current PROVE current' >= current
    OBVIOUS
  <2>1. PICK w \in Worker : Publish(w)
    BY DEF Next, Call, Join, Train, JoinStep, Run, JoinReturned, JoinThrew, RecoverReturned,
           RecoverThrew, Accept, TrainReturns, TrainThrows, StartMonitor, Heartbeats,
           Recover,
           Crash, Leave, ReadCurrentRound, ClaimSlot, CheckClosed, Barrier, Freeze,
           GetWorldSize, NoWorldSize, WinGuard, Compare, Report, vars, rdzvVars, store
  <2>2. current = round[w] /\ current \in Int
    BY <2>1 DEF Publish, Go, IInv, OneOpensTheNext, TypeOK, RdzvTypeOK, Round
  <2>. QED  BY <2>1, <2>2 DEF Publish
<1>. QED  BY <1>1, Inductive, PTL DEF Spec, RoundNeverGoesBack
=============================================================================
