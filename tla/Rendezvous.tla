----------------------------- MODULE Rendezvous -----------------------------
(***************************************************************************)
(* elastic::C10dRendezvous over the RendezvousStore: the workers of a run  *)
(* call join() and leave(); the keys of the store are all they share.      *)
(*                                                                         *)
(* The store's server handles one command at a time, so every command is   *)
(* one step; a worker's commands arrive in the order it sends them.  SET   *)
(* and DEL have no reply, and nobody reads a member or a leave key, so     *)
(* each of those is part of the step next to it.  A poll that decides      *)
(* nothing is no step: Barrier, GetWorldSize and NoWorldSize are the polls *)
(* that end their loops, by what they read or by the deadline.             *)
(***************************************************************************)
EXTENDS Integers, FiniteSets

CONSTANTS Worker,   \* processes
          Configs,  \* the configurations explored: the processes launched,
                    \* min_workers, max_workers and max_restarts
          MaxRound  \* bound: the rounds there are keys for

ASSUME ConfigsAssumption ==
    /\ Configs \subseteq [team : SUBSET Worker, min : Nat \ {0}, max : Nat, restarts : Nat]
    /\ \A c \in Configs : c.min <= c.max
ASSUME MaxRoundAssumption == MaxRound \in Nat

Round == 0..MaxRound

VARIABLES
    config,    \* RendezvousConfig and ElasticConfig, the same for every worker
    current,   \* current_round; a missing key reads as 0
    counter,   \* slot_counter of every round
    world,     \* world_size of every round; 0: the key is missing
    guard,     \* advance_guard of every round
    member,    \* the slots that have a member key, of every round
    left,      \* the leave keys: <<round, rank>>
    at,        \* where every worker's join() is; "idle" outside of it
    round,     \* round_
    slot,      \* slot, a local of join()
    count,     \* count, a local of join()
    rank,      \* rank_; -1: none
    size,      \* world_size_
    joined     \* joined_round_; -1: none

store == <<current, counter, world, guard, member, left>>
local == <<round, slot, count, rank, size, joined>>
rdzvVars == <<config, store, at, local>>

Joining == {"start", "claim", "check", "barrier", "freeze", "read",
            "guard", "compare", "publish", "report"}

RdzvTypeOK ==
    /\ config \in Configs
    /\ current \in Round
    /\ counter \in [Round -> Nat]
    /\ world \in [Round -> 0..config.max]
    /\ guard \in [Round -> Nat]
    /\ member \in [Round -> SUBSET Nat]
    /\ left \subseteq Round \X Nat
    /\ at \in [Worker -> Joining \cup {"idle", "returned", "threw"}]
    /\ round \in [Worker -> 0..MaxRound + 1]
    /\ slot \in [Worker -> Nat]
    /\ count \in [Worker -> Nat]
    /\ rank \in [Worker -> Nat \cup {-1}]
    /\ size \in [Worker -> 0..config.max]
    /\ joined \in [Worker -> Round \cup {-1}]

RdzvInit ==
    /\ config \in Configs
    /\ current = 0
    /\ counter = [r \in Round |-> 0]
    /\ world = [r \in Round |-> 0]
    /\ guard = [r \in Round |-> 0]
    /\ member = [r \in Round |-> {}]
    /\ left = {}
    /\ at = [w \in Worker |-> "idle"]
    /\ round = [w \in Worker |-> 0]
    /\ slot = [w \in Worker |-> 0]
    /\ count = [w \in Worker |-> 0]
    /\ rank = [w \in Worker |-> -1]
    /\ size = [w \in Worker |-> 0]
    /\ joined = [w \in Worker |-> -1]

Go(w, from, to) == at[w] = from /\ at' = [at EXCEPT ![w] = to]
-----------------------------------------------------------------------------
(* join() looks the active round up in the store. *)
ReadCurrentRound(w) ==
    /\ Go(w, "start", "claim")
    /\ round' = [round EXCEPT ![w] = current]
    /\ UNCHANGED <<config, store, slot, count, rank, size, joined>>

(* add(slot_counter, 1) - 1, and the member key of that slot. *)
ClaimSlot(w) ==
    /\ Go(w, "claim", "check")
    /\ slot' = [slot EXCEPT ![w] = counter[round[w]]]
    /\ counter' = [counter EXCEPT ![round[w]] = @ + 1]
    /\ member' = [member EXCEPT ![round[w]] = @ \cup {counter[round[w]]}]
    /\ UNCHANGED <<config, current, world, guard, left, round, count, rank, size, joined>>

EndLocals(w) == slot' = [slot EXCEPT ![w] = 0] /\ count' = [count EXCEPT ![w] = 0]

(* Every way join() fails deletes the member key on its way to             *)
(* advance_current_round().                                                *)
DropMember(w) == member' = [member EXCEPT ![round[w]] = @ \ {slot[w]}]

(* check_key(world_size): has the round closed already? *)
CheckClosed(w) ==
    /\ \/ /\ world[round[w]] # 0
          /\ Go(w, "check", "guard")
          /\ DropMember(w)
       \/ /\ world[round[w]] = 0
          /\ Go(w, "check", "barrier")
          /\ UNCHANGED member
    /\ UNCHANGED <<config, current, counter, world, guard, left, local>>

(* The poll that ends the barrier: max_workers, or min_workers and the     *)
(* grace window, or the deadline.                                          *)
Barrier(w) ==
    /\ \/ /\ counter[round[w]] >= config.min
          /\ Go(w, "barrier", IF slot[w] = 0 THEN "freeze" ELSE "read")
          /\ count' = [count EXCEPT ![w] = counter[round[w]]]
          /\ UNCHANGED member
       \/ /\ counter[round[w]] < config.min
          /\ Go(w, "barrier", "guard")
          /\ DropMember(w)
          /\ UNCHANGED count
    /\ UNCHANGED <<config, current, counter, world, guard, left, round, slot, rank, size, joined>>

(* The worker of slot 0 publishes world_size. *)
Freeze(w) ==
    /\ Go(w, "freeze", "read")
    /\ world' = [world EXCEPT ![round[w]] =
                     IF count[w] < config.max THEN count[w] ELSE config.max]
    /\ UNCHANGED <<config, current, counter, guard, member, left, local>>

(* Mutant: the first slot past the world is let in. *)
MutGetWorldSize(w) ==
    /\ world[round[w]] # 0
    /\ slot[w] <= world[round[w]]
    /\ Go(w, "read", "returned")
    /\ rank' = [rank EXCEPT ![w] = slot[w]]
    /\ size' = [size EXCEPT ![w] = world[round[w]]]
    /\ joined' = [joined EXCEPT ![w] = round[w]]
    /\ EndLocals(w)
    /\ UNCHANGED <<config, store, round>>

(* A poll of world_size returns a number: the worker is in, or it missed   *)
(* the round.                                                              *)
GetWorldSize(w) ==
    LET ws == world[round[w]]
    IN  /\ ws # 0
        /\ \/ /\ slot[w] < ws
              /\ Go(w, "read", "returned")
              /\ rank' = [rank EXCEPT ![w] = slot[w]]
              /\ size' = [size EXCEPT ![w] = ws]
              /\ joined' = [joined EXCEPT ![w] = round[w]]
              /\ EndLocals(w)
              /\ UNCHANGED <<config, store, round>>
           \/ /\ slot[w] >= ws
              /\ Go(w, "read", "guard")
              /\ DropMember(w)
              /\ UNCHANGED <<config, current, counter, world, guard, left, local>>

(* Mutant: polling without a deadline. *)
MutNoWorldSize(w) == FALSE /\ UNCHANGED <<rdzvVars>>

(* Mutant: the member key stays behind. *)
MutKeepMember(w) ==
    /\ world[round[w]] = 0
    /\ Go(w, "read", "guard")
    /\ UNCHANGED <<config, store, local>>

(* world_size is still missing at the deadline. *)
NoWorldSize(w) ==
    /\ world[round[w]] = 0
    /\ Go(w, "read", "guard")
    /\ DropMember(w)
    /\ UNCHANGED <<config, current, counter, world, guard, left, local>>
-----------------------------------------------------------------------------
(* advance_current_round(round_): four commands. *)

(* Mutant: everybody publishes. *)
MutWinGuard(w) ==
    /\ guard' = [guard EXCEPT ![round[w]] = @ + 1]
    /\ Go(w, "guard", "compare")
    /\ UNCHANGED <<config, current, counter, world, member, left, local>>

(* add(advance_guard, 1): the first goes on to publish the next round. *)
WinGuard(w) ==
    /\ guard' = [guard EXCEPT ![round[w]] = @ + 1]
    /\ Go(w, "guard", IF guard[round[w]] = 0 THEN "compare" ELSE "report")
    /\ UNCHANGED <<config, current, counter, world, member, left, local>>

Compare(w) ==
    /\ Go(w, "compare", IF current < round[w] + 1 THEN "publish" ELSE "report")
    /\ UNCHANGED <<config, store, local>>

Publish(w) ==
    /\ round[w] + 1 \in Round
    /\ Go(w, "publish", "report")
    /\ current' = round[w] + 1
    /\ UNCHANGED <<config, counter, world, guard, member, left, local>>

(* The round to attempt next, for the message; then join() throws. *)
Report(w) ==
    /\ Go(w, "report", "threw")
    /\ round' = [round EXCEPT ![w] = IF current > @ + 1 THEN current ELSE @ + 1]
    /\ EndLocals(w)
    /\ UNCHANGED <<config, store, rank, size, joined>>

(* leave(): the store's and the object's part; at is the caller's. *)
Leave(w) ==
    /\ left' = IF rank[w] >= 0 /\ joined[w] >= 0
               THEN left \cup {<<joined[w], rank[w]>>} ELSE left
    /\ rank' = [rank EXCEPT ![w] = -1]
    /\ size' = [size EXCEPT ![w] = 0]
    /\ joined' = [joined EXCEPT ![w] = -1]
    /\ UNCHANGED <<config, current, counter, world, guard, member, round, slot, count>>

JoinStep(w) ==
    \/ ReadCurrentRound(w)
    \/ ClaimSlot(w)
    \/ CheckClosed(w)
    \/ Barrier(w)
    \/ Freeze(w)
    \/ GetWorldSize(w)
    \/ NoWorldSize(w)
    \/ WinGuard(w)
    \/ Compare(w)
    \/ Publish(w)
    \/ Report(w)
-----------------------------------------------------------------------------
(* The workers that joined a round number it: their ranks differ and lie   *)
(* below a world_size they agree on, and that world_size respects the      *)
(* configured limits, although the counter runs past max_workers           *)
(* (rendezvous.cpp:203-213).                                               *)
MembershipIsConsistent ==
    \A v, w \in Worker : (joined[v] >= 0 /\ joined[v] = joined[w]) =>
        /\ v # w => rank[v] # rank[w]
        /\ size[v] = size[w]
        /\ rank[v] < size[v]
        /\ size[v] \in config.min..config.max

(* A member key names a worker that is inside that join(), or became that  *)
(* rank and has not left, or left under that very rank: failed attempts    *)
(* leave no orphans in the store (rendezvous.cpp:214-220, 242-248).        *)
NoOrphanMembers ==
    \A r \in Round : \A s \in member[r] :
        \/ <<r, s>> \in left
        \/ \E w \in Worker : \/ joined[w] = r /\ rank[w] = s
                             \/ at[w] \in Joining /\ round[w] = r /\ slot[w] = s

(* current_round is compared and then set by two commands, yet it never    *)
(* goes back (rendezvous.cpp:84-94).                                       *)
RoundNeverGoesBack == [][current' >= current]_current
=============================================================================
