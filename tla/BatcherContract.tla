-------------------------- MODULE BatcherContract --------------------------
(***************************************************************************)
(* What a handler that calls submit() and then blocks in future.get(), and *)
(* an unload that calls stop(), rely on: a request handed in while the     *)
(* gate is open gets one answer, one handed in later is turned away at     *)
(* once, and stop() returns only when nobody is left waiting.              *)
(***************************************************************************)
CONSTANT Request

VARIABLES gate,    \* "shut", "open", or "closing" while stop() runs
          answer   \* "new", "pending", "rejected", "value" or "error"

vars == <<gate, answer>>

Init == gate = "shut" /\ answer = [r \in Request |-> "new"]

Open == gate = "shut" /\ gate' = "open" /\ UNCHANGED answer

Close == gate' = "closing" /\ UNCHANGED answer

Shut ==
    /\ gate = "closing"
    /\ \A r \in Request : answer[r] # "pending"
    /\ gate' = "shut"
    /\ UNCHANGED answer

Submit(r) ==
    /\ answer[r] = "new"
    /\ answer' = [answer EXCEPT ![r] = IF gate = "open" THEN "pending" ELSE "rejected"]
    /\ UNCHANGED gate

(* Some requests that wait get their answers. *)
Answer(S) ==
    /\ \A r \in S : answer[r] = "pending"
    /\ \E a \in [S -> {"value", "error"}] :
          answer' = [r \in Request |-> IF r \in S THEN a[r] ELSE answer[r]]
    /\ UNCHANGED gate

Next == \/ Open \/ Close \/ Shut
        \/ \E r \in Request : Submit(r)
        \/ \E S \in SUBSET Request : Answer(S)

Spec == Init /\ [][Next]_vars
=============================================================================
