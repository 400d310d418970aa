---------------------------- MODULE MCRpcAgent ----------------------------
EXTENDS RpcAgent

CONSTANTS k1, k2, peer1, peer2

Quiet == [callers |-> {}, callees |-> {peer1}, requesters |-> {}, requests |-> 0,
          supersede |-> FALSE, conns |-> 2, events |-> {}]

(* Two calls on one connection, until shutdown(). *)
OneConnection == [Quiet EXCEPT !.callers = {k1, k2}, !.conns = 1,
                               !.events = {"answer", "shutdown"}]

(* Two calls dial at once, and one of them loses. *)
TwoDial == [Quiet EXCEPT !.callers = {k1, k2}, !.conns = 3, !.events = {"answer", "drop"}]

(* A call to a peer or to the worker itself, while another peer connects   *)
(* and sends a request; the same until shutdown().                         *)
Serving == [Quiet EXCEPT !.callers = {k1}, !.callees = {Self, peer1}, !.requesters = {peer2},
                         !.requests = 1, !.events = {"answer", "drop"}]
ServingLast == [Serving EXCEPT !.callees = {peer1}, !.events = {"shutdown"}]

(* A call, while another peer connects over and over, so that the number   *)
(* of its first connection comes back; the same until shutdown().          *)
Reconnects == [Quiet EXCEPT !.callers = {k1}, !.requesters = {peer2}, !.supersede = TRUE,
                            !.conns = 3, !.events = {"answer"}]
ReconnectsLast == [Reconnects EXCEPT !.events = {"shutdown"}]

Calm == {OneConnection, TwoDial, Serving, ServingLast, Reconnects, ReconnectsLast}

(* A peer that sends a request and connects again. *)
Impatient == {[Reconnects EXCEPT !.callers = {}, !.requests = 1]}
=============================================================================
