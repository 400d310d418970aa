------------------------------ MODULE RpcAgent ------------------------------
(***************************************************************************)
(* rpc::TcpRpcAgent, one agent and all its threads: those that send_async()*)
(* detaches, the accept thread, one receive thread per connection, and the *)
(* one in shutdown().  The peers are the environment: they open and drop   *)
(* connections, send requests and answer, late or never.                   *)
(*                                                                         *)
(* A critical section that cannot block is one step; it needs              *)
(* connections_mutex_ free.  The sections that wait for a second lock, or  *)
(* for another thread, while they hold one are the states of connLock,     *)
(* writer and threadsLock.                                                 *)
(*                                                                         *)
(* A connection and the number of its descriptor are two things.  The      *)
(* maps, the write mutexes and the threads know numbers; socket() and      *)
(* accept() return the lowest free one, so that a number closed by one     *)
(* thread may be another connection when the next thread uses it.          *)
(***************************************************************************)
EXTENDS Integers, FiniteSets

CONSTANTS Caller,     \* calls of send_async(), each on a thread of its own
          Peer,       \* the other workers
          Self,       \* this worker's id
          Dialable,   \* the peers whose listener this agent can reach
          None,
          MaxConns,   \* bound: connections
          Scenarios   \* what happens around the agent, see below

(* A scenario says which calls are made and to whom, which peers connect   *)
(* and how many requests they send, whether a peer may connect again       *)
(* before its old connection is gone, how many connections there are,      *)
(* whether the peers answer and drop connections, and whether shutdown()   *)
(* is called.                                                              *)
Scenario == [callers : SUBSET Caller, callees : SUBSET (Peer \cup {Self}),
             requesters : SUBSET Peer, requests : Nat, supersede : BOOLEAN, conns : 0..MaxConns,
             events : SUBSET {"answer", "drop", "shutdown"}]

ASSUME PeerAssumption == Self \notin Peer /\ Dialable \subseteq Peer
ASSUME BoundsAssumption == MaxConns \in Nat
ASSUME ScenariosAssumption == Scenarios \subseteq Scenario

Conn == 1..MaxConns          \* in the order they come up
Fd == 1..MaxConns            \* descriptor numbers
Thread == Caller \cup Conn   \* a receive thread is named by its connection

ASSUME ThreadsAssumption == Caller \cap Conn = {}
ASSUME NoneAssumption == None \notin Conn /\ None # "answer"

VARIABLES
    agent,     \* the members: running_ (and the listener), connections_ and inbound_connections_
               \* (numbers by worker id), fd_write_mutexes_ (mutexes: by number, a mutex is named
               \* by the connection it was made for), pending_, next_request_id_, inflight_async_
    lock,      \* connections_mutex_ and threads_mutex_: held while waiting for something
               \* else? writer: the thread that holds a write mutex, or None
    conn,      \* every connection: its state, its peer, the frames that arrived and the number
               \* it was given
    desc,      \* the descriptors of the process: the connection every number stands for now,
               \* and, a history, the numbers last given out while somebody had them in hand
    call,      \* every call: whom for, its request id, whether the peer answered, what its
               \* promise was given and what its callback was given
    thread,    \* every thread: where it is, the frame it sends, on which number and under
               \* which mutex, and the connection it reads or has dialled
    acceptor,  \* where the accept thread is, and the connection of cfd
    closer,    \* where shutdown() is, and to_close
    env        \* the scenario; its requests are those still to come

vars == <<agent, lock, conn, desc, call, thread, acceptor, closer, env>>

Request == [kind |-> "request"]
Response(i, k) == [kind |-> "response", id |-> i, body |-> k]

TypeOK ==
    /\ agent \in [running : BOOLEAN,
                  connections : [Peer -> Fd \cup {None}], inbound : [Peer -> Fd \cup {None}],
                  mutexes : [Fd -> Conn \cup {None}], pending : SUBSET (0..Cardinality(Caller) - 1),
                  nextId : 0..Cardinality(Caller), inflight : 0..Cardinality(Caller)]
    /\ lock \in [connections : BOOLEAN, threads : BOOLEAN, writer : [Conn -> Thread \cup {None}]]
    /\ \A c \in Conn : /\ conn[c].state \in {"unused", "open", "dropped", "shut"}
                       /\ conn[c].fd \in Fd \cup {None}
    /\ desc \in [holder : [Fd -> Conn \cup {None}], aliased : SUBSET Fd]
    /\ acceptor.conn \in Conn \cup {None}
    /\ \A x \in closer.fds : x.fd \in Fd /\ x.mtx \in Conn \cup {None}
    /\ env \in Scenario

Resting == [at |-> "idle", job |-> None, fd |-> None, mtx |-> None, sock |-> None]

Init ==
    /\ agent = [running |-> TRUE, connections |-> [p \in Peer |-> None],
                inbound |-> [p \in Peer |-> None], mutexes |-> [n \in Fd |-> None],
                pending |-> {}, nextId |-> 0, inflight |-> 0]
    /\ lock = [connections |-> FALSE, threads |-> FALSE, writer |-> [c \in Conn |-> None]]
    /\ conn = [c \in Conn |-> [state |-> "unused", peer |-> None, inbox |-> {}, fd |-> None]]
    /\ desc = [holder |-> [n \in Fd |-> None], aliased |-> {}]
    /\ call = [k \in Caller |-> [peer |-> None, id |-> -1, answered |-> FALSE,
                               promise |-> None, result |-> None]]
    /\ thread = [t \in Thread |-> Resting]
    /\ acceptor = [at |-> "accept", conn |-> None]
    /\ closer = [at |-> "off", fds |-> {}]
    /\ env \in Scenarios

At(t, where) == thread[t].at = where
To(t, where) == thread' = [thread EXCEPT ![t].at = where]
Rest(t, where) == thread' = [thread EXCEPT ![t] = [Resting EXCEPT !.at = where]]
Write(t, what, n) == thread' = [thread EXCEPT ![t].at = "write", ![t].job = what, ![t].fd = n]

(* A thread, to_close or a map has the number and may use it. *)
InHand(n) ==
    \/ \E t \in Thread : thread[t].fd = n
    \/ \E c \in Conn : conn[c].fd = n /\ (thread[c].at \notin {"idle", "exited"} \/ acceptor.conn = c)
    \/ \E x \in closer.fds : x.fd = n
    \/ \E p \in Peer : agent.connections[p] = n \/ agent.inbound[p] = n

(* socket() and connect(), or accept(). *)
NewConn(c, p) ==
    /\ c <= env.conns
    /\ conn[c].state = "unused"
    /\ \A b \in 1..c - 1 : conn[b].state # "unused"
    /\ \E n \in Fd :
          /\ desc.holder[n] = None
          /\ \A m \in 1..n - 1 : desc.holder[m] # None
          /\ desc' = [holder |-> [desc.holder EXCEPT ![n] = c],
                      aliased |-> IF InHand(n) THEN desc.aliased \cup {n} ELSE desc.aliased \ {n}]
          /\ conn' = [conn EXCEPT ![c] = [state |-> "open", peer |-> p, inbox |-> {}, fd |-> n]]

(* ::close(n), after ::shutdown(n) or not: whatever connection the number  *)
(* stands for.  Without ::shutdown() a thread blocked in a read stays      *)
(* there; what nobody reads any more is lost.                              *)
Reading(c) == {r \in Conn : At(r, "reading") /\ thread[r].sock = c}
Close(n, shutdown) ==
    /\ desc' = [desc EXCEPT !.holder[n] = None]
    /\ conn' = [c \in Conn |->
                  IF c # desc.holder[n] THEN conn[c]
                  ELSE IF Reading(c) = {} THEN [conn[c] EXCEPT !.state = "shut", !.inbox = {}]
                  ELSE [conn[c] EXCEPT !.state = IF shutdown THEN "shut" ELSE @]]
-----------------------------------------------------------------------------
(* send_async(), up to the start of its thread. *)
Call(k) ==
    /\ k \in env.callers
    /\ At(k, "idle")
    /\ To(k, "send")
    /\ \E p \in env.callees : call' = [call EXCEPT ![k].peer = p]
    /\ agent' = [agent EXCEPT !.inflight = @ + 1]
    /\ UNCHANGED <<lock, conn, desc, acceptor, closer, env>>

(* The callback gets what send() returned or threw; then ~InflightGuard()  *)
(* counts the thread out ...                                               *)
Finish(k, what, pending) ==
    /\ Rest(k, "notify")
    /\ call' = [call EXCEPT ![k].result = what]
    /\ agent' = [agent EXCEPT !.pending = pending, !.inflight = @ - 1]
    /\ UNCHANGED <<lock, conn, desc, acceptor, closer, env>>

(* ... and notifies shutdown() with the mutex released. *)
Notify(k) ==
    /\ At(k, "notify")
    /\ To(k, "done")
    /\ closer' = [closer EXCEPT !.at = IF @ = "asleep" THEN "drain" ELSE @]
    /\ UNCHANGED <<agent, lock, conn, desc, call, acceptor, env>>

(* send(): running_, then the request id. *)
Send(k) ==
    /\ At(k, "send")
    /\ \/ /\ ~agent.running
          /\ Finish(k, "error", agent.pending)
       \/ /\ agent.running
          /\ To(k, "register")
          /\ call' = [call EXCEPT ![k].id = agent.nextId]
          /\ agent' = [agent EXCEPT !.nextId = @ + 1]
          /\ UNCHANGED <<lock, conn, desc, acceptor, closer, env>>

Register(k) ==
    /\ At(k, "register")
    /\ To(k, IF call[k].peer = Self THEN "dispatch" ELSE "find")
    /\ agent' = [agent EXCEPT !.pending = @ \cup {call[k].id}]
    /\ UNCHANGED <<lock, conn, desc, call, acceptor, closer, env>>

(* dispatch_message() of an answer: the promise of a pending request is    *)
(* given it, any other answer is dropped.                                  *)
Deliver(m) ==
    /\ call' = [k \in Caller |-> IF m.id \in agent.pending /\ call[k].id = m.id
                                 THEN [call[k] EXCEPT !.promise = m.body] ELSE call[k]]
    /\ agent' = [agent EXCEPT !.pending = @ \ {m.id}]

(* A call to this worker itself is dispatched in place. *)
SelfDispatch(k) ==
    /\ At(k, "dispatch")
    /\ To(k, "wait")
    /\ Deliver(Response(call[k].id, k))
    /\ UNCHANGED <<lock, conn, desc, acceptor, closer, env>>

Return(k) ==
    /\ At(k, "wait")
    /\ call[k].promise # None
    /\ Finish(k, call[k].promise, agent.pending)

SendFailed(k) == At(k, "fail") /\ Finish(k, "error", agent.pending \ {call[k].id})

Timeout(k) ==
    /\ At(k, "wait")
    /\ call[k].promise = None
    /\ Finish(k, "error", agent.pending \ {call[k].id})
-----------------------------------------------------------------------------
(* get_or_connect(), for a call and for a reply. *)
PeerOf(t) == IF t \in Caller THEN call[t].peer ELSE conn[thread[t].sock].peer
Frame(t) == IF t \in Caller THEN "request" ELSE "reply"
Failed(t) == IF t \in Caller THEN "fail" ELSE "top"

Find(t) ==
    /\ At(t, "find")
    /\ ~lock.connections
    /\ LET n == agent.connections[PeerOf(t)]
       IN  IF n = None THEN To(t, "dial") ELSE Write(t, Frame(t), n)
    /\ UNCHANGED <<agent, lock, conn, desc, call, acceptor, closer, env>>

Dial(t) ==
    /\ At(t, "dial")
    /\ PeerOf(t) \in Dialable
    /\ \E c \in Conn :
          /\ NewConn(c, PeerOf(t))
          /\ thread' = [thread EXCEPT ![t].at = "publish", ![t].sock = c, ![t].fd = conn'[c].fd]
    /\ UNCHANGED <<agent, lock, call, acceptor, closer, env>>

DialFails(t) ==
    /\ At(t, "dial")
    /\ Rest(t, Failed(t))
    /\ UNCHANGED <<agent, lock, conn, desc, call, acceptor, closer, env>>

(* Another thread's connection may have come first. *)
Publish(t) ==
    LET mine == thread[t].fd
        theirs == agent.connections[PeerOf(t)]
    IN  /\ At(t, "publish")
        /\ ~lock.connections
        /\ \/ /\ theirs # None
              /\ Close(mine, FALSE)
              /\ Write(t, Frame(t), theirs)
              /\ UNCHANGED agent
           \/ /\ theirs = None
              /\ agent' = [agent EXCEPT !.connections[PeerOf(t)] = mine,
                                        !.mutexes[mine] = thread[t].sock]
              /\ Write(t, "hello", mine)
              /\ UNCHANGED <<conn, desc>>
        /\ UNCHANGED <<lock, call, acceptor, closer, env>>

(* The hello was not sent: erase and close, whosever the number and the    *)
(* entries are by now.                                                     *)
HelloFailed(t) ==
    /\ At(t, "unhello")
    /\ ~lock.connections
    /\ Rest(t, Failed(t))
    /\ agent' = [agent EXCEPT !.connections[PeerOf(t)] = None, !.mutexes[thread[t].fd] = None]
    /\ Close(thread[t].fd, FALSE)
    /\ UNCHANGED <<lock, call, acceptor, closer, env>>

(* Start the receive thread of the connection, then send the frame. *)
Spawn(t) ==
    /\ At(t, "spawn")
    /\ ~lock.threads
    /\ thread' = [thread EXCEPT ![t].at = "write", ![t].job = Frame(t),
                                ![thread[t].sock].at = "top"]
    /\ UNCHANGED <<agent, lock, conn, desc, call, acceptor, closer, env>>
-----------------------------------------------------------------------------
(* send_framed_locked(). *)
WriteFailed(t) ==
    CASE thread[t].job = "hello" -> "unhello"
      [] thread[t].job = "answer" -> "find"  \* back on its own connection failed: dial
      [] OTHER -> Failed(t)

WriteDone(t) ==
    CASE thread[t].job = "hello" -> "spawn"
      [] thread[t].job = "request" -> "wait"
      [] OTHER -> "top"

(* Go on after the frame; what is not needed any more is forgotten. *)
Go(t, where) == IF where \in {"spawn", "unhello", "find"}
                THEN thread' = [thread EXCEPT ![t].at = where, ![t].mtx = None]
                ELSE Rest(t, where)

LookUpMutex(t) ==
    LET n == thread[t].fd
    IN  /\ At(t, "write")
        /\ ~lock.connections
        /\ \/ agent.mutexes[n] = None /\ Go(t, WriteFailed(t))
           \/ /\ agent.mutexes[n] # None
              /\ thread' = [thread EXCEPT ![t].at = "queue", ![t].mtx = agent.mutexes[n]]
        /\ UNCHANGED <<agent, lock, conn, desc, call, acceptor, closer, env>>

LockWriter(t) ==
    /\ At(t, "queue")
    /\ lock.writer[thread[t].mtx] = None
    /\ To(t, "locked")
    /\ lock' = [lock EXCEPT !.writer[thread[t].mtx] = t]
    /\ UNCHANGED <<agent, conn, desc, call, acceptor, closer, env>>

(* Is the number still registered, for whatever connection?  Then write,   *)
(* and unlock.  On a connection the peer has dropped, the write may still  *)
(* succeed.                                                                *)
SendFramed(t) ==
    LET n == thread[t].fd
        known == agent.mutexes[n] # None
        c == desc.holder[n]
    IN  /\ At(t, "locked")
        /\ ~lock.connections
        /\ \/ known /\ c # None /\ Go(t, WriteDone(t))
           \/ (known /\ c # None => conn[c].state # "open") /\ Go(t, WriteFailed(t))
        /\ lock' = [lock EXCEPT !.writer[thread[t].mtx] = None]
        /\ UNCHANGED <<agent, conn, desc, call, acceptor, closer, env>>
-----------------------------------------------------------------------------
(* receive_loop(c). *)
LoopTop(c) ==
    /\ At(c, "top")
    /\ To(c, IF agent.running THEN "recv" ELSE "cleanup")
    /\ UNCHANGED <<agent, lock, conn, desc, call, acceptor, closer, env>>

(* The read finds the connection its number stands for now, ... *)
BeginRead(c) ==
    LET h == desc.holder[conn[c].fd]
    IN  /\ At(c, "recv")
        /\ \/ h = None /\ To(c, "cleanup")
           \/ h # None /\ thread' = [thread EXCEPT ![c].at = "reading", ![c].sock = h]
        /\ UNCHANGED <<agent, lock, conn, desc, call, acceptor, closer, env>>

(* ... and deserialize_message() returns a frame for dispatch_message():   *)
(* an answer is delivered, a request is handled and answered on the number *)
(* of this thread.  Of a frame that two threads read, each has a part:     *)
(* nothing; ...                                                            *)
Receive(c) ==
    LET h == thread[c].sock
    IN  /\ At(c, "reading")
        /\ \E m \in conn[h].inbox :
              /\ conn' = [conn EXCEPT ![h].inbox = @ \ {m}]
              /\ \/ m.kind = "response" /\ Rest(c, "top") /\ Deliver(m)
                 \/ m.kind = "request" /\ Write(c, "answer", conn[c].fd) /\ UNCHANGED <<agent, call>>
                 \/ Reading(h) # {c} /\ Rest(c, "cleanup") /\ UNCHANGED <<agent, call>>
        /\ UNCHANGED <<lock, desc, acceptor, closer, env>>

(* ... nothing either at the end of the stream. *)
EndOfStream(c) ==
    LET h == thread[c].sock
    IN  /\ At(c, "reading")
        /\ conn[h].state = "shut" \/ (conn[h].state = "dropped" /\ conn[h].inbox = {})
        /\ Rest(c, "cleanup")
        /\ UNCHANGED <<agent, lock, conn, desc, call, acceptor, closer, env>>

Forget(m, p, n) == [m EXCEPT ![p] = IF @ = n THEN None ELSE @]

CleansUp(c) ==
    LET mtx == agent.mutexes[conn[c].fd]
    IN  /\ At(c, "cleanup")
        /\ ~lock.connections
        /\ thread' = [thread EXCEPT ![c].at = IF mtx = None THEN "exited" ELSE "close", ![c].mtx = mtx]
        /\ UNCHANGED <<lock, conn, desc, call, acceptor, closer, env>>

(* Mutant: the outbound entry stays. *)
MutCleanup(c) ==
    /\ CleansUp(c)
    /\ agent' = [agent EXCEPT !.inbound = Forget(@, conn[c].peer, conn[c].fd),
                              !.mutexes[conn[c].fd] = None]

(* Whoever erases the write mutex closes the descriptor; it is looked up   *)
(* by number, and may be that of a later connection.                       *)
Cleanup(c) ==
    /\ CleansUp(c)
    /\ agent' = [agent EXCEPT !.inbound = Forget(@, conn[c].peer, conn[c].fd),
                              !.connections = Forget(@, conn[c].peer, conn[c].fd),
                              !.mutexes[conn[c].fd] = None]

CloseOwn(c) ==
    /\ At(c, "close")
    /\ lock.writer[thread[c].mtx] = None
    /\ Rest(c, "exited")
    /\ Close(conn[c].fd, TRUE)
    /\ UNCHANGED <<agent, lock, call, acceptor, closer, env>>
-----------------------------------------------------------------------------
(* accept_loop(): a peer connects and its hello is read.  A connection     *)
(* refused, for want of a hello or of room, leaves no trace.               *)
Accept(p) ==
    /\ acceptor.at = "accept"
    /\ agent.running
    /\ env.supersede \/ agent.inbound[p] = None
    /\ \E c \in Conn : NewConn(c, p) /\ acceptor' = [at |-> "register", conn |-> c]
    /\ UNCHANGED <<agent, lock, call, thread, closer, env>>

(* inbound_connections_ and fd_write_mutexes_ with the new connection. *)
Inbound(c, mutexes) == [agent EXCEPT !.inbound[conn[c].peer] = conn[c].fd,
                                     !.mutexes = [mutexes EXCEPT ![conn[c].fd] = c]]

(* An old connection of the peer is superseded: its write mutex is waited  *)
(* for with connections_mutex_ held.                                       *)
RegisterInbound ==
    LET p == conn[acceptor.conn].peer
    IN  /\ acceptor.at = "register"
        /\ ~lock.connections
        /\ \/ /\ agent.inbound[p] = None
              /\ agent' = Inbound(acceptor.conn, agent.mutexes)
              /\ acceptor' = [acceptor EXCEPT !.at = "spawn"]
              /\ UNCHANGED lock
           \/ /\ agent.inbound[p] # None
              /\ lock' = [lock EXCEPT !.connections = TRUE]
              /\ acceptor' = [acceptor EXCEPT !.at = "supersede"]
              /\ UNCHANGED agent
        /\ UNCHANGED <<conn, desc, call, thread, closer, env>>

CloseSuperseded ==
    LET old == agent.inbound[conn[acceptor.conn].peer]
        mtx == agent.mutexes[old]
    IN  /\ acceptor.at = "supersede"
        /\ mtx # None => lock.writer[mtx] = None
        /\ Close(old, TRUE)
        /\ agent' = Inbound(acceptor.conn, [agent.mutexes EXCEPT ![old] = None])
        /\ lock' = [lock EXCEPT !.connections = FALSE]
        /\ acceptor' = [acceptor EXCEPT !.at = "spawn"]
        /\ UNCHANGED <<call, thread, closer, env>>

SpawnReceiver ==
    /\ acceptor.at = "spawn"
    /\ ~lock.threads
    /\ To(acceptor.conn, "top")
    /\ acceptor' = [at |-> "accept", conn |-> None]
    /\ UNCHANGED <<agent, lock, conn, desc, call, closer, env>>

AcceptEnds ==
    /\ acceptor.at = "accept"
    /\ ~agent.running
    /\ acceptor' = [acceptor EXCEPT !.at = "exited"]
    /\ UNCHANGED <<agent, lock, conn, desc, call, thread, closer, env>>
-----------------------------------------------------------------------------
(* shutdown(). *)
Shut(from, to) == closer.at = from /\ closer' = [closer EXCEPT !.at = to]

StopListening ==
    /\ "shutdown" \in env.events
    /\ Shut("off", "collect")
    /\ agent' = [agent EXCEPT !.running = FALSE]
    /\ UNCHANGED <<lock, conn, desc, call, thread, acceptor, env>>

Emptied == [agent EXCEPT !.connections = [p \in Peer |-> None],
                         !.inbound = [p \in Peer |-> None], !.mutexes = [n \in Fd |-> None]]

(* The numbers in a map, each with the write mutex found for it. *)
Collected(map, name) ==
    {[of |-> <<name, p>>, fd |-> map[p], mtx |-> agent.mutexes[map[p]]] :
        p \in {q \in Peer : map[q] # None}}

(* Mutant: only the outbound connections are closed. *)
MutCollect ==
    /\ closer.at = "collect"
    /\ ~lock.connections
    /\ closer' = [at |-> "close", fds |-> Collected(agent.connections, "connections")]
    /\ agent' = Emptied
    /\ UNCHANGED <<lock, conn, desc, call, thread, acceptor, env>>

Collect ==
    /\ closer.at = "collect"
    /\ ~lock.connections
    /\ closer' = [at |-> "close", fds |-> Collected(agent.connections, "connections")
                                           \cup Collected(agent.inbound, "inbound")]
    /\ agent' = Emptied
    /\ UNCHANGED <<lock, conn, desc, call, thread, acceptor, env>>

CloseCollected ==
    /\ closer.at = "close"
    /\ \/ \E x \in closer.fds : /\ x.mtx # None => lock.writer[x.mtx] = None
                                /\ Close(x.fd, TRUE)
                                /\ closer' = [closer EXCEPT !.fds = @ \ {x}]
       \/ closer.fds = {} /\ Shut("close", "abort") /\ UNCHANGED <<conn, desc>>
    /\ UNCHANGED <<agent, lock, call, thread, acceptor, env>>

Abort ==
    /\ Shut("abort", "drain")
    /\ call' = [k \in Caller |-> IF call[k].id \in agent.pending
                                 THEN [call[k] EXCEPT !.promise = "error"] ELSE call[k]]
    /\ agent' = [agent EXCEPT !.pending = {}]
    /\ UNCHANGED <<lock, conn, desc, thread, acceptor, env>>

(* Mutant: nobody waits for the detached threads. *)
MutDrain ==
    /\ Shut("drain", "joinIo")
    /\ UNCHANGED <<agent, lock, conn, desc, call, thread, acceptor, env>>

(* Wait until every detached thread has counted itself out. *)
Drain ==
    /\ Shut("drain", IF agent.inflight = 0 THEN "joinIo" ELSE "asleep")
    /\ UNCHANGED <<agent, lock, conn, desc, call, thread, acceptor, env>>

(* The accept thread is joined, threads_mutex_ is taken, ... *)
JoinIo ==
    /\ acceptor.at = "exited"
    /\ Shut("joinIo", "join")
    /\ lock' = [lock EXCEPT !.threads = TRUE]
    /\ UNCHANGED <<agent, conn, desc, call, thread, acceptor, env>>

(* ... and the receive threads are joined with it held. *)
JoinWorkers ==
    /\ \A c \in Conn : thread[c].at \in {"idle", "exited"}
    /\ Shut("join", "done")
    /\ lock' = [lock EXCEPT !.threads = FALSE]
    /\ UNCHANGED <<agent, conn, desc, call, thread, acceptor, env>>
-----------------------------------------------------------------------------
(* The peers.  A call may be answered on any connection with its worker,   *)
(* in time or late.                                                        *)
PeerRequests(c) ==
    /\ conn[c].state = "open"
    /\ agent.inbound[conn[c].peer] = conn[c].fd
    /\ env.requests > 0
    /\ env' = [env EXCEPT !.requests = @ - 1]
    /\ conn' = [conn EXCEPT ![c].inbox = @ \cup {Request}]
    /\ UNCHANGED <<agent, lock, desc, call, thread, acceptor, closer>>

(* Mutant: the answer does not carry the id of the request. *)
MutEcho(k) == Response(0, k)

(* What a handler returns: the answer carries the id of the request. *)
Echo(k) == Response(call[k].id, k)

PeerAnswers(c, k) ==
    /\ "answer" \in env.events
    /\ thread[k].at \in {"wait", "notify", "done"}
    /\ call[k].id >= 0 /\ ~call[k].answered
    /\ call[k].peer = conn[c].peer
    /\ conn[c].state = "open"
    /\ conn' = [conn EXCEPT ![c].inbox = @ \cup {Echo(k)}]
    /\ call' = [call EXCEPT ![k].answered = TRUE]
    /\ UNCHANGED <<agent, lock, desc, thread, acceptor, closer, env>>

PeerDrops(c) ==
    /\ "drop" \in env.events
    /\ conn[c].state = "open"
    /\ conn' = [conn EXCEPT ![c].state = "dropped"]
    /\ UNCHANGED <<agent, lock, desc, call, thread, acceptor, closer, env>>

(* The accept thread of a peer, which runs the same code, waits for a      *)
(* hello no longer than its timeout.  Looked at only where a thread may be *)
(* blocked on the connection: it was closed here without ::shutdown().     *)
PeerGivesUp ==
    /\ \E c \in Conn : /\ conn[c].state = "open"
                       /\ desc.holder[conn[c].fd] # c
                       /\ At(c, "idle") /\ acceptor.conn # c
                       /\ \A t \in Thread : thread[t].sock = c => ~At(t, "spawn")
                       /\ conn' = [conn EXCEPT ![c].state = "dropped"]
    /\ UNCHANGED <<agent, lock, desc, call, thread, acceptor, closer, env>>
-----------------------------------------------------------------------------
CallStep(k) == \/ Send(k) \/ Register(k) \/ SelfDispatch(k) \/ Return(k) \/ Timeout(k)
               \/ SendFailed(k) \/ Notify(k)

ConnectStep(t) == \/ Find(t) \/ Dial(t) \/ DialFails(t) \/ Publish(t) \/ HelloFailed(t)
                  \/ Spawn(t) \/ LookUpMutex(t) \/ LockWriter(t) \/ SendFramed(t)

ReceiveStep(c) == \/ LoopTop(c) \/ BeginRead(c) \/ Receive(c) \/ EndOfStream(c)
                  \/ Cleanup(c) \/ CloseOwn(c)

AcceptStep == RegisterInbound \/ CloseSuperseded \/ SpawnReceiver \/ AcceptEnds

ShutdownStep == Collect \/ CloseCollected \/ Abort \/ Drain \/ JoinIo \/ JoinWorkers

PeerStep == \/ \E p \in env.requesters : Accept(p)
            \/ PeerGivesUp
            \/ \E c \in Conn : \/ PeerRequests(c)
                               \/ PeerDrops(c)
                               \/ \E k \in Caller : PeerAnswers(c, k)

Next ==
    \/ \E k \in Caller : Call(k) \/ CallStep(k)
    \/ \E t \in Thread : ConnectStep(t)
    \/ \E c \in Conn : ReceiveStep(c)
    \/ AcceptStep
    \/ StopListening
    \/ ShutdownStep
    \/ PeerStep

Spec == Init /\ [][Next]_vars

(* Every thread goes on when it can, and a blocked wait_for() times out.   *)
(* Peers do what they like, but for the timeout of their accept threads.   *)
FairSpec ==
    /\ Spec
    /\ \A k \in Caller : WF_vars(CallStep(k) \/ ConnectStep(k))
    /\ \A c \in Conn : WF_vars(ReceiveStep(c) \/ ConnectStep(c))
    /\ WF_vars(AcceptStep)
    /\ WF_vars(ShutdownStep)
    /\ WF_vars(PeerGivesUp)
-----------------------------------------------------------------------------
(* A callback is given the answer to its own request or an error, however  *)
(* late other answers are (rpc_agent.cpp:376-384, 516-522, 672-681).       *)
AnswersMatch == \A k \in Caller : call[k].result \in {None, "error", k}

(* The maps never lead to a closed descriptor, nor to one without a write  *)
(* mutex, as long as a number is not given out again while a thread of its *)
(* former connection is still to use it (rpc_agent.cpp:603-608,            *)
(* 1087-1095).  After that it does not hold: the receive thread of the old *)
(* connection finds the number registered and closes the new one           *)
(* (1108-1122).                                                            *)
MapsHoldOpenSockets ==
    \A p \in Peer : \A n \in {agent.connections[p], agent.inbound[p]} \ ({None} \cup desc.aliased) :
        agent.mutexes[n] # None /\ desc.holder[n] = agent.mutexes[n]

(* When shutdown() returns, its accept thread and receive threads are      *)
(* gone, and no detached thread is left in the middle of a send: one that  *)
(* was counted has only its notify_all() to do, and one that came later is *)
(* refused by send() (rpc_agent.cpp:525-546, 642-660).  That notify_all()  *)
(* still uses the agent.                                                   *)
NoWorkAfterShutdown ==
    closer.at = "done" => /\ acceptor.at = "exited"
                          /\ \A c \in Conn : thread[c].at \in {"idle", "exited"}
                          /\ \A k \in Caller : thread[k].at \in {"idle", "send", "notify", "done"}

(* Every send ends, answered or not, with answers late or missing,         *)
(* connections being opened, dropped and written to and shutdown() at any  *)
(* point (rpc_agent.cpp:516-522, 626-640), and shutdown() returns          *)
(* (572-661).  Two deadlocks of the code are kept out by the scenarios: no *)
(* receive thread dials (Dialable; 655-658 against 936), and where a peer  *)
(* reconnects, it sends no requests and no connection breaks, so that      *)
(* nobody writes on what is superseded (1050 against 846).                 *)
EveryCallReturns ==
    []<>(/\ \A k \in Caller : thread[k].at \in {"idle", "done"}
         /\ closer.at \in {"off", "done"})

(* rpc_agent.cpp:587-591 says that a write mutex must not be acquired with *)
(* connections_mutex_ held, for a writer takes them in the other order.    *)
NoLockCycle ==
    ~ \E t \in Thread : /\ acceptor.at = "supersede"
                        /\ At(t, "locked")
                        /\ thread[t].mtx = agent.mutexes[agent.inbound[conn[acceptor.conn].peer]]
=============================================================================
