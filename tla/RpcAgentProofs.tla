--------------------------- MODULE RpcAgentProofs ---------------------------
(***************************************************************************)
(* What RpcAgent promises, for any number of calls, peers and connections. *)
(* The invariant gives every connection that is not yet received from one  *)
(* owner, the thread that dialled it or the accept thread.  Of a number    *)
(* that was free of users when it was last given out it says more: only    *)
(* the connection that has it uses it, nobody closes it before its owner   *)
(* publishes it, and it leaves the maps before anybody closes it.  It      *)
(* counts the detached threads for shutdown(), and gives every request an  *)
(* id of its own, which is what an answer finds its promise by.            *)
(***************************************************************************)
EXTENDS RpcAgent, FiniteSetTheorems, TLAPS

(* The values the members, the threads and the frames take. *)
Places == {"idle", "send", "register", "dispatch", "find", "dial", "publish", "write", "queue",
           "locked", "unhello", "spawn", "wait", "fail", "notify", "done", "top", "recv",
           "reading", "cleanup", "close", "exited"}
Msg == [kind : {"request"}] \cup [kind : {"response"}, id : Nat, body : Caller]
AgentRec == [running : BOOLEAN, connections : [Peer -> Fd \cup {None}],
             inbound : [Peer -> Fd \cup {None}], mutexes : [Fd -> Conn \cup {None}],
             pending : SUBSET Nat, nextId : Nat, inflight : Nat]
ConnRec == [state : {"unused", "open", "dropped", "shut"}, peer : Peer \cup {None},
            inbox : SUBSET Msg, fd : Fd \cup {None}]
DescRec == [holder : [Fd -> Conn \cup {None}], aliased : SUBSET Fd]
CallRec == [peer : Peer \cup {Self, None}, id : Nat \cup {-1}, answered : BOOLEAN,
            promise : Caller \cup {"error", None}, result : Caller \cup {"error", None}]
ThreadRec == [at : Places, job : {"hello", "answer", "request", "reply", None},
              fd : Fd \cup {None}, mtx : Conn \cup {None}, sock : Conn \cup {None}]
LockRec == [connections : BOOLEAN, threads : BOOLEAN, writer : [Conn -> Thread \cup {None}]]
AcceptorRec == [at : {"accept", "register", "supersede", "spawn", "exited"},
                conn : Conn \cup {None}]
CloserRec == [at : {"off", "collect", "close", "abort", "drain", "asleep", "joinIo", "join", "done"},
              fds : SUBSET [of : {"connections", "inbound"} \X Peer, fd : Fd,
                            mtx : Conn \cup {None}]]

Types ==
    /\ agent \in AgentRec /\ lock \in LockRec /\ desc \in DescRec
    /\ conn \in [Conn -> ConnRec] /\ call \in [Caller -> CallRec] /\ thread \in [Thread -> ThreadRec]
    /\ acceptor \in AcceptorRec /\ closer \in CloserRec /\ env \in Scenario

(* The calls that have a request id have different ones, and an answer on  *)
(* its way carries the id of its call.                                     *)
Started(k) == thread[k].at \notin {"idle", "send"}
IdsAreUnique ==
    /\ \A k \in Caller : /\ call[k].id < agent.nextId
                         /\ ~Started(k) => call[k].id = -1
                         /\ thread[k].at = "register" => call[k].id # -1
    /\ \A j, k \in Caller : call[j].id = call[k].id /\ call[j].id # -1 => j = k
AnswersCarryIds ==
    \A c \in Conn : \A m \in conn[c].inbox :
        m.kind = "response" => call[m.body].id = m.id
PromisesMatch ==
    \A k \in Caller : call[k].promise \in {None, "error", k} /\ call[k].result \in {None, "error", k}

(* Where a peer or a number is needed there is one. *)
Used(c) == conn[c].state # "unused"
KnownThread(t) ==
    /\ t \in Conn => /\ thread[t].at # "idle" => Used(t)
                     /\ thread[t].at \in {"reading", "write", "queue", "locked", "find", "dial"} =>
                           thread[t].sock \in Conn /\ Used(thread[t].sock)
    /\ t \in Caller => /\ thread[t].at # "idle" => call[t].peer \in Peer \cup {Self}
                       /\ thread[t].at \in {"find", "dial"} => call[t].peer \in Peer
                       /\ thread[t].job # "answer"
    /\ thread[t].at = "write" => thread[t].fd \in Fd
KnownConns ==
    /\ \A c \in Conn : Used(c) => conn[c].peer \in Peer /\ conn[c].fd \in Fd
    /\ \A n \in Fd : desc.holder[n] # None => Used(desc.holder[n]) /\ conn[desc.holder[n]].fd = n
KnownThreads == \A t \in Thread : KnownThread(t)

(* The thread that dialled a connection, until its receive thread runs.    *)
(* A connection has one owner at most, and none once its thread runs; in   *)
(* the same way the accept thread owns the connection it accepted.         *)
Owning(t) == \/ thread[t].at \in {"publish", "unhello", "spawn"}
             \/ thread[t].at \in {"write", "queue", "locked"} /\ thread[t].job = "hello"
Owns(t, c) == Owning(t) /\ thread[t].sock = c
OwnersAreUnique ==
    /\ \A t \in Thread : Owning(t) => thread[t].sock \in Conn
    /\ \A t \in Thread, c \in Conn : Owns(t, c) =>
          /\ Used(c) /\ conn[c].peer = PeerOf(t) /\ conn[c].fd = thread[t].fd
          /\ thread[c].at = "idle" /\ acceptor.conn # c
          /\ \A s \in Thread : Owns(s, c) => s = t
    /\ \A c \in Conn : acceptor.conn = c => Used(c) /\ thread[c].at = "idle"
    /\ acceptor.at \in {"register", "supersede", "spawn"} => acceptor.conn \in Conn

(* Somebody uses, or will use, the number of the connection. *)
Owned(c) == \E t \in Thread : Owns(t, c)
Live(c) == thread[c].at \notin {"idle", "exited"} \/ Owned(c) \/ acceptor.conn = c
Unpublished(c) == \/ \E t \in Thread : thread[t].at = "publish" /\ thread[t].sock = c
                  \/ acceptor.at \in {"register", "supersede"} /\ acceptor.conn = c
InMaps(n) == \E p \in Peer : agent.connections[p] = n \/ agent.inbound[p] = n
Closing(n) == \E x \in closer.fds : x.fd = n

(* Of a number given out when nobody had it: nobody but its connection     *)
(* uses it, ...                                                            *)
OneUser(n) ==
    desc.holder[n] # None => \A c \in Conn : conn[c].fd = n /\ Live(c) => c = desc.holder[n]
(* ... it stays open while it is to be published, ... *)
OpenUntilPublished(n) ==
    \A c \in Conn : conn[c].fd = n /\ Unpublished(c) =>
        desc.holder[n] = c /\ ~InMaps(n) /\ ~Closing(n)
(* ... and while it is in a map, under its peer and registered. *)
OpenInMaps(n) ==
    /\ InMaps(n) => /\ desc.holder[n] # None /\ agent.mutexes[n] = desc.holder[n]
                    /\ thread[desc.holder[n]].at # "close" /\ ~Closing(n)
    /\ \A p \in Peer : agent.connections[p] = n => conn[desc.holder[n]].peer = p
    /\ \A p \in Peer : agent.inbound[p] = n =>
          conn[desc.holder[n]].peer = p /\ ~Owned(desc.holder[n]) /\ agent.connections[p] # n
NumbersAreKept ==
    \A n \in Fd \ desc.aliased : OneUser(n) /\ OpenUntilPublished(n) /\ OpenInMaps(n)

(* shutdown() waits for the detached threads and for the accept thread,    *)
(* then for the receive threads while none can be started.  Who calls      *)
(* later is turned away in send().                                         *)
Inflight == {k \in Caller : thread[k].at \notin {"idle", "notify", "done"}}
ShutdownWaits ==
    /\ IsFiniteSet(Inflight) /\ agent.inflight = Cardinality(Inflight)
    /\ closer.at # "off" => ~agent.running
    /\ lock.threads <=> closer.at = "join"
    /\ closer.at \in {"joinIo", "join", "done"} =>
          \A k \in Caller : thread[k].at \in {"idle", "send", "notify", "done"}
    /\ closer.at \in {"join", "done"} => acceptor.at = "exited"
    /\ closer.at = "done" => \A c \in Conn : thread[c].at \in {"idle", "exited"}

(* connections_mutex_ is held across a wait only while an entry is         *)
(* superseded, which therefore stays.                                      *)
LockHeld ==
    /\ lock.connections <=> acceptor.at = "supersede"
    /\ acceptor.at = "supersede" => agent.inbound[conn[acceptor.conn].peer] # None

Calls == IdsAreUnique /\ AnswersCarryIds /\ PromisesMatch
Links == KnownConns /\ KnownThreads /\ OwnersAreUnique
IInv == Types /\ Calls /\ Links /\ NumbersAreKept /\ ShutdownWaits /\ LockHeld
-----------------------------------------------------------------------------
(* A step that moves one thread. *)
Moves(t) ==
    /\ thread' \in [Thread -> ThreadRec]
    /\ \A s \in Thread : s # t => thread'[s] = thread[s]

(* What To() does to the threads, ... *)
LEMMA ToFacts ==
    ASSUME Types, NEW t \in Thread, NEW a \in Places, To(t, a)
    PROVE  /\ Moves(t)
           /\ thread'[t].at = a /\ thread'[t].job = thread[t].job /\ thread'[t].fd = thread[t].fd
           /\ thread'[t].mtx = thread[t].mtx /\ thread'[t].sock = thread[t].sock
<1>1. thread \in [Thread -> ThreadRec] /\ thread' = [thread EXCEPT ![t].at = a]
  BY DEF Types, To
<1>. QED  BY <1>1 DEF ThreadRec, Moves

(* ... what Rest() does, ... *)
LEMMA RestFacts ==
    ASSUME Types, NEW t \in Thread, NEW a \in Places, Rest(t, a)
    PROVE  /\ Moves(t)
           /\ thread'[t].at = a /\ thread'[t].job = None /\ thread'[t].fd = None
<1>1. thread \in [Thread -> ThreadRec] /\ thread' = [thread EXCEPT ![t] = [Resting EXCEPT !.at = a]]
  BY DEF Types, Rest
<1>2. [Resting EXCEPT !.at = a] = [at |-> a, job |-> None, fd |-> None, mtx |-> None, sock |-> None]
  BY DEF Resting
<1>. QED  BY <1>1, <1>2 DEF ThreadRec, Moves

(* ... what Write() does, ... *)
LEMMA WriteFacts ==
    ASSUME Types, NEW t \in Thread, NEW j \in {"hello", "answer", "request", "reply"},
           NEW n \in Fd, Write(t, j, n)
    PROVE  /\ Moves(t)
           /\ thread'[t].at = "write" /\ thread'[t].job = j /\ thread'[t].fd = n
           /\ thread'[t].sock = thread[t].sock
<1>1. thread \in [Thread -> ThreadRec]
      /\ thread' = [thread EXCEPT ![t].at = "write", ![t].job = j, ![t].fd = n]
  BY DEF Types, Write
<1>2. thread'[t] = [at |-> "write", job |-> j, fd |-> n, mtx |-> thread[t].mtx,
                    sock |-> thread[t].sock]
  BY <1>1 DEF ThreadRec
<1>3. \A s \in Thread : s # t => thread'[s] = thread[s]
  BY <1>1
<1>4. thread'[t] \in ThreadRec /\ thread'[t].at = "write" /\ thread'[t].job = j
      /\ thread'[t].fd = n /\ thread'[t].sock = thread[t].sock
  BY <1>1, <1>2 DEF ThreadRec, Places
<1>5. thread' \in [Thread -> ThreadRec]
  BY <1>1, <1>3, <1>4
<1>. QED  BY <1>3, <1>4, <1>5 DEF Moves

(* ... and what Go() does. *)
LEMMA GoFacts ==
    ASSUME Types, NEW t \in Thread, NEW a \in Places, Go(t, a)
    PROVE  /\ Moves(t) /\ thread'[t].at = a
           /\ \/ /\ a \in {"spawn", "unhello", "find"}
                 /\ thread'[t].job = thread[t].job /\ thread'[t].fd = thread[t].fd
                 /\ thread'[t].sock = thread[t].sock
              \/ a \notin {"spawn", "unhello", "find"} /\ thread'[t].job = None
<1>1. CASE a \in {"spawn", "unhello", "find"}
  <2>1. thread \in [Thread -> ThreadRec] /\ thread' = [thread EXCEPT ![t].at = a, ![t].mtx = None]
    BY <1>1 DEF Types, Go
  <2>. QED  BY <1>1, <2>1 DEF ThreadRec, Moves
<1>2. CASE a \notin {"spawn", "unhello", "find"}
  <2>1. Rest(t, a)
    BY <1>2 DEF Go
  <2>. QED  BY <1>2, <2>1, RestFacts
<1>. QED  BY <1>1, <1>2

(* A thread is a call or a receive thread. *)
LEMMA TwoKinds == \A t \in Thread : t \in Caller <=> t \notin Conn
  BY ThreadsAssumption DEF Thread

(* A step that does not concern the calls. *)
SameStarts ==
    \A k \in Caller : /\ thread'[k].at \in {"idle", "send"} => thread[k].at \in {"idle", "send"}
                      /\ thread'[k].at = "register" => thread[k].at = "register"

(* Ids stay; promises and results stay or are right. *)
LEMMA CallsKeepIds ==
    ASSUME IInv, agent'.nextId = agent.nextId,
           \A k \in Caller : /\ call'[k].id = call[k].id
                             /\ call'[k].promise \in {None, "error", k}
                             /\ call'[k].result \in {None, "error", k},
           \A c \in Conn : conn'[c].inbox \subseteq conn[c].inbox,
           SameStarts
    PROVE  Calls'
<1>1. IdsAreUnique'
  BY DEF IInv, Calls, IdsAreUnique, Started, SameStarts
<1>2. AnswersCarryIds'
  <2>1. \A c \in Conn : \A m \in conn[c].inbox : m.kind = "response" => m.body \in Caller
    BY DEF IInv, Types, ConnRec, Msg
  <2>. QED  BY <2>1 DEF IInv, Calls, AnswersCarryIds
<1>3. PromisesMatch'
  BY DEF PromisesMatch
<1>. QED  BY <1>1, <1>2, <1>3 DEF Calls

(* Such a step keeps what is known of the calls. *)
LEMMA CallsKept ==
    ASSUME IInv, call' = call, agent'.nextId = agent.nextId,
           \A c \in Conn : conn'[c].inbox \subseteq conn[c].inbox,
           SameStarts
    PROVE  Calls'
<1>1. \A k \in Caller : /\ call'[k].id = call[k].id
                        /\ call'[k].promise \in {None, "error", k}
                        /\ call'[k].result \in {None, "error", k}
  BY DEF IInv, Calls, PromisesMatch
<1>. QED  BY <1>1, CallsKeepIds

(* The connections keep their peers and numbers, and no new one comes. *)
SameConns ==
    \A c \in Conn : /\ conn'[c].peer = conn[c].peer /\ conn'[c].fd = conn[c].fd
                    /\ Used(c)' <=> Used(c)

(* Such a step keeps what is known of the connections. *)
LEMMA ConnsKept ==
    ASSUME IInv, SameConns, \A n \in Fd : desc'.holder[n] \in {desc.holder[n], None}
    PROVE  KnownConns'
<1>1. \A n \in Fd : desc.holder[n] \in Conn \cup {None}
  BY DEF IInv, Types, DescRec
<1>. QED  BY <1>1 DEF SameConns, IInv, Links, KnownConns

(* Nobody becomes an owner. *)
SameOwners ==
    /\ \A t \in Thread : Owning(t)' => /\ Owning(t) /\ PeerOf(t)' = PeerOf(t)
                                       /\ thread'[t].sock = thread[t].sock
                                       /\ thread'[t].fd = thread[t].fd
    /\ acceptor'.conn \in {acceptor.conn, None}
    /\ acceptor'.at \in {"register", "supersede", "spawn"} => acceptor'.conn \in Conn
    /\ \A c \in Conn : Owned(c)' \/ acceptor'.conn = c => thread'[c].at = thread[c].at

(* Such a step keeps the owners. *)
LEMMA OwnersKept ==
    ASSUME IInv, SameConns, SameOwners
    PROVE  /\ OwnersAreUnique'
           /\ \A c \in Conn : Owned(c)' => Owned(c)
<1>. USE DEF SameOwners
<1>1. \A t \in Thread, c \in Conn : Owns(t, c)' => Owns(t, c)
  BY DEF Owns
<1>2. \A c \in Conn : Owned(c)' => Owned(c)
  BY <1>1 DEF Owned
<1>3. \A t \in Thread : Owning(t)' => thread'[t].sock \in Conn
  BY DEF IInv, Links, OwnersAreUnique
<1>4. ASSUME NEW t \in Thread, NEW c \in Conn, Owns(t, c)'
      PROVE  /\ Used(c)' /\ conn'[c].peer = PeerOf(t)' /\ conn'[c].fd = thread'[t].fd
             /\ thread'[c].at = "idle" /\ acceptor'.conn # c
             /\ \A s \in Thread : Owns(s, c)' => s = t
  <2>1. Owns(t, c) /\ Owning(t)' /\ Owned(c)'
    BY <1>1, <1>4 DEF Owns, Owned
  <2>2. /\ Used(c) /\ conn[c].peer = PeerOf(t) /\ conn[c].fd = thread[t].fd
        /\ thread[c].at = "idle" /\ acceptor.conn # c
        /\ \A s \in Thread : Owns(s, c) => s = t
    BY <2>1 DEF IInv, Links, OwnersAreUnique
  <2>3. None # c
    BY NoneAssumption
  <2>. QED  BY <1>1, <2>1, <2>2, <2>3 DEF SameConns
<1>5. \A c \in Conn : acceptor'.conn = c => Used(c)' /\ thread'[c].at = "idle"
  BY NoneAssumption DEF IInv, Links, OwnersAreUnique, SameConns
<1>6. OwnersAreUnique'
  BY <1>3, <1>4, <1>5 DEF OwnersAreUnique
<1>. QED  BY <1>2, <1>6

(* Nobody comes to use a number who did not. *)
LivesShrink ==
    \A c \in Conn : /\ Live(c)' => Live(c)
                    /\ Owned(c)' => Owned(c)
                    /\ Unpublished(c)' => Unpublished(c)

(* A number leaves the maps and is closed; it is not given out nor         *)
(* published.  What happens to it happens only when it is in no map, and   *)
(* not to be published.                                                    *)
NumberShrinks(n) ==
    /\ \A p \in Peer : /\ agent'.connections[p] = n => agent.connections[p] = n
                       /\ agent'.inbound[p] = n => agent.inbound[p] = n
    /\ desc'.holder[n] \in {desc.holder[n], None}
    /\ InMaps(n)' => /\ desc'.holder[n] = desc.holder[n]
                     /\ agent'.mutexes[n] = agent.mutexes[n]
                     /\ ~Closing(n)'
                     /\ thread'[desc.holder[n]].at = "close" => thread[desc.holder[n]].at = "close"
    /\ \A c \in Conn : Unpublished(c)' /\ conn[c].fd = n =>
          desc'.holder[n] = desc.holder[n] /\ ~Closing(n)'

(* Such a step keeps what is known of the number, ... *)
LEMMA NumberKept ==
    ASSUME IInv, SameConns, LivesShrink, NEW n \in Fd \ desc.aliased, NumberShrinks(n)
    PROVE  OneUser(n)' /\ OpenUntilPublished(n)' /\ OpenInMaps(n)'
<1>. USE DEF LivesShrink, NumberShrinks
<1>1. OneUser(n) /\ OpenUntilPublished(n) /\ OpenInMaps(n)
  BY DEF IInv, NumbersAreKept
<1>2. n \in Fd /\ desc.holder[n] \in Conn \cup {None}
  BY DEF IInv, Types, DescRec
<1>3. InMaps(n)' => InMaps(n)
  BY DEF InMaps
<1>4. OneUser(n)'
  BY <1>1, <1>2 DEF OneUser, SameConns
<1>5. OpenUntilPublished(n)'
  BY <1>1, <1>3 DEF OpenUntilPublished, SameConns
<1>6. OpenInMaps(n)'
  <2>1. CASE ~InMaps(n)'
    BY <2>1 DEF OpenInMaps, InMaps
  <2>2. CASE InMaps(n)'
    <3>. PICK h \in Conn : desc.holder[n] = h
      BY <1>1, <1>2, <1>3, <2>2 DEF OpenInMaps
    <3>1. /\ desc'.holder[n] = h /\ agent'.mutexes[n] = agent.mutexes[n] /\ ~Closing(n)'
          /\ thread'[h].at = "close" => thread[h].at = "close"
      BY <2>2
    <3>2. agent.mutexes[n] = h /\ thread[h].at # "close" /\ h # None
      BY <1>1, <1>3, <2>2 DEF OpenInMaps
    <3>3. \A p \in Peer : agent'.connections[p] = n => conn'[h].peer = p
      BY <1>1 DEF OpenInMaps, SameConns
    <3>4. ASSUME NEW p \in Peer, agent'.inbound[p] = n
          PROVE  conn'[h].peer = p /\ ~Owned(h)' /\ agent'.connections[p] # n
      <4>1. conn[h].peer = p /\ ~Owned(h) /\ agent.connections[p] # n
        BY <1>1, <3>4 DEF OpenInMaps
      <4>. QED  BY <4>1 DEF SameConns
    <3>5. ~Owned(h)' => ~Owned(desc.holder[n])'
      BY <3>1 DEF Owned, Owns
    <3>. QED  BY <3>1, <3>2, <3>3, <3>4, <3>5 DEF OpenInMaps
  <2>. QED  BY <2>1, <2>2
<1>. QED  BY <1>4, <1>5, <1>6

(* ... and of all of them. *)
LEMMA NumbersKept ==
    ASSUME IInv, SameConns, LivesShrink, desc'.aliased = desc.aliased,
           \A n \in Fd \ desc.aliased : NumberShrinks(n)
    PROVE  NumbersAreKept'
  BY NumberKept DEF NumbersAreKept
-----------------------------------------------------------------------------
(* A thread that moves stays the owner of what it owns, or owns no more. *)
Keeps(t) == Owning(t)' => /\ Owning(t)
                          /\ thread'[t].sock = thread[t].sock /\ thread'[t].fd = thread[t].fd
SamePeers == \A k \in Caller : thread[k].at # "idle" => call'[k].peer = call[k].peer
Running(t) == t \in Conn => thread[t].at \notin {"idle", "exited"}

(* One thread moves, and becomes nobody's owner. *)
LEMMA MoveFacts ==
    ASSUME IInv, NEW t \in Thread, Moves(t), SameConns, SamePeers, Keeps(t), Running(t),
           thread'[t].at \notin {"idle", "publish"}, KnownThread(t)', acceptor' = acceptor
    PROVE  KnownThreads' /\ OwnersAreUnique' /\ LivesShrink
<1>1. ASSUME NEW s \in Thread, s # t
      PROVE  KnownThread(s)'
  <2>1. KnownThread(s) /\ thread'[s] = thread[s] /\ thread[s] \in ThreadRec
    BY <1>1 DEF IInv, Links, KnownThreads, Moves, Types
  <2>. QED  BY <2>1 DEF KnownThread, SameConns, SamePeers
<1>2. KnownThreads'
  BY <1>1 DEF KnownThreads
<1>3. \A s \in Thread : Owning(s)' => /\ Owning(s) /\ thread'[s].sock = thread[s].sock
                                      /\ thread'[s].fd = thread[s].fd
  BY DEF Moves, Keeps, Owning
<1>4. ASSUME NEW s \in Thread, Owning(s)'
      PROVE  PeerOf(s)' = PeerOf(s)
  <2>1. Owning(s) /\ thread'[s].sock = thread[s].sock /\ thread[s].sock \in Conn
        /\ thread[s].at # "idle"
    BY <1>3, <1>4 DEF IInv, Links, OwnersAreUnique, Owning
  <2>. QED  BY <2>1 DEF PeerOf, SamePeers, SameConns
<1>5. \A c \in Conn : Owned(c)' => Owned(c)
  BY <1>3 DEF Owned, Owns
<1>6. \A c \in Conn : Owned(c) \/ acceptor.conn = c => thread[c].at = "idle"
  BY DEF Owned, IInv, Links, OwnersAreUnique
<1>7. SameOwners
  <2>1. \A c \in Conn : Owned(c) \/ acceptor.conn = c => thread'[c].at = thread[c].at
    BY <1>6 DEF Running, Moves, Thread
  <2>2. acceptor.at \in {"register", "supersede", "spawn"} => acceptor.conn \in Conn
    BY DEF IInv, Links, OwnersAreUnique
  <2>. QED  BY <1>3, <1>4, <1>5, <2>1, <2>2 DEF SameOwners
<1>8. OwnersAreUnique'
  BY <1>7, OwnersKept
<1>9. \A c \in Conn : Live(c)' => Live(c)
  BY <1>5 DEF Live, Running, Moves, Thread
<1>10. \A c \in Conn : Unpublished(c)' => Unpublished(c)
  BY DEF Unpublished, Moves
<1>. QED  BY <1>2, <1>5, <1>8, <1>9, <1>10 DEF LivesShrink

SameMaps ==
    /\ agent'.connections = agent.connections /\ agent'.inbound = agent.inbound
    /\ agent'.mutexes = agent.mutexes

(* One thread moves, and nothing happens to the numbers. *)
LEMMA SocketsKept ==
    ASSUME IInv, NEW t \in Thread, Moves(t), SameConns, SamePeers, Keeps(t), Running(t),
           thread'[t].at \notin {"idle", "publish", "close"}, KnownThread(t)',
           desc' = desc, acceptor' = acceptor, closer'.fds = closer.fds, SameMaps
    PROVE  Links' /\ NumbersAreKept'
<1>1. KnownThreads' /\ OwnersAreUnique' /\ LivesShrink
  BY MoveFacts
<1>2. KnownConns'
  BY ConnsKept
<1>3. \A n \in Fd : (InMaps(n)' <=> InMaps(n)) /\ (Closing(n)' <=> Closing(n))
  BY DEF InMaps, Closing, SameMaps
<1>4. \A n \in Fd \ desc.aliased : NumberShrinks(n)
  <2>1. ASSUME NEW n \in Fd \ desc.aliased, InMaps(n)
        PROVE  /\ ~Closing(n)
               /\ thread'[desc.holder[n]].at = "close" => thread[desc.holder[n]].at = "close"
    <3>1. ~Closing(n) /\ desc.holder[n] \in Conn
      BY <2>1 DEF IInv, NumbersAreKept, OpenInMaps, Types, DescRec
    <3>2. desc.holder[n] \in Thread
      BY <3>1 DEF Thread
    <3>. QED  BY <3>1, <3>2 DEF Moves
  <2>2. ASSUME NEW n \in Fd \ desc.aliased, NEW c \in Conn, Unpublished(c), conn[c].fd = n
        PROVE  ~Closing(n)
    BY <2>2 DEF IInv, NumbersAreKept, OpenUntilPublished
  <2>. QED  BY <1>1, <1>3, <2>1, <2>2 DEF LivesShrink, NumberShrinks, SameMaps
<1>5. NumbersAreKept'
  BY <1>1, <1>4, NumbersKept
<1>. QED  BY <1>1, <1>2, <1>5 DEF Links

(* shutdown() does not go on, and who moves had work to do. *)
LEMMA ShutdownKept ==
    ASSUME IInv, NEW t \in Thread, Moves(t), Running(t),
           t \in Caller => /\ thread[t].at \notin {"idle", "notify", "done"}
                           /\ thread[t].at = "send" => agent.running
                           /\ thread'[t].at \notin {"idle", "notify", "done"},
           closer' = closer, lock'.threads = lock.threads, acceptor' = acceptor,
           agent'.inflight = agent.inflight, agent'.running = agent.running
    PROVE  ShutdownWaits'
<1>1. Inflight' = Inflight
  BY DEF Inflight, Moves, Thread
<1>2. CASE t \in Caller
  <2>1. closer.at \notin {"joinIo", "join", "done"}
    BY <1>2 DEF IInv, ShutdownWaits
  <2>. QED  BY <1>1, <2>1 DEF IInv, ShutdownWaits
<1>3. CASE t \in Conn
  <2>1. closer.at # "done"
    BY <1>3 DEF IInv, ShutdownWaits, Running
  <2>2. \A k \in Caller : thread'[k] = thread[k]
    BY <1>3, ThreadsAssumption DEF Moves, Thread
  <2>. QED  BY <1>1, <2>1, <2>2 DEF IInv, ShutdownWaits
<1>. QED  BY <1>2, <1>3 DEF Thread

(* connections_mutex_ stays as it is. *)
LEMMA LockKept ==
    ASSUME IInv, acceptor' = acceptor, lock'.connections = lock.connections, SameConns,
           agent'.inbound = agent.inbound \/ ~lock.connections
    PROVE  LockHeld'
  BY DEF IInv, LockHeld, Links, OwnersAreUnique, SameConns

(* A step of one thread that changes nothing but where it is. *)
LEMMA QuietMove ==
    ASSUME IInv, NEW t \in Thread, Moves(t), Running(t), Keeps(t), KnownThread(t)',
           UNCHANGED <<agent, conn, desc, call, acceptor, closer, env>>,
           lock' \in LockRec, lock'.threads = lock.threads, lock'.connections = lock.connections,
           thread[t].at \notin {"idle", "notify", "done", "send"},
           thread'[t].at \notin {"idle", "notify", "done", "send", "register", "publish", "close"}
    PROVE  IInv'
<1>1. Types'
  BY DEF IInv, Types, Moves
<1>2. SameStarts
  BY DEF SameStarts, Moves, Thread
<1>3. Calls'
  BY <1>2, CallsKept
<1>4. SameConns /\ SamePeers /\ SameMaps
  BY DEF SameConns, Used, SamePeers, SameMaps
<1>5. Links' /\ NumbersAreKept'
  BY <1>4, SocketsKept
<1>6. ShutdownWaits'
  BY ShutdownKept
<1>7. LockHeld'
  BY <1>4, LockKept
<1>. QED  BY <1>1, <1>3, <1>5, <1>6, <1>7 DEF IInv

(* Where PeerOf() is asked for there is a peer. *)
LEMMA PeerOfKnown ==
    ASSUME IInv, NEW t \in Thread, thread[t].at \in {"find", "dial"} \/ Owning(t)
    PROVE  PeerOf(t) \in Peer
<1>1. CASE Owning(t)
  BY <1>1 DEF IInv, Links, OwnersAreUnique, KnownConns, Owns
<1>2. CASE thread[t].at \in {"find", "dial"}
  <2>1. KnownThread(t)
    BY DEF IInv, Links, KnownThreads
  <2>. QED  BY <1>2, <2>1, TwoKinds DEF KnownThread, PeerOf, IInv, Links, KnownConns
<1>. QED  BY <1>1, <1>2

(* Looking for a connection. *)
LEMMA FindStep ==
    ASSUME IInv, NEW t \in Thread, Find(t)
    PROVE  IInv'
<1>1. /\ Types /\ thread[t].at = "find" /\ KnownThread(t) /\ Running(t)
      /\ UNCHANGED <<agent, lock, conn, desc, call, acceptor, closer, env>>
  BY DEF IInv, Find, At, Links, KnownThreads, Running
<1>. PICK n \in Fd \cup {None} : n = agent.connections[PeerOf(t)]
  BY <1>1, PeerOfKnown DEF Types, AgentRec
<1>2. lock' \in LockRec /\ lock'.threads = lock.threads /\ lock'.connections = lock.connections
  BY <1>1 DEF Types
<1>3. CASE n = None
  <2>1. Moves(t) /\ thread'[t].at = "dial" /\ thread'[t].job = thread[t].job
        /\ thread'[t].sock = thread[t].sock
    BY <1>1, <1>3, ToFacts DEF Find, Places
  <2>2. Keeps(t) /\ KnownThread(t)'
    BY <1>1, <2>1 DEF Keeps, Owning, KnownThread, Used
  <2>. QED  BY <1>1, <1>2, <2>1, <2>2, QuietMove
<1>4. CASE n # None
  <2>1. Write(t, Frame(t), n) /\ Frame(t) \in {"request", "reply"} /\ n \in Fd
    BY <1>4 DEF Find, Frame
  <2>2. Moves(t) /\ thread'[t].at = "write" /\ thread'[t].job \in {"request", "reply"}
        /\ thread'[t].sock = thread[t].sock /\ thread'[t].fd = n
    BY <1>1, <2>1, WriteFacts
  <2>3. Keeps(t) /\ KnownThread(t)'
    BY <1>1, <2>1, <2>2 DEF Keeps, Owning, KnownThread, Used
  <2>. QED  BY <1>1, <1>2, <2>2, <2>3, QuietMove
<1>. QED  BY <1>3, <1>4

(* Nobody could be dialled. *)
LEMMA DialFailsStep ==
    ASSUME IInv, NEW t \in Thread, DialFails(t)
    PROVE  IInv'
<1>1. /\ Types /\ thread[t].at = "dial" /\ Failed(t) \in {"fail", "top"} /\ KnownThread(t)
      /\ UNCHANGED <<agent, lock, conn, desc, call, acceptor, closer, env>> /\ Running(t)
  BY DEF IInv, DialFails, At, Failed, Links, KnownThreads, Running
<1>2. /\ Moves(t) /\ thread'[t].at \in {"fail", "top"} /\ thread'[t].job = None
      /\ lock' \in LockRec
  BY <1>1, RestFacts DEF DialFails, Places, Types
<1>3. Keeps(t) /\ KnownThread(t)'
  BY <1>1, <1>2, NoneAssumption DEF Keeps, Owning, KnownThread, Used
<1>. QED  BY <1>1, <1>2, <1>3, QuietMove

(* A frame is written, or not. *)
LEMMA WriteEnds ==
    ASSUME IInv, NEW t \in Thread, thread[t].at \in {"write", "locked"},
           Go(t, WriteFailed(t)) \/ Go(t, WriteDone(t)),
           UNCHANGED <<agent, conn, desc, call, acceptor, closer, env>>,
           lock' \in LockRec, lock'.threads = lock.threads, lock'.connections = lock.connections
    PROVE  IInv'
<1>1. Types /\ thread[t] \in ThreadRec /\ KnownThread(t) /\ Running(t)
  BY DEF IInv, Types, Links, KnownThreads, Running
<1>2. PICK a \in {"unhello", "find", "fail", "top", "spawn", "wait"} :
         /\ Go(t, a)
         /\ a \in {"unhello", "spawn"} => thread[t].job = "hello"
         /\ a = "find" => thread[t].job = "answer"
  BY <1>1 DEF WriteFailed, WriteDone, Failed
<1>3. /\ Moves(t) /\ thread'[t].at = a
      /\ \/ /\ a \in {"spawn", "unhello", "find"}
            /\ thread'[t].job = thread[t].job /\ thread'[t].fd = thread[t].fd
            /\ thread'[t].sock = thread[t].sock
         \/ a \notin {"spawn", "unhello", "find"} /\ thread'[t].job = None
  BY <1>1, <1>2, GoFacts DEF Places
<1>4. Keeps(t)
  BY <1>2, <1>3 DEF Keeps, Owning
<1>5. KnownThread(t)'
  BY <1>1, <1>2, <1>3, NoneAssumption DEF KnownThread, Used
<1>. QED  BY <1>1, <1>2, <1>3, <1>4, <1>5, QuietMove

(* The write mutex is looked up, ... *)
LEMMA LookUpMutexStep ==
    ASSUME IInv, NEW t \in Thread, LookUpMutex(t)
    PROVE  IInv'
<1>1. /\ Types /\ thread[t].at = "write" /\ KnownThread(t) /\ Running(t)
      /\ UNCHANGED <<agent, lock, conn, desc, call, acceptor, closer, env>>
      /\ lock' \in LockRec
  BY DEF IInv, LookUpMutex, At, Types, Links, KnownThreads, Running
<1>2. CASE Go(t, WriteFailed(t))
  BY <1>1, <1>2, WriteEnds
<1>3. CASE thread' = [thread EXCEPT ![t].at = "queue", ![t].mtx = agent.mutexes[thread[t].fd]]
  <2>1. thread \in [Thread -> ThreadRec] /\ agent.mutexes[thread[t].fd] \in Conn \cup {None}
    BY <1>1 DEF Types, KnownThread, AgentRec
  <2>2. Moves(t) /\ thread'[t].at = "queue" /\ thread'[t].job = thread[t].job
        /\ thread'[t].fd = thread[t].fd /\ thread'[t].sock = thread[t].sock
    <3>1. thread'[t] = [at |-> "queue", job |-> thread[t].job, fd |-> thread[t].fd,
                        mtx |-> agent.mutexes[thread[t].fd], sock |-> thread[t].sock]
      BY <1>3, <2>1 DEF ThreadRec
    <3>2. \A s \in Thread : s # t => thread'[s] = thread[s]
      BY <1>3, <2>1
    <3>3. thread'[t] \in ThreadRec
      BY <2>1, <3>1 DEF ThreadRec, Places
    <3>. QED  BY <1>3, <2>1, <3>1, <3>2, <3>3 DEF Moves
  <2>3. Keeps(t) /\ KnownThread(t)'
    BY <1>1, <2>2 DEF Keeps, Owning, KnownThread, Used
  <2>. QED  BY <1>1, <2>2, <2>3, QuietMove
<1>. QED  BY <1>2, <1>3 DEF LookUpMutex

(* ... taken, ... *)
LEMMA LockWriterStep ==
    ASSUME IInv, NEW t \in Thread, LockWriter(t)
    PROVE  IInv'
<1>1. /\ Types /\ thread[t].at = "queue" /\ KnownThread(t) /\ Running(t)
      /\ UNCHANGED <<agent, conn, desc, call, acceptor, closer, env>>
      /\ lock' = [lock EXCEPT !.writer[thread[t].mtx] = t]
  BY DEF IInv, LockWriter, At, Links, KnownThreads, Running
<1>2. lock' \in LockRec /\ lock'.threads = lock.threads /\ lock'.connections = lock.connections
  BY <1>1 DEF Types, LockRec
<1>3. /\ Moves(t) /\ thread'[t].at = "locked" /\ thread'[t].job = thread[t].job
      /\ thread'[t].fd = thread[t].fd /\ thread'[t].sock = thread[t].sock
  BY <1>1, ToFacts DEF Places, LockWriter
<1>4. Keeps(t) /\ KnownThread(t)'
  BY <1>1, <1>3 DEF Keeps, Owning, KnownThread, Used
<1>. QED  BY <1>1, <1>2, <1>3, <1>4, QuietMove

(* ... and given back, the frame written or not. *)
LEMMA SendFramedStep ==
    ASSUME IInv, NEW t \in Thread, SendFramed(t)
    PROVE  IInv'
<1>1. /\ Types /\ thread[t].at = "locked"
      /\ UNCHANGED <<agent, conn, desc, call, acceptor, closer, env>>
      /\ lock' = [lock EXCEPT !.writer[thread[t].mtx] = None]
  BY DEF IInv, SendFramed, At
<1>2. lock' \in LockRec /\ lock'.threads = lock.threads /\ lock'.connections = lock.connections
  BY <1>1 DEF Types, LockRec
<1>3. Go(t, WriteFailed(t)) \/ Go(t, WriteDone(t))
  BY DEF SendFramed
<1>. QED  BY <1>1, <1>2, <1>3, WriteEnds

(* The receive loop looks at running_, reads, and meets the end of its     *)
(* stream.                                                                 *)
LEMMA LoopStep ==
    ASSUME IInv, NEW c \in Conn, LoopTop(c) \/ BeginRead(c) \/ EndOfStream(c)
    PROVE  IInv'
<1>1. /\ Types /\ c \in Thread /\ c \notin Caller /\ thread[c].at \in {"top", "recv", "reading"}
      /\ UNCHANGED <<agent, lock, conn, desc, call, acceptor, closer, env>>
      /\ KnownThread(c) /\ Running(c) /\ lock' \in LockRec
  BY TwoKinds DEF IInv, LoopTop, BeginRead, EndOfStream, At, Thread, Types, Links, KnownThreads, Running
<1>2. CASE To(c, "recv") \/ To(c, "cleanup") \/ Rest(c, "cleanup")
  <2>1. Moves(c) /\ thread'[c].at \in {"recv", "cleanup"}
    BY <1>1, <1>2, ToFacts, RestFacts DEF Places
  <2>2. Keeps(c) /\ KnownThread(c)'
    BY <1>1, <2>1 DEF Keeps, Owning, KnownThread, Used
  <2>. QED  BY <1>1, <2>1, <2>2, QuietMove
<1>3. CASE BeginRead(c) /\ ~To(c, "cleanup")
  <2>. DEFINE h == desc.holder[conn[c].fd]
  <2>1. h # None /\ thread' = [thread EXCEPT ![c].at = "reading", ![c].sock = h]
    BY <1>3 DEF BeginRead
  <2>2. conn[c].fd \in Fd /\ h \in Conn /\ Used(h)
    BY <1>1, <2>1 DEF KnownThread, IInv, Links, KnownConns, Types, DescRec
  <2>. HIDE DEF h
  <2>3. Moves(c) /\ thread'[c].at = "reading" /\ thread'[c].sock = h
    <3>1. thread'[c] = [at |-> "reading", job |-> thread[c].job, fd |-> thread[c].fd,
                        mtx |-> thread[c].mtx, sock |-> h]
      BY <1>1, <2>1 DEF Types, ThreadRec
    <3>2. \A s \in Thread : s # c => thread'[s] = thread[s]
      BY <1>1, <2>1 DEF Types
    <3>3. thread'[c] \in ThreadRec
      BY <1>1, <2>2, <3>1 DEF Types, ThreadRec, Places
    <3>. QED  BY <1>1, <2>1, <3>1, <3>2, <3>3 DEF Types, Moves
  <2>4. Keeps(c) /\ KnownThread(c)'
    BY <1>1, <2>2, <2>3 DEF Keeps, Owning, KnownThread, Used
  <2>. QED  BY <1>1, <2>3, <2>4, QuietMove
<1>. QED  BY <1>2, <1>3 DEF LoopTop, BeginRead, EndOfStream
-----------------------------------------------------------------------------
(* A call goes on, and keeps away from the connections. *)
LEMMA CallerLinks ==
    ASSUME IInv, NEW k \in Caller, Moves(k),
           thread'[k].at \in {"send", "register", "dispatch", "find", "wait", "notify", "done"},
           thread'[k].job # "answer", call'[k].peer \in Peer \cup {Self},
           thread'[k].at = "find" => call'[k].peer \in Peer,
           UNCHANGED <<conn, desc, acceptor>>, closer'.fds = closer.fds, SameMaps, SamePeers
    PROVE  Links' /\ NumbersAreKept'
<1>1. k \in Thread /\ k \notin Conn
  BY TwoKinds DEF Thread
<1>2. Keeps(k) /\ Running(k) /\ KnownThread(k)'
  BY <1>1 DEF Keeps, Owning, Running, KnownThread
<1>3. SameConns
  BY DEF SameConns, Used
<1>. QED  BY <1>1, <1>2, <1>3, SocketsKept

(* A call begins, and counts as in flight. *)
LEMMA CallStarts ==
    ASSUME IInv, NEW k \in Caller, Call(k)
    PROVE  IInv'
<1>1. /\ Types /\ k \in Thread /\ k \notin Conn /\ thread[k].at = "idle" /\ KnownThread(k)
      /\ agent' = [agent EXCEPT !.inflight = @ + 1]
      /\ UNCHANGED <<lock, conn, desc, acceptor, closer, env>> /\ To(k, "send")
  BY TwoKinds DEF IInv, Call, At, Thread, Links, KnownThreads
<1>2. /\ Moves(k) /\ thread'[k].at = "send" /\ thread'[k].job # "answer"
  BY <1>1, ToFacts DEF Places, KnownThread
<1>. PICK p \in Peer \cup {Self} : call' = [call EXCEPT ![k].peer = p]
  BY <1>1 DEF Call, Types, Scenario
<1>3. /\ call' \in [Caller -> CallRec] /\ \A j \in Caller : j # k => call'[j] = call[j]
      /\ call'[k].peer = p /\ call'[k].id = call[k].id /\ call'[k].promise = call[k].promise
      /\ call'[k].result = call[k].result
  BY <1>1 DEF Types, CallRec
<1>4. /\ agent' \in AgentRec /\ agent'.inflight = agent.inflight + 1 /\ SameMaps
      /\ agent'.running = agent.running /\ agent'.nextId = agent.nextId
  BY <1>1 DEF Types, AgentRec, SameMaps
<1>5. Types'
  BY <1>1, <1>2, <1>3, <1>4 DEF Types, Moves
<1>6. Calls'
  <2>1. \A j \in Caller : /\ call'[j].id = call[j].id
                          /\ call'[j].promise \in {None, "error", j}
                          /\ call'[j].result \in {None, "error", j}
    BY <1>3 DEF IInv, Calls, PromisesMatch
  <2>2. SameStarts
    BY <1>1, <1>2 DEF Moves, Thread, SameStarts
  <2>. QED  BY <1>1, <1>4, <2>1, <2>2, CallsKeepIds
<1>7. Links' /\ NumbersAreKept'
  <2>1. SamePeers
    BY <1>1, <1>3 DEF SamePeers
  <2>. QED  BY <1>1, <1>2, <1>3, <1>4, <2>1, CallerLinks
<1>8. ShutdownWaits'
  <2>1. Inflight' = Inflight \cup {k} /\ k \notin Inflight
    BY <1>1, <1>2 DEF Inflight, Moves, Thread
  <2>2. IsFiniteSet(Inflight) /\ agent.inflight = Cardinality(Inflight)
    BY DEF IInv, ShutdownWaits
  <2>3. IsFiniteSet(Inflight') /\ agent'.inflight = Cardinality(Inflight')
    BY <1>4, <2>1, <2>2, FS_AddElement
  <2>4. \A s \in Thread : s # k => thread'[s] = thread[s]
    BY <1>2 DEF Moves
  <2>. QED  BY <1>1, <1>2, <1>4, <2>3, <2>4 DEF IInv, ShutdownWaits, Thread
<1>9. LockHeld'
  BY <1>1, <1>4, LockKept DEF SameConns, Used, SameMaps
<1>. QED  BY <1>5, <1>6, <1>7, <1>8, <1>9 DEF IInv

(* A callback runs, and the call is in flight no longer. *)
LEMMA FinishStep ==
    ASSUME IInv, NEW k \in Caller, thread[k].at \notin {"idle", "notify", "done"},
           NEW what \in {None, "error", k}, NEW pending \in SUBSET Nat, Finish(k, what, pending)
    PROVE  IInv'
<1>1. /\ Types /\ k \in Thread /\ k \notin Conn /\ KnownThread(k)
      /\ agent' = [agent EXCEPT !.pending = pending, !.inflight = @ - 1]
      /\ call' = [call EXCEPT ![k].result = what]
      /\ UNCHANGED <<lock, conn, desc, acceptor, closer, env>>
  BY TwoKinds DEF IInv, Finish, Thread, Links, KnownThreads
<1>2. Moves(k) /\ thread'[k].at = "notify" /\ thread'[k].job # "answer"
  BY <1>1, RestFacts, NoneAssumption DEF Places, Finish
<1>3. /\ call' \in [Caller -> CallRec] /\ \A j \in Caller : j # k => call'[j] = call[j]
      /\ call'[k].peer = call[k].peer /\ call'[k].id = call[k].id
      /\ call'[k].promise = call[k].promise /\ call'[k].result = what
  BY <1>1 DEF Types, CallRec
<1>4. /\ Inflight' = Inflight \ {k} /\ k \in Inflight
      /\ IsFiniteSet(Inflight) /\ agent.inflight = Cardinality(Inflight)
  BY <1>1, <1>2 DEF Inflight, Moves, Thread, IInv, ShutdownWaits
<1>5. IsFiniteSet(Inflight') /\ Cardinality(Inflight') = agent.inflight - 1
      /\ Cardinality(Inflight') \in Nat
  BY <1>4, FS_RemoveElement, FS_CardinalityType
<1>6. /\ agent' \in AgentRec /\ agent'.inflight = agent.inflight - 1 /\ SameMaps
      /\ agent'.running = agent.running /\ agent'.nextId = agent.nextId
  BY <1>1, <1>5 DEF Types, AgentRec, SameMaps
<1>7. Types'
  BY <1>1, <1>2, <1>3, <1>6 DEF Types, Moves
<1>8. Calls'
  <2>1. \A j \in Caller : /\ call'[j].id = call[j].id
                          /\ call'[j].promise \in {None, "error", j}
                          /\ call'[j].result \in {None, "error", j}
    BY <1>3 DEF IInv, Calls, PromisesMatch
  <2>2. SameStarts
    BY <1>2 DEF Moves, Thread, SameStarts
  <2>. QED  BY <1>1, <1>6, <2>1, <2>2, CallsKeepIds
<1>9. Links' /\ NumbersAreKept'
  <2>1. SamePeers /\ call'[k].peer \in Peer \cup {Self}
    BY <1>1, <1>3 DEF SamePeers, KnownThread
  <2>. QED  BY <1>1, <1>2, <1>6, <2>1, CallerLinks
<1>10. ShutdownWaits'
  <2>1. \A s \in Thread : s # k => thread'[s] = thread[s]
    BY <1>2 DEF Moves
  <2>. QED  BY <1>1, <1>2, <1>5, <1>6, <2>1 DEF IInv, ShutdownWaits, Thread
<1>11. LockHeld'
  BY <1>1, <1>6, LockKept DEF SameConns, Used, SameMaps
<1>. QED  BY <1>7, <1>8, <1>9, <1>10, <1>11 DEF IInv

(* notify_all() wakes shutdown(), which looks at the count again. *)
LEMMA NotifyStep ==
    ASSUME IInv, NEW k \in Caller, Notify(k)
    PROVE  IInv'
<1>1. /\ Types /\ k \in Thread /\ k \notin Conn /\ KnownThread(k) /\ thread[k].at = "notify"
      /\ closer' = [closer EXCEPT !.at = IF @ = "asleep" THEN "drain" ELSE @]
      /\ UNCHANGED <<agent, lock, conn, desc, call, acceptor, env>>
  BY TwoKinds DEF IInv, Notify, At, Thread, Links, KnownThreads
<1>2. Moves(k) /\ thread'[k].at = "done" /\ thread'[k].job # "answer"
  BY <1>1, ToFacts DEF Places, Notify, KnownThread
<1>3. /\ closer' \in CloserRec /\ closer'.fds = closer.fds
      /\ closer'.at = closer.at \/ (closer.at = "asleep" /\ closer'.at = "drain")
  BY <1>1 DEF Types, CloserRec
<1>4. Types'
  BY <1>1, <1>2, <1>3 DEF Types, Moves
<1>5. SameStarts
  BY <1>2 DEF Moves, Thread, SameStarts
<1>6. Calls'
  BY <1>1, <1>5, CallsKept
<1>7. Links' /\ NumbersAreKept'
  <2>1. SamePeers /\ SameMaps /\ call'[k].peer \in Peer \cup {Self}
    BY <1>1 DEF SamePeers, SameMaps, KnownThread
  <2>. QED  BY <1>1, <1>2, <1>3, <2>1, CallerLinks
<1>8. ShutdownWaits'
  <2>1. \A s \in Thread : s # k => thread'[s] = thread[s]
    BY <1>2 DEF Moves
  <2>2. Inflight' = Inflight
    BY <1>1, <1>2, <2>1 DEF Inflight, Thread
  <2>. QED  BY <1>1, <1>2, <1>3, <2>1, <2>2 DEF IInv, ShutdownWaits, Thread
<1>9. LockHeld'
  BY <1>1, LockKept DEF SameConns, Used
<1>. QED  BY <1>4, <1>6, <1>7, <1>8, <1>9 DEF IInv

(* A new request id is nobody's. *)
LEMMA SendStep ==
    ASSUME IInv, NEW k \in Caller, Send(k)
    PROVE  IInv'
<1>1. /\ Types /\ k \in Thread /\ k \notin Conn /\ thread[k].at = "send" /\ call[k].id = -1
      /\ KnownThread(k)
  BY TwoKinds DEF IInv, Send, At, Thread, Calls, IdsAreUnique, Started, Links, KnownThreads
<1>2. CASE Finish(k, "error", agent.pending)
  <2>1. agent.pending \in SUBSET Nat
    BY <1>1 DEF Types, AgentRec
  <2>. QED  BY <1>1, <1>2, <2>1, FinishStep
<1>3. CASE /\ agent.running
           /\ To(k, "register")
           /\ call' = [call EXCEPT ![k].id = agent.nextId]
           /\ agent' = [agent EXCEPT !.nextId = @ + 1]
           /\ UNCHANGED <<lock, conn, desc, acceptor, closer, env>>
  <2>1. Moves(k) /\ thread'[k].at = "register" /\ thread'[k].job # "answer"
    BY <1>1, <1>3, ToFacts DEF Places, KnownThread
  <2>2. /\ call' \in [Caller -> CallRec] /\ \A j \in Caller : j # k => call'[j] = call[j]
        /\ call'[k].peer = call[k].peer /\ call'[k].id = agent.nextId
        /\ call'[k].promise = call[k].promise /\ call'[k].result = call[k].result
        /\ agent.nextId \in Nat
    BY <1>1, <1>3 DEF Types, CallRec, AgentRec
  <2>3. /\ agent' \in AgentRec /\ agent'.nextId = agent.nextId + 1 /\ SameMaps
        /\ agent'.running = agent.running /\ agent'.inflight = agent.inflight
    <3>1. agent \in AgentRec /\ agent.nextId + 1 \in Nat
      BY <1>1, <2>2 DEF Types
    <3>. QED  BY <1>3, <3>1 DEF AgentRec, SameMaps
  <2>4. Types'
    BY <1>1, <1>3, <2>1, <2>2, <2>3 DEF Types, Moves
  <2>5. IdsAreUnique'
    <3>1. \A j \in Caller : call[j].id < agent.nextId /\ call[j].id \in Nat \cup {-1}
      BY <1>1 DEF IInv, Calls, IdsAreUnique, Types, CallRec
    <3>2. \A j \in Caller : j # k => call'[j] = call[j] /\ thread'[j] = thread[j]
      BY <2>1, <2>2 DEF Moves, Thread
    <3>3. \A j \in Caller : call'[j].id < agent'.nextId /\ (~Started(j)' => call'[j].id = -1)
                            /\ (thread'[j].at = "register" => call'[j].id # -1)
      BY <2>1, <2>2, <2>3, <3>1, <3>2 DEF IInv, Calls, IdsAreUnique, Started
    <3>4. ASSUME NEW i \in Caller, NEW j \in Caller, call'[i].id = call'[j].id, call'[i].id # -1
          PROVE  i = j
      <4>1. CASE i = k \/ j = k
        BY <2>2, <3>1, <3>2, <3>4, <4>1
      <4>2. CASE i # k /\ j # k
        BY <3>2, <3>4, <4>2 DEF IInv, Calls, IdsAreUnique
      <4>. QED  BY <4>1, <4>2
    <3>. QED  BY <3>3, <3>4 DEF IdsAreUnique
  <2>6. AnswersCarryIds'
    <3>1. \A c \in Conn : \A m \in conn[c].inbox :
             m.kind = "response" => m.body \in Caller /\ m.id \in Nat /\ call[m.body].id = m.id
      BY <1>1 DEF Types, ConnRec, Msg, IInv, Calls, AnswersCarryIds
    <3>. QED  BY <1>1, <1>3, <2>2, <3>1 DEF AnswersCarryIds
  <2>7. PromisesMatch'
    BY <2>2 DEF IInv, Calls, PromisesMatch
  <2>8. Links' /\ NumbersAreKept'
    <3>1. SamePeers /\ call'[k].peer \in Peer \cup {Self}
      BY <1>1, <2>2 DEF SamePeers, KnownThread
    <3>. QED  BY <1>3, <2>1, <2>3, <3>1, CallerLinks
  <2>9. Running(k)
    BY <1>1 DEF Running
  <2>10. ShutdownWaits'
    BY <1>1, <1>3, <2>1, <2>3, <2>9, ShutdownKept
  <2>11. LockHeld'
    BY <1>3, <2>3, LockKept DEF SameConns, Used, SameMaps
  <2>. QED  BY <2>4, <2>5, <2>6, <2>7, <2>8, <2>10, <2>11 DEF IInv, Calls
<1>. QED  BY <1>2, <1>3 DEF Send

(* The request becomes pending. *)
LEMMA RegisterStep ==
    ASSUME IInv, NEW k \in Caller, Register(k)
    PROVE  IInv'
<1>1. /\ Types /\ k \in Thread /\ k \notin Conn /\ thread[k].at = "register" /\ KnownThread(k)
      /\ UNCHANGED <<lock, conn, desc, call, acceptor, closer, env>>
      /\ agent' = [agent EXCEPT !.pending = @ \cup {call[k].id}]
  BY TwoKinds DEF IInv, Register, At, Thread, Links, KnownThreads
<1>2. call[k].id \in Nat /\ call[k].peer \in Peer \cup {Self}
  BY <1>1 DEF IInv, Calls, IdsAreUnique, Types, CallRec, KnownThread
<1>3. /\ Moves(k) /\ thread'[k].at \in {"dispatch", "find"} /\ thread'[k].job # "answer"
      /\ thread'[k].at = "find" => call[k].peer # Self
  BY <1>1, ToFacts DEF Places, Register, KnownThread
<1>4. /\ agent' \in AgentRec /\ agent'.nextId = agent.nextId /\ SameMaps
      /\ agent'.running = agent.running /\ agent'.inflight = agent.inflight
  BY <1>1, <1>2 DEF Types, AgentRec, SameMaps
<1>5. Types'
  BY <1>1, <1>3, <1>4 DEF Types, Moves
<1>6. SameStarts
  BY <1>3 DEF Moves, Thread, SameStarts
<1>7. Calls'
  BY <1>1, <1>4, <1>6, CallsKept
<1>8. Links' /\ NumbersAreKept'
  <2>1. SamePeers
    BY <1>1 DEF SamePeers
  <2>. QED  BY <1>1, <1>2, <1>3, <1>4, <2>1, CallerLinks
<1>9. Running(k)
  BY <1>1 DEF Running
<1>10. ShutdownWaits'
  BY <1>1, <1>3, <1>4, <1>9, ShutdownKept
<1>11. LockHeld'
  BY <1>1, <1>4, LockKept DEF SameConns, Used, SameMaps
<1>. QED  BY <1>5, <1>7, <1>8, <1>10, <1>11 DEF IInv

(* A promise is given only what answers its own request. *)
LEMMA DeliverFacts ==
    ASSUME IInv, NEW m, m.id \in Nat \cup {-1}, m.body \in Caller, call[m.body].id = m.id, Deliver(m)
    PROVE  /\ call' \in [Caller -> CallRec] /\ agent' \in AgentRec
           /\ \A k \in Caller : /\ call'[k].id = call[k].id /\ call'[k].peer = call[k].peer
                                /\ call'[k].promise \in {call[k].promise, k}
                                /\ call'[k].result = call[k].result
           /\ SameMaps /\ agent'.running = agent.running
           /\ agent'.nextId = agent.nextId /\ agent'.inflight = agent.inflight
<1>1. Types
  BY DEF IInv
<1>2. \A k \in Caller : m.id \in agent.pending /\ call[k].id = m.id => m.body = k
  BY <1>1 DEF Types, AgentRec, IInv, Calls, IdsAreUnique
<1>3. ASSUME NEW k \in Caller
      PROVE  /\ call'[k] \in CallRec /\ call'[k].id = call[k].id /\ call'[k].peer = call[k].peer
             /\ call'[k].promise \in {call[k].promise, k} /\ call'[k].result = call[k].result
  <2>1. call[k] \in CallRec
    BY <1>1 DEF Types
  <2>2. call'[k] = IF m.id \in agent.pending /\ call[k].id = m.id
                   THEN [call[k] EXCEPT !.promise = m.body] ELSE call[k]
    BY DEF Deliver
  <2>. QED  BY <1>2, <2>1, <2>2 DEF CallRec
<1>4. call' \in [Caller -> CallRec]
  BY <1>3 DEF Deliver
<1>5. /\ agent' \in AgentRec /\ SameMaps /\ agent'.running = agent.running
      /\ agent'.nextId = agent.nextId /\ agent'.inflight = agent.inflight
  BY <1>1 DEF Types, AgentRec, Deliver, SameMaps
<1>. QED  BY <1>3, <1>4, <1>5

(* A call to this worker itself answers its own promise. *)
LEMMA SelfDispatchStep ==
    ASSUME IInv, NEW k \in Caller, SelfDispatch(k)
    PROVE  IInv'
<1>. DEFINE m == Response(call[k].id, k)
<1>1. /\ Types /\ k \in Thread /\ k \notin Conn /\ thread[k].at = "dispatch" /\ KnownThread(k)
      /\ UNCHANGED <<lock, conn, desc, acceptor, closer, env>> /\ Deliver(m)
  BY TwoKinds DEF IInv, SelfDispatch, At, Thread, Links, KnownThreads
<1>2. m.id = call[k].id /\ m.body = k /\ call[k].id \in Nat \cup {-1}
  BY <1>1 DEF Response, Types, CallRec
<1>. HIDE DEF m
<1>3. /\ call' \in [Caller -> CallRec] /\ agent' \in AgentRec
      /\ \A j \in Caller : /\ call'[j].id = call[j].id /\ call'[j].peer = call[j].peer
                           /\ call'[j].promise \in {call[j].promise, j}
                           /\ call'[j].result = call[j].result
      /\ SameMaps /\ agent'.running = agent.running
      /\ agent'.nextId = agent.nextId /\ agent'.inflight = agent.inflight
  BY <1>1, <1>2, DeliverFacts
<1>4. Moves(k) /\ thread'[k].at = "wait" /\ thread'[k].job # "answer"
  BY <1>1, ToFacts DEF Places, SelfDispatch, KnownThread
<1>5. Types'
  BY <1>1, <1>3, <1>4 DEF Types, Moves
<1>6. Calls'
  <2>1. \A j \in Caller : /\ call'[j].promise \in {None, "error", j}
                          /\ call'[j].result \in {None, "error", j}
    BY <1>3 DEF IInv, Calls, PromisesMatch
  <2>2. SameStarts
    BY <1>4 DEF Moves, Thread, SameStarts
  <2>. QED  BY <1>1, <1>3, <2>1, <2>2, CallsKeepIds
<1>7. Links' /\ NumbersAreKept'
  <2>1. SamePeers /\ call'[k].peer \in Peer \cup {Self}
    BY <1>1, <1>3 DEF SamePeers, KnownThread
  <2>. QED  BY <1>1, <1>3, <1>4, <2>1, CallerLinks
<1>8. Running(k)
  BY <1>1 DEF Running
<1>9. ShutdownWaits'
  BY <1>1, <1>3, <1>4, <1>8, ShutdownKept
<1>10. LockHeld'
  BY <1>1, <1>3, LockKept DEF SameConns, Used, SameMaps
<1>. QED  BY <1>5, <1>6, <1>7, <1>9, <1>10 DEF IInv

(* send() returns or gives up. *)
LEMMA SendEnds ==
    ASSUME IInv, NEW k \in Caller, Return(k) \/ SendFailed(k) \/ Timeout(k)
    PROVE  IInv'
<1>1. thread[k].at \in {"wait", "fail"} /\ call[k].promise \in {None, "error", k}
      /\ agent.pending \in SUBSET Nat
  BY DEF IInv, Calls, PromisesMatch, Types, AgentRec, Return, SendFailed, Timeout, At
<1>2. PICK what \in {None, "error", k}, pending \in SUBSET Nat : Finish(k, what, pending)
  BY <1>1 DEF Return, SendFailed, Timeout
<1>. QED  BY <1>1, <1>2, FinishStep

(* An answer is delivered, a request is handled, or a frame is garbled. *)
LEMMA ReceiveMsg ==
    ASSUME IInv, NEW c \in Conn, Receive(c)
    PROVE  IInv'
<1>1. /\ Types /\ c \in Thread /\ c \notin Caller /\ thread[c].at = "reading" /\ KnownThread(c)
      /\ UNCHANGED <<lock, desc, acceptor, closer, env>>
      /\ thread[c].sock \in Conn /\ Used(thread[c].sock) /\ Used(c) /\ conn[c].fd \in Fd
  BY TwoKinds DEF IInv, Receive, At, Thread, Links, KnownThreads, KnownThread, KnownConns
<1>2. PICK m \in conn[thread[c].sock].inbox :
         /\ conn' = [conn EXCEPT ![thread[c].sock].inbox = @ \ {m}]
         /\ \/ m.kind = "response" /\ Rest(c, "top") /\ Deliver(m)
            \/ m.kind = "request" /\ Write(c, "answer", conn[c].fd) /\ UNCHANGED <<agent, call>>
            \/ Rest(c, "cleanup") /\ UNCHANGED <<agent, call>>
  BY DEF Receive
<1>3. /\ conn' \in [Conn -> ConnRec] /\ SameConns
      /\ \A d \in Conn : conn'[d].inbox \subseteq conn[d].inbox
  BY <1>1, <1>2 DEF Types, ConnRec, SameConns, Used
<1>4. m.kind = "response" => m.id \in Nat /\ m.body \in Caller /\ call[m.body].id = m.id
  BY <1>1 DEF Types, ConnRec, Msg, IInv, Calls, AnswersCarryIds
<1>5. /\ Moves(c) /\ thread'[c].at \in {"top", "write", "cleanup"}
      /\ thread'[c].at = "write" => /\ thread'[c].job = "answer" /\ thread'[c].fd \in Fd
                                    /\ thread'[c].sock = thread[c].sock
  BY <1>1, <1>2, RestFacts, WriteFacts DEF Places
<1>6. /\ call' \in [Caller -> CallRec] /\ agent' \in AgentRec
      /\ \A j \in Caller : /\ call'[j].id = call[j].id /\ call'[j].peer = call[j].peer
                           /\ call'[j].promise \in {call[j].promise, j}
                           /\ call'[j].result = call[j].result
      /\ SameMaps /\ agent'.running = agent.running
      /\ agent'.nextId = agent.nextId /\ agent'.inflight = agent.inflight
  <2>1. CASE Deliver(m) /\ m.kind = "response"
    BY <1>4, <2>1, DeliverFacts
  <2>2. CASE UNCHANGED <<agent, call>>
    BY <1>1, <2>2 DEF Types, SameMaps
  <2>. QED  BY <1>2, <2>1, <2>2
<1>7. Types'
  BY <1>1, <1>3, <1>5, <1>6 DEF Types, Moves
<1>8. Calls'
  <2>1. \A j \in Caller : /\ call'[j].promise \in {None, "error", j}
                          /\ call'[j].result \in {None, "error", j}
    BY <1>6 DEF IInv, Calls, PromisesMatch
  <2>2. SameStarts
    BY <1>1, <1>5 DEF Moves, Thread, SameStarts
  <2>. QED  BY <1>3, <1>6, <2>1, <2>2, CallsKeepIds
<1>9. Keeps(c) /\ Running(c) /\ KnownThread(c)'
  BY <1>1, <1>3, <1>5 DEF Keeps, Owning, Running, KnownThread, SameConns
<1>10. Links' /\ NumbersAreKept'
  <2>1. SamePeers
    BY <1>6 DEF SamePeers
  <2>. QED  BY <1>1, <1>3, <1>5, <1>6, <1>9, <2>1, SocketsKept
<1>11. ShutdownWaits'
  BY <1>1, <1>5, <1>6, <1>9, ShutdownKept
<1>12. LockHeld'
  BY <1>1, <1>3, <1>6, LockKept DEF SameMaps
<1>. QED  BY <1>7, <1>8, <1>10, <1>11, <1>12 DEF IInv
-----------------------------------------------------------------------------
(* ::close(): whatever the number stood for, it stands for nothing. *)
LEMMA CloseFacts ==
    ASSUME IInv, NEW n \in Fd, NEW shutdown \in BOOLEAN, Close(n, shutdown)
    PROVE  /\ conn' \in [Conn -> ConnRec] /\ desc' \in DescRec /\ SameConns
           /\ \A c \in Conn : conn'[c].inbox \subseteq conn[c].inbox
           /\ desc'.aliased = desc.aliased /\ desc'.holder[n] = None
           /\ \A m \in Fd : m # n => desc'.holder[m] = desc.holder[m]
<1>1. conn \in [Conn -> ConnRec] /\ desc \in DescRec /\ desc' = [desc EXCEPT !.holder[n] = None]
  BY DEF IInv, Types, Close
<1>2. /\ desc' \in DescRec /\ desc'.aliased = desc.aliased /\ desc'.holder[n] = None
      /\ \A m \in Fd : m # n => desc'.holder[m] = desc.holder[m]
  BY <1>1 DEF DescRec
<1>3. ASSUME NEW c \in Conn
      PROVE  /\ conn'[c] \in ConnRec /\ conn'[c].inbox \subseteq conn[c].inbox
             /\ conn'[c].peer = conn[c].peer /\ conn'[c].fd = conn[c].fd
             /\ Used(c)' <=> Used(c)
  <2>1. c = desc.holder[n] => Used(c)
    BY NoneAssumption DEF IInv, Links, KnownConns
  <2>2. conn'[c] \in {conn[c], [conn[c] EXCEPT !.state = "shut", !.inbox = {}],
                      [conn[c] EXCEPT !.state = "shut"]}
        /\ (conn'[c] # conn[c] => c = desc.holder[n])
    <3>1. conn'[c] = IF c # desc.holder[n] THEN conn[c]
                     ELSE IF Reading(c) = {} THEN [conn[c] EXCEPT !.state = "shut", !.inbox = {}]
                     ELSE [conn[c] EXCEPT !.state = IF shutdown THEN "shut" ELSE @]
      BY DEF Close
    <3>2. [conn[c] EXCEPT !.state = IF shutdown THEN "shut" ELSE @]
             \in {conn[c], [conn[c] EXCEPT !.state = "shut"]}
      BY <1>1 DEF ConnRec
    <3>. QED  BY <3>1, <3>2
  <2>. QED  BY <1>1, <2>1, <2>2 DEF ConnRec, Used
<1>4. conn' \in [Conn -> ConnRec]
  BY <1>3 DEF Close
<1>. QED  BY <1>2, <1>3, <1>4 DEF SameConns

(* A connection to be published has an owner, and no running thread. *)
LEMMA UnpublishedFacts ==
    ASSUME IInv, NEW c \in Conn, Unpublished(c)
    PROVE  (Owned(c) \/ acceptor.conn = c) /\ thread[c].at = "idle" /\ Live(c) /\ Used(c)
<1>1. Owned(c) \/ acceptor.conn = c
  BY DEF Unpublished, Owned, Owns, Owning
<1>. QED  BY <1>1 DEF Owned, Live, IInv, Links, OwnersAreUnique

(* No number in a map, or to be published, waits to be closed. *)
LEMMA NotClosing ==
    ASSUME IInv, NEW n \in Fd \ desc.aliased, Closing(n)
    PROVE  ~InMaps(n) /\ \A c \in Conn : conn[c].fd = n => ~Unpublished(c)
  BY DEF IInv, NumbersAreKept, OpenInMaps, OpenUntilPublished

(* A thread forgets or closes one number, which is in no map after that    *)
(* and not to be published.                                                *)
LEMMA ReleaseMove ==
    ASSUME IInv, NEW t \in Thread, Moves(t), SameConns, SamePeers, Keeps(t), Running(t),
           thread'[t].at \notin {"idle", "publish"}, KnownThread(t)', acceptor' = acceptor,
           closer'.fds = closer.fds, desc'.aliased = desc.aliased,
           NEW n \in Fd,
           \A p \in Peer : /\ agent'.connections[p] \in {agent.connections[p], None}
                           /\ agent'.inbound[p] \in {agent.inbound[p], None},
           \A m \in Fd : m # n => /\ desc'.holder[m] = desc.holder[m]
                                  /\ agent'.mutexes[m] = agent.mutexes[m],
           desc'.holder[n] \in {desc.holder[n], None},
           n \in desc.aliased \/ ~InMaps(n)',
           n \in desc.aliased \/ desc'.holder[n] = desc.holder[n]
               \/ \A c \in Conn : conn[c].fd = n => ~Unpublished(c)',
           thread'[t].at = "close" => conn[t].fd = n
    PROVE  Links' /\ NumbersAreKept'
<1>1. KnownThreads' /\ OwnersAreUnique' /\ LivesShrink
  BY MoveFacts
<1>2. KnownConns'
  BY ConnsKept
<1>3. \A m \in Fd \ desc.aliased : NumberShrinks(m)
  <2>1. \A m \in Fd : InMaps(m)' => InMaps(m)
    BY NoneAssumption DEF InMaps, Fd, Conn
  <2>2. \A m \in Fd : Closing(m)' <=> Closing(m)
    BY DEF Closing
  <2>3. ASSUME NEW m \in Fd \ desc.aliased, InMaps(m)'
        PROVE  /\ desc'.holder[m] = desc.holder[m] /\ agent'.mutexes[m] = agent.mutexes[m]
               /\ ~Closing(m)'
               /\ thread'[desc.holder[m]].at = "close" => thread[desc.holder[m]].at = "close"
    <3>1. m # n /\ InMaps(m)
      BY <2>1, <2>3
    <3>2. desc.holder[m] \in Conn /\ conn[desc.holder[m]].fd = m
      BY <3>1 DEF IInv, NumbersAreKept, OpenInMaps, Types, DescRec, Links, KnownConns
    <3>3. desc.holder[m] \in Thread
      BY <3>2 DEF Thread
    <3>. QED  BY <2>2, <3>1, <3>2, <3>3, NotClosing DEF Moves
  <2>4. ASSUME NEW m \in Fd \ desc.aliased, NEW c \in Conn, Unpublished(c)', conn[c].fd = m
        PROVE  desc'.holder[m] = desc.holder[m] /\ ~Closing(m)'
    <3>1. Unpublished(c)
      BY <1>1, <2>4 DEF LivesShrink
    <3>. QED  BY <2>2, <2>4, <3>1, NotClosing
  <2>5. \A m \in Fd : m # None
    BY NoneAssumption DEF Fd, Conn
  <2>. QED  BY <2>3, <2>4, <2>5 DEF NumberShrinks
<1>4. NumbersAreKept'
  BY <1>1, <1>3, NumbersKept
<1>. QED  BY <1>1, <1>2, <1>4 DEF Links

(* A receive thread takes its number out of every map before it closes it. *)
LEMMA CleanupStep ==
    ASSUME IInv, NEW c \in Conn, Cleanup(c)
    PROVE  IInv'
<1>1. /\ Types /\ c \in Thread /\ c \notin Caller /\ thread[c].at = "cleanup" /\ KnownThread(c)
      /\ UNCHANGED <<lock, conn, desc, call, acceptor, closer, env>>
      /\ Used(c) /\ conn[c].fd \in Fd /\ conn[c].peer \in Peer
  BY TwoKinds DEF IInv, Cleanup, CleansUp, At, Thread, Links, KnownThreads, KnownThread, KnownConns
<1>. PICK n \in Fd : n = conn[c].fd
  BY <1>1
<1>. PICK p \in Peer : p = conn[c].peer
  BY <1>1
<1>2. /\ agent' = [agent EXCEPT !.inbound = Forget(@, p, n), !.connections = Forget(@, p, n),
                                !.mutexes[n] = None]
      /\ thread' = [thread EXCEPT ![c].at = IF agent.mutexes[n] = None THEN "exited" ELSE "close",
                                  ![c].mtx = agent.mutexes[n]]
  BY DEF Cleanup, CleansUp
<1>3. /\ agent' \in AgentRec /\ agent'.running = agent.running /\ agent'.nextId = agent.nextId
      /\ agent'.inflight = agent.inflight
      /\ agent'.connections = Forget(agent.connections, p, n)
      /\ agent'.inbound = Forget(agent.inbound, p, n)
      /\ \A m \in Fd : m # n => agent'.mutexes[m] = agent.mutexes[m]
  BY <1>1, <1>2 DEF Types, AgentRec, Forget
<1>4. \A q \in Peer :
         /\ agent'.connections[q] = IF q = p /\ agent.connections[q] = n THEN None
                                    ELSE agent.connections[q]
         /\ agent'.inbound[q] = IF q = p /\ agent.inbound[q] = n THEN None ELSE agent.inbound[q]
  BY <1>1, <1>3 DEF Forget, Types, AgentRec
<1>5. Moves(c) /\ thread'[c].at \in {"exited", "close"}
  <2>1. agent.mutexes[n] \in Conn \cup {None} /\ thread \in [Thread -> ThreadRec]
    BY <1>1 DEF Types, AgentRec
  <2>2. PICK a \in {"exited", "close"} :
           thread' = [thread EXCEPT ![c].at = a, ![c].mtx = agent.mutexes[n]]
    BY <1>2
  <2>3. thread'[c] = [at |-> a, job |-> thread[c].job, fd |-> thread[c].fd,
                      mtx |-> agent.mutexes[n], sock |-> thread[c].sock]
    BY <1>1, <2>1, <2>2 DEF ThreadRec
  <2>4. \A s \in Thread : s # c => thread'[s] = thread[s]
    BY <1>1, <2>1, <2>2
  <2>5. thread'[c] \in ThreadRec
    BY <1>1, <2>1, <2>3 DEF ThreadRec, Places
  <2>. QED  BY <1>1, <2>1, <2>2, <2>3, <2>4, <2>5 DEF Moves
<1>6. Types'
  BY <1>1, <1>3, <1>5 DEF Types, Moves
<1>7. SameStarts
  BY <1>1, <1>5 DEF SameStarts, Moves, Thread
<1>8. Calls'
  BY <1>1, <1>3, <1>7, CallsKept
<1>9. SameConns /\ SamePeers /\ Running(c) /\ Keeps(c) /\ KnownThread(c)'
  BY <1>1, <1>5 DEF SameConns, Used, SamePeers, Running, Keeps, Owning, KnownThread
<1>10. n \in desc.aliased \/ ~InMaps(n)'
  <2>. SUFFICES ASSUME n \notin desc.aliased, NEW q \in Peer,
                       agent'.connections[q] = n \/ agent'.inbound[q] = n
                PROVE  FALSE
    BY DEF InMaps
  <2>1. n # None /\ OneUser(n) /\ OpenInMaps(n)
    BY <1>1, NoneAssumption DEF Fd, Conn, IInv, NumbersAreKept
  <2>2. agent.connections[q] = n \/ agent.inbound[q] = n
    BY <1>4, <2>1
  <2>3. Live(c)
    BY <1>1 DEF Live
  <2>4. desc.holder[n] = c
    BY <2>1, <2>2, <2>3 DEF OneUser, OpenInMaps, InMaps
  <2>5. q = p
    BY <2>1, <2>2, <2>4 DEF OpenInMaps
  <2>. QED  BY <1>4, <2>1, <2>5
<1>11. Links' /\ NumbersAreKept'
  <2>1. \A q \in Peer : /\ agent'.connections[q] \in {agent.connections[q], None}
                        /\ agent'.inbound[q] \in {agent.inbound[q], None}
    BY <1>4
  <2>. QED  BY <1>1, <1>3, <1>5, <1>9, <1>10, <2>1, ReleaseMove
<1>12. ShutdownWaits'
  BY <1>1, <1>3, <1>5, <1>9, ShutdownKept
<1>13. LockHeld'
  BY <1>1, <1>9, LockKept DEF Cleanup, CleansUp
<1>. QED  BY <1>6, <1>8, <1>11, <1>12, <1>13 DEF IInv

(* Then it closes it. *)
LEMMA CloseOwnStep ==
    ASSUME IInv, NEW c \in Conn, CloseOwn(c)
    PROVE  IInv'
<1>1. /\ Types /\ c \in Thread /\ c \notin Caller /\ thread[c].at = "close" /\ KnownThread(c)
      /\ UNCHANGED <<agent, lock, call, acceptor, closer, env>>
      /\ Used(c) /\ conn[c].fd \in Fd /\ Close(conn[c].fd, TRUE) /\ Rest(c, "exited")
  BY TwoKinds DEF IInv, CloseOwn, At, Thread, Links, KnownThreads, KnownThread, KnownConns
<1>. PICK n \in Fd : n = conn[c].fd
  BY <1>1
<1>2. /\ conn' \in [Conn -> ConnRec] /\ desc' \in DescRec /\ SameConns
      /\ \A d \in Conn : conn'[d].inbox \subseteq conn[d].inbox
      /\ desc'.aliased = desc.aliased /\ desc'.holder[n] = None
      /\ \A m \in Fd : m # n => desc'.holder[m] = desc.holder[m]
  BY <1>1, CloseFacts
<1>3. Moves(c) /\ thread'[c].at = "exited"
  BY <1>1, RestFacts DEF Places
<1>4. Types'
  BY <1>1, <1>2, <1>3 DEF Types, Moves
<1>5. SameStarts
  BY <1>1, <1>3 DEF SameStarts, Moves, Thread
<1>6. Calls'
  BY <1>1, <1>2, <1>5, CallsKept
<1>7. SamePeers /\ Running(c) /\ Keeps(c) /\ KnownThread(c)'
  BY <1>1, <1>2, <1>3 DEF SameConns, SamePeers, Running, Keeps, Owning, KnownThread
<1>8. ASSUME n \notin desc.aliased
      PROVE  ~InMaps(n)' /\ \A d \in Conn : conn[d].fd = n => ~Unpublished(d)'
  <2>1. OneUser(n) /\ OpenInMaps(n) /\ OpenUntilPublished(n) /\ Live(c)
    BY <1>1, <1>8 DEF IInv, NumbersAreKept, Live
  <2>2. ~InMaps(n)
    BY <1>1, <2>1 DEF OneUser, OpenInMaps
  <2>3. ASSUME NEW d \in Conn, conn[d].fd = n, Unpublished(d)
        PROVE  FALSE
    <3>1. desc.holder[n] = d /\ thread[d].at = "idle"
      BY <2>1, <2>3, UnpublishedFacts DEF OpenUntilPublished
    <3>. QED  BY <1>1, <2>1, <3>1, NoneAssumption DEF OneUser
  <2>4. LivesShrink
    BY <1>1, <1>2, <1>3, <1>7, MoveFacts
  <2>. QED  BY <1>1, <2>2, <2>3, <2>4 DEF InMaps, LivesShrink
<1>9. Links' /\ NumbersAreKept'
  BY <1>1, <1>2, <1>3, <1>7, <1>8, ReleaseMove
<1>10. ShutdownWaits'
  BY <1>1, <1>3, <1>7, ShutdownKept
<1>11. LockHeld'
  BY <1>1, <1>2, LockKept
<1>. QED  BY <1>4, <1>6, <1>9, <1>10, <1>11 DEF IInv
-----------------------------------------------------------------------------
(* What the owner of a connection knows of it. *)
LEMMA OwnerFacts ==
    ASSUME IInv, NEW t \in Thread, Owning(t)
    PROVE  \E c \in Conn : \E n \in Fd : \E p \in Peer :
              /\ thread[t].sock = c /\ thread[t].fd = n /\ PeerOf(t) = p
              /\ conn[c].fd = n /\ conn[c].peer = p
              /\ Used(c) /\ Owned(c) /\ Live(c) /\ thread[c].at = "idle" /\ acceptor.conn # c
              /\ \A s \in Thread : Owns(s, c) => s = t
<1>1. thread[t].sock \in Conn /\ Owns(t, thread[t].sock)
  BY DEF IInv, Links, OwnersAreUnique, Owns
<1>. PICK c \in Conn : c = thread[t].sock
  BY <1>1
<1>2. /\ Used(c) /\ conn[c].peer = PeerOf(t) /\ conn[c].fd = thread[t].fd
      /\ thread[c].at = "idle" /\ acceptor.conn # c
      /\ \A s \in Thread : Owns(s, c) => s = t
  BY <1>1 DEF IInv, Links, OwnersAreUnique
<1>3. conn[c].peer \in Peer /\ conn[c].fd \in Fd
  BY <1>2 DEF IInv, Links, KnownConns
<1>4. Owned(c) /\ Live(c)
  BY <1>1 DEF Owned, Live
<1>. QED  BY <1>2, <1>3, <1>4

(* The hello was not sent: the entry goes, and the number. *)
LEMMA HelloFailedStep ==
    ASSUME IInv, NEW t \in Thread, HelloFailed(t)
    PROVE  IInv'
<1>1. /\ Types /\ thread[t].at = "unhello" /\ KnownThread(t) /\ Owning(t)
      /\ UNCHANGED <<lock, call, acceptor, closer, env>>
      /\ Rest(t, Failed(t)) /\ Failed(t) \in {"fail", "top"}
  BY DEF IInv, HelloFailed, At, Owning, Links, KnownThreads, Failed
<1>2. PICK c \in Conn : \E n \in Fd : \E p \in Peer :
              /\ thread[t].sock = c /\ thread[t].fd = n /\ PeerOf(t) = p
              /\ conn[c].fd = n /\ conn[c].peer = p
              /\ Used(c) /\ Owned(c) /\ Live(c) /\ thread[c].at = "idle" /\ acceptor.conn # c
              /\ \A s \in Thread : Owns(s, c) => s = t
  BY <1>1, OwnerFacts
<1>. PICK n \in Fd : n = thread[t].fd /\ n = conn[c].fd
  BY <1>2
<1>. PICK p \in Peer : p = PeerOf(t) /\ p = conn[c].peer
  BY <1>2
<1>3. /\ agent' = [agent EXCEPT !.connections[p] = None, !.mutexes[n] = None]
      /\ Close(n, FALSE)
  BY DEF HelloFailed
<1>4. /\ agent' \in AgentRec /\ agent'.running = agent.running /\ agent'.nextId = agent.nextId
      /\ agent'.inflight = agent.inflight /\ agent'.inbound = agent.inbound
      /\ agent'.connections[p] = None
      /\ \A q \in Peer : q # p => agent'.connections[q] = agent.connections[q]
      /\ \A m \in Fd : m # n => agent'.mutexes[m] = agent.mutexes[m]
  BY <1>1, <1>3 DEF Types, AgentRec
<1>5. /\ conn' \in [Conn -> ConnRec] /\ desc' \in DescRec /\ SameConns
      /\ \A d \in Conn : conn'[d].inbox \subseteq conn[d].inbox
      /\ desc'.aliased = desc.aliased /\ desc'.holder[n] = None
      /\ \A m \in Fd : m # n => desc'.holder[m] = desc.holder[m]
  BY <1>3, CloseFacts
<1>6. Moves(t) /\ thread'[t].at \in {"fail", "top"} /\ thread'[t].job = None
  BY <1>1, RestFacts DEF Places
<1>7. Types'
  BY <1>1, <1>4, <1>5, <1>6 DEF Types, Moves
<1>8. SameStarts
  BY <1>6 DEF SameStarts, Moves, Thread
<1>9. Calls'
  BY <1>1, <1>4, <1>5, <1>8, CallsKept
<1>10. SamePeers /\ Running(t) /\ Keeps(t) /\ KnownThread(t)'
  BY <1>1, <1>5, <1>6, NoneAssumption DEF SameConns, SamePeers, Running, Keeps, Owning, KnownThread
<1>11. ASSUME n \notin desc.aliased
       PROVE  ~InMaps(n)' /\ \A d \in Conn : conn[d].fd = n => ~Unpublished(d)'
  <2>1. OneUser(n) /\ OpenInMaps(n) /\ OpenUntilPublished(n) /\ n # None
    BY <1>11, NoneAssumption DEF IInv, NumbersAreKept, Fd, Conn
  <2>2. InMaps(n) => desc.holder[n] = c
    BY <1>2, <2>1 DEF OneUser, OpenInMaps
  <2>3. ~InMaps(n)'
    BY <1>2, <1>4, <2>1, <2>2 DEF InMaps, OpenInMaps
  <2>4. ASSUME NEW d \in Conn, conn[d].fd = n, Unpublished(d)
        PROVE  FALSE
    <3>1. d = c
      BY <1>2, <2>1, <2>4, NoneAssumption DEF OpenUntilPublished, OneUser
    <3>2. PICK s \in Thread : thread[s].at = "publish" /\ thread[s].sock = c
      BY <1>2, <2>4, <3>1 DEF Unpublished
    <3>. QED  BY <1>1, <1>2, <3>2 DEF Owns, Owning
  <2>5. LivesShrink
    BY <1>1, <1>5, <1>6, <1>10, MoveFacts
  <2>. QED  BY <2>3, <2>4, <2>5 DEF LivesShrink
<1>12. Links' /\ NumbersAreKept'
  <2>1. \A q \in Peer : /\ agent'.connections[q] \in {agent.connections[q], None}
                        /\ agent'.inbound[q] \in {agent.inbound[q], None}
    BY <1>4
  <2>. QED  BY <1>1, <1>4, <1>5, <1>6, <1>10, <1>11, <2>1, ReleaseMove
<1>13. ShutdownWaits'
  BY <1>1, <1>4, <1>6, <1>10, ShutdownKept
<1>14. LockHeld'
  BY <1>1, <1>4, <1>5, LockKept
<1>. QED  BY <1>7, <1>9, <1>12, <1>13, <1>14 DEF IInv

(* A connection is published under its peer, in one of the maps. *)
LEMMA PublishedNumbers ==
    ASSUME IInv, SameConns, LivesShrink, desc'.aliased = desc.aliased,
           NEW c \in Conn, NEW m \in Fd, conn[c].fd = m, Unpublished(c), ~Unpublished(c)',
           \A n \in Fd \ desc.aliased : n # m => NumberShrinks(n),
           m \notin desc.aliased => desc'.holder[m] = desc.holder[m],
           agent'.mutexes[m] = c, thread'[c].at # "close", closer'.fds = closer.fds,
           \A p \in Peer : /\ agent'.connections[p] = m => agent.connections[p] = m \/ p = conn[c].peer
                           /\ agent'.inbound[p] = m =>
                                 agent.inbound[p] = m \/ (p = conn[c].peer /\ ~Owned(c)'),
           agent'.connections = agent.connections \/ agent'.inbound = agent.inbound
    PROVE  NumbersAreKept'
<1>1. \A n \in Fd \ desc.aliased : n # m => OneUser(n)' /\ OpenUntilPublished(n)' /\ OpenInMaps(n)'
  BY NumberKept
<1>2. ASSUME m \notin desc.aliased
      PROVE  OneUser(m)' /\ OpenUntilPublished(m)' /\ OpenInMaps(m)'
  <2>1. OneUser(m) /\ OpenUntilPublished(m)
    BY <1>2 DEF IInv, NumbersAreKept
  <2>2. /\ desc.holder[m] = c /\ desc'.holder[m] = c /\ ~InMaps(m) /\ ~Closing(m) /\ ~Closing(m)'
        /\ c # None
    BY <1>2, <2>1, NoneAssumption DEF OpenUntilPublished, Closing
  <2>3. OneUser(m)'
    BY <2>1, <2>2 DEF OneUser, LivesShrink, SameConns
  <2>4. OpenUntilPublished(m)'
    BY <2>1, <2>2 DEF OpenUntilPublished, LivesShrink, SameConns
  <2>5. \A p \in Peer : /\ agent'.connections[p] = m => p = conn'[c].peer
                        /\ agent'.inbound[p] = m =>
                              p = conn'[c].peer /\ ~Owned(c)' /\ agent'.connections[p] # m
    BY <2>2 DEF InMaps, SameConns
  <2>6. ~Owned(c)' => ~Owned(desc.holder[m])'
    BY <2>2 DEF Owned, Owns
  <2>7. OpenInMaps(m)'
    BY <2>2, <2>5, <2>6 DEF OpenInMaps
  <2>. QED  BY <2>3, <2>4, <2>7
<1>. QED  BY <1>1, <1>2 DEF NumbersAreKept

(* The connection dialled is published, or closed for one that came first. *)
LEMMA PublishStep ==
    ASSUME IInv, NEW t \in Thread, Publish(t)
    PROVE  IInv'
<1>1. /\ Types /\ thread[t].at = "publish" /\ KnownThread(t) /\ Owning(t) /\ Running(t)
      /\ UNCHANGED <<lock, call, acceptor, closer, env>>
  BY DEF IInv, Publish, At, Owning, Links, KnownThreads, Running
<1>2. PICK c \in Conn : \E n \in Fd : \E p \in Peer :
              /\ thread[t].sock = c /\ thread[t].fd = n /\ PeerOf(t) = p
              /\ conn[c].fd = n /\ conn[c].peer = p
              /\ Used(c) /\ Owned(c) /\ Live(c) /\ thread[c].at = "idle" /\ acceptor.conn # c
              /\ \A s \in Thread : Owns(s, c) => s = t
  BY <1>1, OwnerFacts
<1>. PICK n \in Fd : n = thread[t].fd /\ n = conn[c].fd
  BY <1>2
<1>. PICK p \in Peer : p = PeerOf(t) /\ p = conn[c].peer
  BY <1>2
<1>3. Unpublished(c) /\ SamePeers
  BY <1>1, <1>2 DEF Unpublished, SamePeers
<1>4. thread'[t].at # "publish" /\ Moves(t) => ~Unpublished(c)'
  <2>1. \A s \in Thread : thread[s].at = "publish" /\ thread[s].sock = c => s = t
    BY <1>2 DEF Owns, Owning
  <2>. QED  BY <1>1, <1>2, <2>1 DEF Unpublished, Moves
<1>5. CASE /\ agent.connections[p] # None /\ Close(n, FALSE)
           /\ Write(t, Frame(t), agent.connections[p]) /\ UNCHANGED agent
  <2>1. /\ conn' \in [Conn -> ConnRec] /\ desc' \in DescRec /\ SameConns
        /\ \A d \in Conn : conn'[d].inbox \subseteq conn[d].inbox
        /\ desc'.aliased = desc.aliased /\ desc'.holder[n] = None
        /\ \A m \in Fd : m # n => desc'.holder[m] = desc.holder[m]
    BY <1>5, CloseFacts
  <2>2. agent.connections[p] \in Fd /\ Frame(t) \in {"request", "reply"}
    BY <1>1, <1>5 DEF Types, AgentRec, Frame
  <2>3. /\ Moves(t) /\ thread'[t].at = "write" /\ thread'[t].job \in {"request", "reply"}
        /\ thread'[t].sock = thread[t].sock /\ thread'[t].fd \in Fd
    BY <1>1, <1>5, <2>2, WriteFacts
  <2>4. Types'
    BY <1>1, <1>5, <2>1, <2>3 DEF Types, Moves
  <2>5. SameStarts
    BY <2>3 DEF SameStarts, Moves, Thread
  <2>6. Calls'
    BY <1>1, <1>5, <2>1, <2>5, CallsKept
  <2>7. Keeps(t) /\ KnownThread(t)'
    BY <1>1, <1>2, <2>1, <2>3 DEF SameConns, Keeps, Owning, KnownThread
  <2>8. ASSUME n \notin desc.aliased
        PROVE  ~InMaps(n)' /\ \A d \in Conn : conn[d].fd = n => ~Unpublished(d)'
    <3>1. OpenUntilPublished(n)
      BY <2>8 DEF IInv, NumbersAreKept
    <3>2. desc.holder[n] = c /\ ~InMaps(n)
      BY <1>3, <3>1 DEF OpenUntilPublished
    <3>3. LivesShrink
      BY <1>1, <1>3, <2>1, <2>3, <2>7, MoveFacts
    <3>. QED  BY <1>4, <1>5, <2>3, <3>1, <3>2, <3>3 DEF InMaps, LivesShrink, OpenUntilPublished
  <2>9. Links' /\ NumbersAreKept'
    BY <1>1, <1>3, <1>5, <2>1, <2>3, <2>7, <2>8, ReleaseMove
  <2>10. ShutdownWaits'
    BY <1>1, <1>5, <2>3, ShutdownKept
  <2>11. LockHeld'
    BY <1>1, <1>5, <2>1, LockKept
  <2>. QED  BY <2>4, <2>6, <2>9, <2>10, <2>11 DEF IInv
<1>6. CASE /\ agent' = [agent EXCEPT !.connections[p] = n, !.mutexes[n] = c]
           /\ Write(t, "hello", n) /\ UNCHANGED <<conn, desc>>
  <2>1. /\ agent' \in AgentRec /\ agent'.running = agent.running /\ agent'.nextId = agent.nextId
        /\ agent'.inflight = agent.inflight /\ agent'.inbound = agent.inbound
        /\ agent'.connections[p] = n /\ agent'.mutexes[n] = c
        /\ \A q \in Peer : q # p => agent'.connections[q] = agent.connections[q]
        /\ \A m \in Fd : m # n => agent'.mutexes[m] = agent.mutexes[m]
    BY <1>1, <1>6 DEF Types, AgentRec
  <2>2. /\ Moves(t) /\ thread'[t].at = "write" /\ thread'[t].job = "hello"
        /\ thread'[t].sock = thread[t].sock /\ thread'[t].fd = n
    BY <1>1, <1>6, WriteFacts
  <2>3. Types'
    BY <1>1, <1>6, <2>1, <2>2 DEF Types, Moves
  <2>4. SameStarts
    BY <2>2 DEF SameStarts, Moves, Thread
  <2>5. Calls'
    BY <1>1, <1>6, <2>1, <2>4, CallsKept
  <2>6. Keeps(t) /\ KnownThread(t)' /\ SameConns
    BY <1>1, <1>2, <1>6, <2>2 DEF SameConns, Used, Keeps, Owning, KnownThread
  <2>7. KnownThreads' /\ OwnersAreUnique' /\ LivesShrink
    BY <1>1, <1>3, <2>2, <2>6, MoveFacts
  <2>8. KnownConns'
    BY <1>6, <2>6, ConnsKept
  <2>9. ASSUME NEW m \in Fd \ desc.aliased, m # n
        PROVE  NumberShrinks(m)
    <3>1. /\ \A q \in Peer : /\ agent'.connections[q] = m => agent.connections[q] = m
                             /\ agent'.inbound[q] = m => agent.inbound[q] = m
          /\ agent'.mutexes[m] = agent.mutexes[m] /\ (Closing(m)' <=> Closing(m))
      BY <1>1, <2>1, <2>9 DEF Closing
    <3>2. InMaps(m)' => InMaps(m)
      BY <3>1 DEF InMaps
    <3>3. InMaps(m) => desc.holder[m] \in Thread
      BY DEF IInv, NumbersAreKept, OpenInMaps, Types, DescRec, Thread
    <3>4. InMaps(m)' => ~Closing(m)
      BY <3>2, NotClosing
    <3>5. \A d \in Conn : Unpublished(d)' /\ conn[d].fd = m => ~Closing(m)
      BY <2>7, NotClosing DEF LivesShrink
    <3>. QED  BY <1>6, <2>2, <3>1, <3>2, <3>3, <3>4, <3>5 DEF NumberShrinks, Moves
  <2>10. thread'[c].at # "close"
    BY <1>1, <1>2, <2>2 DEF Moves, Thread
  <2>11. ~Unpublished(c)'
    BY <1>4, <2>2
  <2>12. NumbersAreKept'
    BY <1>1, <1>2, <1>3, <1>6, <2>1, <2>6, <2>7, <2>9, <2>10, <2>11, PublishedNumbers
  <2>13. ShutdownWaits'
    BY <1>1, <1>6, <2>1, <2>2, ShutdownKept
  <2>14. LockHeld'
    BY <1>1, <2>1, <2>6, LockKept
  <2>. QED  BY <2>3, <2>5, <2>7, <2>8, <2>12, <2>13, <2>14 DEF IInv, Links
<1>. QED  BY <1>2, <1>5, <1>6 DEF Publish
-----------------------------------------------------------------------------
(* A receive thread starts, for a connection that had an owner until now. *)
LEMMA ReceiverStarts ==
    ASSUME IInv, NEW c \in Conn, Owned(c) \/ acceptor.conn = c, thread[c].at = "idle",
           thread' \in [Thread -> ThreadRec], thread'[c].at = "top", ~Owned(c)',
           acceptor'.conn \in {acceptor.conn, None}, acceptor'.conn # c,
           acceptor'.at \in {acceptor.at, "accept"},
           acceptor'.at # "accept" => acceptor'.conn = acceptor.conn,
           \A s \in Thread : s # c =>
              \/ thread'[s] = thread[s]
              \/ /\ thread'[s].at \notin {"idle", "send", "register", "publish", "close"}
                 /\ ~Owning(s)' /\ Running(s),
           UNCHANGED <<agent, conn, desc, call>>, closer'.fds = closer.fds,
           KnownThreads'
    PROVE  Links' /\ NumbersAreKept' /\ Calls'
<1>1. c \in Thread /\ ~Owning(c)' /\ c \notin Caller
  BY TwoKinds DEF Owning, Thread
<1>2. SameConns /\ SamePeers
  BY DEF SameConns, Used, SamePeers
<1>3. ASSUME NEW s \in Thread, Owning(s)'
      PROVE  Owning(s) /\ PeerOf(s)' = PeerOf(s) /\ thread'[s] = thread[s]
  <2>1. thread'[s] = thread[s] /\ Owning(s)
    BY <1>1, <1>3 DEF Owning
  <2>. QED  BY <2>1 DEF PeerOf
<1>4. \A d \in Conn : Owned(d)' => Owned(d)
  BY <1>3 DEF Owned, Owns
<1>5. SameOwners
  <2>1. ASSUME NEW d \in Conn, Owned(d)' \/ acceptor'.conn = d
        PROVE  thread'[d].at = thread[d].at
    <3>1. d # c /\ (Owned(d) \/ acceptor.conn = d) /\ d \in Thread
      BY <1>4, <2>1, NoneAssumption DEF Thread
    <3>2. thread[d].at = "idle"
      BY <3>1 DEF Owned, IInv, Links, OwnersAreUnique
    <3>. QED  BY <3>1, <3>2 DEF Running
  <2>2. acceptor'.at \in {"register", "supersede", "spawn"} => acceptor'.conn \in Conn
    BY DEF IInv, Links, OwnersAreUnique
  <2>. QED  BY <1>3, <2>1, <2>2 DEF SameOwners
<1>6. OwnersAreUnique'
  BY <1>2, <1>5, OwnersKept
<1>7. KnownConns'
  BY <1>2, ConnsKept
<1>8. LivesShrink
  <2>1. \A d \in Conn : Live(d)' => Live(d)
    BY <1>4, NoneAssumption DEF Live, Running, Thread
  <2>2. \A d \in Conn : Unpublished(d)' => Unpublished(d)
    BY <1>1, NoneAssumption DEF Unpublished
  <2>. QED  BY <1>4, <2>1, <2>2 DEF LivesShrink
<1>9. ASSUME NEW n \in Fd \ desc.aliased
      PROVE  NumberShrinks(n)
  <2>1. (InMaps(n)' <=> InMaps(n)) /\ (Closing(n)' <=> Closing(n))
    BY DEF InMaps, Closing
  <2>2. InMaps(n) => desc.holder[n] \in Thread
    BY DEF IInv, NumbersAreKept, OpenInMaps, Types, DescRec, Thread
  <2>3. \A d \in Conn : Unpublished(d)' /\ conn[d].fd = n => ~Closing(n)
    BY <1>8, NotClosing DEF LivesShrink
  <2>4. InMaps(n) => ~Closing(n)
    BY NotClosing
  <2>. QED  BY <2>1, <2>2, <2>3, <2>4 DEF NumberShrinks
<1>10. NumbersAreKept'
  BY <1>2, <1>8, <1>9, NumbersKept
<1>11. SameStarts
  BY <1>1 DEF SameStarts, Thread, IInv
<1>12. Calls'
  BY <1>11, CallsKept
<1>. QED  BY <1>6, <1>7, <1>10, <1>12 DEF Links

(* The thread that dialled starts the receive thread. *)
LEMMA SpawnStep ==
    ASSUME IInv, NEW t \in Thread, Spawn(t)
    PROVE  IInv'
<1>1. /\ Types /\ thread[t].at = "spawn" /\ KnownThread(t) /\ Owning(t) /\ Running(t)
      /\ UNCHANGED <<agent, lock, conn, desc, call, acceptor, closer, env>>
      /\ Frame(t) \in {"request", "reply"} /\ thread \in [Thread -> ThreadRec]
  BY DEF IInv, Spawn, At, Owning, Links, KnownThreads, Frame, Running, Types
<1>2. PICK c \in Conn : \E n \in Fd : \E p \in Peer :
              /\ thread[t].sock = c /\ thread[t].fd = n /\ PeerOf(t) = p
              /\ conn[c].fd = n /\ conn[c].peer = p
              /\ Used(c) /\ Owned(c) /\ Live(c) /\ thread[c].at = "idle" /\ acceptor.conn # c
              /\ \A s \in Thread : Owns(s, c) => s = t
  BY <1>1, OwnerFacts
<1>3. c \in Thread /\ c # t /\ thread[t].fd \in Fd /\ c \notin Caller
  BY <1>1, <1>2, TwoKinds DEF Thread
<1>4. thread' = [thread EXCEPT ![t].at = "write", ![t].job = Frame(t), ![c].at = "top"]
  BY <1>2 DEF Spawn
<1>5. /\ thread'[t] = [at |-> "write", job |-> Frame(t), fd |-> thread[t].fd,
                       mtx |-> thread[t].mtx, sock |-> thread[t].sock]
      /\ thread'[c] = [thread[c] EXCEPT !.at = "top"]
      /\ \A s \in Thread : s \notin {t, c} => thread'[s] = thread[s]
  BY <1>1, <1>3, <1>4 DEF ThreadRec
<1>6. thread'[t] \in ThreadRec /\ thread'[c] \in ThreadRec /\ thread'[c].at = "top"
  BY <1>1, <1>3, <1>5 DEF ThreadRec, Places
<1>7. thread' \in [Thread -> ThreadRec]
  BY <1>1, <1>4, <1>5, <1>6
<1>8. Types'
  BY <1>1, <1>7 DEF Types
<1>9. KnownThreads'
  <2>1. KnownThread(t)'
    BY <1>1, <1>2, <1>3, <1>5 DEF KnownThread, Used
  <2>2. KnownThread(c)'
    BY <1>1, <1>2, <1>3, <1>6 DEF KnownThread, Used
  <2>3. \A s \in Thread : s \notin {t, c} => KnownThread(s)'
    BY <1>1, <1>5 DEF IInv, Links, KnownThreads, KnownThread, Used
  <2>. QED  BY <2>1, <2>2, <2>3 DEF KnownThreads
<1>10. ~Owning(t)'
  BY <1>1, <1>5 DEF Owning
<1>11. ~Owned(c)'
  <2>1. \A s \in Thread : Owns(s, c)' => FALSE
    BY <1>2, <1>3, <1>5, <1>6, <1>10 DEF Owns, Owning
  <2>. QED  BY <2>1 DEF Owned
<1>12. Links' /\ NumbersAreKept' /\ Calls'
  <2>1. \A s \in Thread : s # c =>
              \/ thread'[s] = thread[s]
              \/ /\ thread'[s].at \notin {"idle", "send", "register", "publish", "close"}
                 /\ ~Owning(s)' /\ Running(s)
    BY <1>1, <1>5, <1>10
  <2>. QED  BY <1>1, <1>2, <1>6, <1>7, <1>9, <1>11, <2>1, ReceiverStarts
<1>13. ShutdownWaits'
  <2>1. Inflight' = Inflight
    BY <1>1, <1>3, <1>5 DEF Inflight, Thread
  <2>2. closer.at # "done"
    BY <1>1, TwoKinds DEF IInv, ShutdownWaits
  <2>3. t \in Caller => closer.at \notin {"joinIo", "join", "done"}
    BY <1>1 DEF IInv, ShutdownWaits
  <2>4. \A k \in Caller : k # t => thread'[k] = thread[k]
    BY <1>3, <1>5 DEF Thread
  <2>. QED  BY <1>1, <2>1, <2>2, <2>3, <2>4 DEF IInv, ShutdownWaits
<1>14. LockHeld'
  BY <1>1, LockKept DEF SameConns, Used
<1>. QED  BY <1>8, <1>12, <1>13, <1>14 DEF IInv

(* The accept thread starts one. *)
LEMMA SpawnReceiverStep ==
    ASSUME IInv, SpawnReceiver
    PROVE  IInv'
<1>1. /\ Types /\ acceptor.at = "spawn" /\ acceptor.conn \in Conn
      /\ acceptor' = [at |-> "accept", conn |-> None]
      /\ UNCHANGED <<agent, lock, conn, desc, call, closer, env>>
  BY DEF IInv, SpawnReceiver, Links, OwnersAreUnique
<1>. PICK c \in Conn : c = acceptor.conn
  BY <1>1
<1>2. c \in Thread /\ c \notin Caller /\ thread[c].at = "idle" /\ Used(c) /\ ~Owned(c)
  BY TwoKinds DEF Thread, Owned, IInv, Links, OwnersAreUnique
<1>3. Moves(c) /\ thread'[c].at = "top"
  BY <1>1, <1>2, ToFacts DEF SpawnReceiver, Places
<1>4. acceptor' \in AcceptorRec /\ acceptor'.conn = None /\ acceptor'.at = "accept" /\ None # c
  BY <1>1, NoneAssumption DEF AcceptorRec
<1>5. Types'
  BY <1>1, <1>3, <1>4 DEF Types, Moves
<1>6. KnownThreads'
  <2>1. KnownThread(c)'
    BY <1>1, <1>2, <1>3 DEF KnownThread, Used
  <2>2. \A s \in Thread : s # c => KnownThread(s)'
    BY <1>1, <1>3 DEF IInv, Links, KnownThreads, KnownThread, Used, Moves
  <2>. QED  BY <2>1, <2>2 DEF KnownThreads
<1>7. ~Owned(c)'
  BY <1>2, <1>3 DEF Owned, Owns, Owning, Moves
<1>8. Links' /\ NumbersAreKept' /\ Calls'
  BY <1>1, <1>2, <1>3, <1>4, <1>6, <1>7, ReceiverStarts DEF Moves
<1>9. ShutdownWaits'
  <2>1. \A k \in Caller : thread'[k] = thread[k]
    BY <1>2, <1>3 DEF Moves, Thread
  <2>2. Inflight' = Inflight
    BY <2>1 DEF Inflight
  <2>. QED  BY <1>1, <2>1, <2>2 DEF IInv, ShutdownWaits
<1>10. LockHeld'
  BY <1>1, <1>4 DEF IInv, LockHeld
<1>. QED  BY <1>5, <1>8, <1>9, <1>10 DEF IInv
-----------------------------------------------------------------------------
(* The connection c comes up, with the number n. *)
NewConnIs(c, p, n) ==
    /\ conn[c].state = "unused" /\ n \in Fd /\ desc.holder[n] = None
    /\ desc' = [holder |-> [desc.holder EXCEPT ![n] = c],
                aliased |-> IF InHand(n) THEN desc.aliased \cup {n} ELSE desc.aliased \ {n}]
    /\ conn' = [conn EXCEPT ![c] = [state |-> "open", peer |-> p, inbox |-> {}, fd |-> n]]

(* Nothing was known of it, and nothing else is changed. *)
LEMMA NewConnFacts ==
    ASSUME IInv, NEW c \in Conn, NEW p \in Peer, NEW n, NewConnIs(c, p, n)
    PROVE  /\ n \in Fd /\ conn' \in [Conn -> ConnRec] /\ desc' \in DescRec /\ KnownConns'
           /\ conn'[c].peer = p /\ conn'[c].fd = n /\ Used(c)' /\ ~Used(c)
           /\ \A d \in Conn : d # c => conn'[d] = conn[d]
           /\ \A d \in Conn : conn'[d].inbox \subseteq conn[d].inbox
           /\ \A d \in Conn : Used(d) => Used(d)'
           /\ desc'.holder[n] = c /\ \A m \in Fd : m # n => desc'.holder[m] = desc.holder[m]
           /\ \A m \in Fd : desc.holder[m] # c
           /\ thread[c].at = "idle" /\ acceptor.conn # c /\ ~Owned(c)
<1>. USE DEF NewConnIs
<1>1. conn \in [Conn -> ConnRec] /\ desc \in DescRec /\ n \in Fd
  BY DEF IInv, Types
<1>2. /\ conn' \in [Conn -> ConnRec]
      /\ conn'[c] = [state |-> "open", peer |-> p, inbox |-> {}, fd |-> n]
      /\ \A d \in Conn : d # c => conn'[d] = conn[d]
  <2>1. [state |-> "open", peer |-> p, inbox |-> {}, fd |-> n] \in ConnRec
    BY <1>1 DEF ConnRec
  <2>. QED  BY <1>1, <2>1
<1>3. conn'[c].peer = p /\ conn'[c].fd = n /\ Used(c)' /\ ~Used(c) /\ conn'[c].inbox = {}
  BY <1>2 DEF Used
<1>4. /\ desc' \in DescRec
      /\ desc'.holder[n] = c /\ \A m \in Fd : m # n => desc'.holder[m] = desc.holder[m]
  BY <1>1 DEF DescRec
<1>5. \A m \in Fd : desc.holder[m] # c
  BY <1>3, NoneAssumption DEF IInv, Links, KnownConns
<1>6. /\ thread[c].at = "idle" /\ acceptor.conn # c /\ ~Owned(c)
  <2>1. KnownThread(c)
    BY DEF IInv, Links, KnownThreads, Thread
  <2>. QED  BY <1>3, <2>1 DEF KnownThread, Owned, IInv, Links, OwnersAreUnique
<1>7. \A d \in Conn : Used(d) => Used(d)' /\ conn'[d] = conn[d]
  BY <1>2, <1>3 DEF Used
<1>8. KnownConns'
  <2>1. \A d \in Conn : Used(d)' => conn'[d].peer \in Peer /\ conn'[d].fd \in Fd
    BY <1>1, <1>2, <1>3 DEF IInv, Links, KnownConns, Used
  <2>2. ASSUME NEW m \in Fd, desc'.holder[m] # None
        PROVE  \E d \in Conn : desc'.holder[m] = d /\ Used(d)' /\ conn'[d].fd = m
    <3>1. CASE m = n
      BY <1>3, <1>4, <3>1
    <3>2. CASE m # n
      <4>1. desc.holder[m] \in Conn /\ desc'.holder[m] = desc.holder[m]
        BY <1>1, <1>4, <2>2, <3>2 DEF DescRec
      <4>. QED  BY <1>7, <2>2, <4>1 DEF IInv, Links, KnownConns
    <3>. QED  BY <3>1, <3>2
  <2>. QED  BY <2>1, <2>2 DEF KnownConns, Used
<1>. QED  BY <1>1, <1>2, <1>3, <1>4, <1>5, <1>6, <1>7, <1>8

(* Its number is its own, unless somebody had it in hand. *)
LEMMA NewNumbers ==
    ASSUME IInv, NEW c \in Conn, NEW p \in Peer, NEW n, NewConnIs(c, p, n),
           UNCHANGED <<agent, closer>>,
           \A d \in Conn : d # c => /\ Live(d)' => Live(d)
                                    /\ Owned(d)' => Owned(d)
                                    /\ Unpublished(d)' => Unpublished(d)
                                    /\ thread'[d].at = "close" => thread[d].at = "close"
    PROVE  NumbersAreKept'
<1>1. /\ n \in Fd /\ conn'[c].fd = n
      /\ \A d \in Conn : d # c => conn'[d] = conn[d]
      /\ desc'.holder[n] = c /\ \A m \in Fd : m # n => desc'.holder[m] = desc.holder[m]
      /\ \A m \in Fd : desc.holder[m] # c
  BY NewConnFacts
<1>2. desc'.aliased = IF InHand(n) THEN desc.aliased \cup {n} ELSE desc.aliased \ {n}
  BY DEF NewConnIs
<1>3. ASSUME NEW m \in Fd, m # n, m \notin desc'.aliased
      PROVE  OneUser(m)' /\ OpenUntilPublished(m)' /\ OpenInMaps(m)'
  <2>1. m \notin desc.aliased /\ desc'.holder[m] = desc.holder[m]
    BY <1>1, <1>2, <1>3
  <2>2. OneUser(m) /\ OpenUntilPublished(m) /\ OpenInMaps(m) /\ desc.holder[m] \in Conn \cup {None}
    BY <2>1 DEF IInv, NumbersAreKept, Types, DescRec
  <2>3. \A d \in Conn : conn'[d].fd = m => d # c /\ conn[d].fd = m
    BY <1>1, <1>3
  <2>4. (InMaps(m)' <=> InMaps(m)) /\ (Closing(m)' <=> Closing(m))
    BY DEF InMaps, Closing
  <2>5. OneUser(m)' /\ OpenUntilPublished(m)'
    BY <2>1, <2>2, <2>3, <2>4 DEF OneUser, OpenUntilPublished
  <2>6. CASE ~InMaps(m)
    BY <2>4, <2>5, <2>6 DEF OpenInMaps, InMaps
  <2>7. CASE InMaps(m)
    <3>. PICK h \in Conn : h = desc.holder[m]
      BY <2>2, <2>7 DEF OpenInMaps
    <3>1. h # c /\ conn'[h] = conn[h] /\ desc'.holder[m] = h
      BY <1>1, <2>1
    <3>2. ~Owned(h) => ~Owned(desc.holder[m])'
      BY <3>1 DEF Owned, Owns
    <3>3. thread'[h].at = "close" => thread[h].at = "close"
      BY <3>1
    <3>4. OpenInMaps(m)'
      BY <2>2, <2>4, <2>7, <3>1, <3>2, <3>3 DEF OpenInMaps
    <3>. QED  BY <2>5, <3>4
  <2>. QED  BY <2>6, <2>7
<1>4. ASSUME n \notin desc'.aliased
      PROVE  OneUser(n)' /\ OpenUntilPublished(n)' /\ OpenInMaps(n)'
  <2>1. ~InHand(n)
    BY <1>2, <1>4
  <2>2. ~InMaps(n) /\ ~Closing(n) /\ ~InMaps(n)' /\ ~Closing(n)'
    BY <2>1 DEF InHand, InMaps, Closing
  <2>3. ASSUME NEW d \in Conn, d # c, conn[d].fd = n
        PROVE  ~Live(d)
    <3>1. thread[d].at \in {"idle", "exited"} /\ acceptor.conn # d
      BY <2>1, <2>3 DEF InHand
    <3>2. ~Owned(d)
      BY <2>1, <2>3 DEF InHand, Owned, IInv, Links, OwnersAreUnique
    <3>. QED  BY <3>1, <3>2 DEF Live
  <2>4. \A d \in Conn : conn'[d].fd = n /\ (Live(d)' \/ Unpublished(d)') => d = c
    BY <1>1, <2>3, UnpublishedFacts
  <2>. QED  BY <1>1, <2>2, <2>4 DEF OneUser, OpenUntilPublished, OpenInMaps, InMaps
<1>. QED  BY <1>3, <1>4 DEF NumbersAreKept

(* A dialled connection is owned by the thread that dialled it. *)
LEMMA DialStep ==
    ASSUME IInv, NEW t \in Thread, Dial(t)
    PROVE  IInv'
<1>1. /\ Types /\ thread[t].at = "dial" /\ KnownThread(t) /\ Running(t) /\ ~Owning(t)
      /\ UNCHANGED <<agent, lock, call, acceptor, closer, env>> /\ thread \in [Thread -> ThreadRec]
  BY DEF IInv, Dial, At, Links, KnownThreads, Running, Owning, Types
<1>. PICK p \in Peer : p = PeerOf(t)
  BY <1>1, PeerOfKnown
<1>2. PICK c \in Conn :
         /\ NewConn(c, p)
         /\ thread' = [thread EXCEPT ![t].at = "publish", ![t].sock = c, ![t].fd = conn'[c].fd]
  BY DEF Dial
<1>3. PICK n \in Fd : NewConnIs(c, p, n)
  BY <1>2 DEF NewConn, NewConnIs
<1>4. /\ n \in Fd /\ conn' \in [Conn -> ConnRec] /\ desc' \in DescRec /\ KnownConns'
      /\ conn'[c].peer = p /\ conn'[c].fd = n /\ Used(c)' /\ ~Used(c)
      /\ \A d \in Conn : d # c => conn'[d] = conn[d]
      /\ \A d \in Conn : conn'[d].inbox \subseteq conn[d].inbox
      /\ \A d \in Conn : Used(d) => Used(d)'
      /\ thread[c].at = "idle" /\ acceptor.conn # c /\ ~Owned(c)
  BY <1>3, NewConnFacts
<1>5. /\ Moves(t) /\ thread'[t].at = "publish" /\ thread'[t].sock = c /\ thread'[t].fd = n
      /\ thread'[t].job = thread[t].job
  <2>1. thread'[t] = [at |-> "publish", job |-> thread[t].job, fd |-> n, mtx |-> thread[t].mtx,
                      sock |-> c]
    BY <1>1, <1>2, <1>4 DEF ThreadRec
  <2>2. \A s \in Thread : s # t => thread'[s] = thread[s]
    BY <1>1, <1>2
  <2>3. thread'[t] \in ThreadRec
    BY <1>1, <2>1 DEF ThreadRec, Places
  <2>4. thread' \in [Thread -> ThreadRec]
    BY <1>1, <1>2, <2>2, <2>3
  <2>5. thread'[t].at = "publish" /\ thread'[t].sock = c /\ thread'[t].fd = n
        /\ thread'[t].job = thread[t].job
    BY <2>1
  <2>. QED  BY <2>2, <2>4, <2>5 DEF Moves
<1>6. Types'
  BY <1>1, <1>4, <1>5 DEF Types, Moves
<1>7. SameStarts
  BY <1>5 DEF SameStarts, Moves, Thread
<1>8. Calls'
  BY <1>1, <1>4, <1>7, CallsKept
<1>9. t # c
  BY <1>1, <1>4
<1>10. KnownThreads'
  <2>1. KnownThread(t)'
    BY <1>1, <1>4, <1>5 DEF KnownThread
  <2>2. ASSUME NEW s \in Thread, s # t
        PROVE  KnownThread(s)'
    <3>1. KnownThread(s) /\ thread'[s] = thread[s]
      BY <1>5, <2>2 DEF IInv, Links, KnownThreads, Moves
    <3>. QED  BY <1>1, <1>4, <3>1 DEF KnownThread
  <2>. QED  BY <2>1, <2>2 DEF KnownThreads
<1>11. Owning(t)' /\ \A s \in Thread : s # t => (Owning(s)' <=> Owning(s)) /\ thread'[s] = thread[s]
  BY <1>5 DEF Owning, Moves
<1>12. \A s \in Thread, d \in Conn : Owns(s, d)' => (s = t /\ d = c) \/ (s # t /\ d # c /\ Owns(s, d))
  BY <1>4, <1>5, <1>11 DEF Owns, Owned
<1>13. \A d \in Conn : d # c => (Owned(d)' => Owned(d))
  BY <1>12 DEF Owned
<1>14. OwnersAreUnique'
  <2>1. \A s \in Thread : Owning(s)' => thread'[s].sock \in Conn
    BY <1>5, <1>11 DEF IInv, Links, OwnersAreUnique
  <2>2. PeerOf(t)' = p
    BY <1>1, <1>4, <1>5 DEF PeerOf
  <2>3. thread'[c].at = "idle"
    BY <1>4, <1>5, <1>9 DEF Moves, Thread
  <2>4. ASSUME NEW s \in Thread, NEW d \in Conn, Owns(s, d)'
        PROVE  /\ Used(d)' /\ conn'[d].peer = PeerOf(s)' /\ conn'[d].fd = thread'[s].fd
               /\ thread'[d].at = "idle" /\ acceptor'.conn # d
               /\ \A r \in Thread : Owns(r, d)' => r = s
    <3>1. CASE s = t /\ d = c
      BY <1>1, <1>4, <1>5, <1>12, <2>2, <2>3, <3>1
    <3>2. CASE s # t /\ d # c /\ Owns(s, d)
      <4>1. /\ Used(d) /\ conn[d].peer = PeerOf(s) /\ conn[d].fd = thread[s].fd
            /\ thread[d].at = "idle" /\ acceptor.conn # d
            /\ \A r \in Thread : Owns(r, d) => r = s
        BY <3>2 DEF IInv, Links, OwnersAreUnique
      <4>2. PeerOf(s)' = PeerOf(s)
        BY <1>1, <1>4, <1>11, <3>2 DEF PeerOf, Owns
      <4>3. d # t /\ thread'[d] = thread[d]
        BY <1>1, <1>11, <4>1 DEF Thread
      <4>. QED  BY <1>1, <1>4, <1>11, <1>12, <3>2, <4>1, <4>2, <4>3
    <3>. QED  BY <1>12, <2>4, <3>1, <3>2
  <2>5. \A d \in Conn : acceptor.conn = d => Used(d)' /\ thread'[d].at = "idle"
    BY <1>1, <1>4, <1>11 DEF IInv, Links, OwnersAreUnique, Thread
  <2>6. acceptor.at \in {"register", "supersede", "spawn"} => acceptor.conn \in Conn
    BY DEF IInv, Links, OwnersAreUnique
  <2>. QED  BY <1>1, <2>1, <2>4, <2>5, <2>6 DEF OwnersAreUnique
<1>15. NumbersAreKept'
  <2>1. ASSUME NEW d \in Conn, d # c
        PROVE  /\ Live(d)' => Live(d)
               /\ Owned(d)' => Owned(d)
               /\ Unpublished(d)' => Unpublished(d)
               /\ thread'[d].at = "close" => thread[d].at = "close"
    <3>1. Live(d)' => Live(d)
      BY <1>1, <1>5, <1>11, <1>13, <2>1 DEF Live, Thread, Running
    <3>2. Unpublished(d)' => Unpublished(d)
      BY <1>1, <1>5, <1>11, <2>1 DEF Unpublished
    <3>3. thread'[d].at = "close" => thread[d].at = "close"
      BY <1>5, <1>11 DEF Thread
    <3>. QED  BY <1>13, <2>1, <3>1, <3>2, <3>3
  <2>. QED  BY <1>1, <1>3, <2>1, NewNumbers
<1>16. ShutdownWaits'
  BY <1>1, <1>5, ShutdownKept
<1>17. LockHeld'
  <2>1. acceptor.at = "supersede" => conn'[acceptor.conn] = conn[acceptor.conn]
    BY <1>4 DEF IInv, Links, OwnersAreUnique
  <2>. QED  BY <1>1, <2>1 DEF IInv, LockHeld
<1>. QED  BY <1>4, <1>6, <1>8, <1>10, <1>14, <1>15, <1>16, <1>17 DEF IInv, Links

(* An accepted one is the accept thread's. *)
LEMMA AcceptedStep ==
    ASSUME IInv, NEW p \in Peer, Accept(p)
    PROVE  IInv'
<1>1. /\ Types /\ acceptor.at = "accept"
      /\ UNCHANGED <<agent, lock, call, thread, closer, env>>
  BY DEF IInv, Accept
<1>2. PICK c \in Conn : NewConn(c, p) /\ acceptor' = [at |-> "register", conn |-> c]
  BY DEF Accept
<1>3. PICK n \in Fd : NewConnIs(c, p, n)
  BY <1>2 DEF NewConn, NewConnIs
<1>4. /\ n \in Fd /\ conn' \in [Conn -> ConnRec] /\ desc' \in DescRec /\ KnownConns'
      /\ conn'[c].peer = p /\ conn'[c].fd = n /\ Used(c)' /\ ~Used(c)
      /\ \A d \in Conn : d # c => conn'[d] = conn[d]
      /\ \A d \in Conn : conn'[d].inbox \subseteq conn[d].inbox
      /\ \A d \in Conn : Used(d) => Used(d)'
      /\ thread[c].at = "idle" /\ acceptor.conn # c /\ ~Owned(c)
  BY <1>3, NewConnFacts
<1>5. acceptor' \in AcceptorRec /\ acceptor'.at = "register" /\ acceptor'.conn = c
  BY <1>2 DEF AcceptorRec
<1>6. Types'
  BY <1>1, <1>4, <1>5 DEF Types
<1>7. SameStarts
  BY <1>1 DEF SameStarts
<1>8. Calls'
  BY <1>1, <1>4, <1>7, CallsKept
<1>9. KnownThreads'
  BY <1>1, <1>4 DEF IInv, Links, KnownThreads, KnownThread
<1>10. /\ \A s \in Thread : Owning(s)' <=> Owning(s)
       /\ \A s \in Thread, d \in Conn : Owns(s, d)' <=> Owns(s, d)
       /\ \A d \in Conn : Owned(d)' <=> Owned(d)
  BY <1>1 DEF Owned, Owns, Owning
<1>11. OwnersAreUnique'
  <2>1. \A s \in Thread : Owning(s)' => thread'[s].sock \in Conn
    BY <1>1, <1>10 DEF IInv, Links, OwnersAreUnique
  <2>2. ASSUME NEW s \in Thread, NEW d \in Conn, Owns(s, d)'
        PROVE  /\ Used(d)' /\ conn'[d].peer = PeerOf(s)' /\ conn'[d].fd = thread'[s].fd
               /\ thread'[d].at = "idle" /\ acceptor'.conn # d
               /\ \A r \in Thread : Owns(r, d)' => r = s
    <3>1. Owns(s, d) /\ d # c
      BY <1>4, <1>10, <2>2 DEF Owned
    <3>2. /\ Used(d) /\ conn[d].peer = PeerOf(s) /\ conn[d].fd = thread[s].fd
          /\ thread[d].at = "idle" /\ \A r \in Thread : Owns(r, d) => r = s
      BY <3>1 DEF IInv, Links, OwnersAreUnique
    <3>3. PeerOf(s)' = PeerOf(s)
      BY <1>1, <1>4, <3>1 DEF PeerOf, Owns
    <3>. QED  BY <1>1, <1>4, <1>5, <1>10, <3>1, <3>2, <3>3
  <2>. QED  BY <1>1, <1>4, <1>5, <2>1, <2>2 DEF OwnersAreUnique
<1>12. NumbersAreKept'
  <2>1. ASSUME NEW d \in Conn, d # c
        PROVE  /\ Live(d)' => Live(d)
               /\ Owned(d)' => Owned(d)
               /\ Unpublished(d)' => Unpublished(d)
               /\ thread'[d].at = "close" => thread[d].at = "close"
    BY <1>1, <1>5, <1>10, <2>1 DEF Live, Unpublished
  <2>. QED  BY <1>1, <1>3, <2>1, NewNumbers
<1>13. ShutdownWaits'
  <2>1. Inflight' = Inflight
    BY <1>1 DEF Inflight
  <2>. QED  BY <1>1, <2>1 DEF IInv, ShutdownWaits
<1>14. LockHeld'
  BY <1>1, <1>5 DEF IInv, LockHeld
<1>. QED  BY <1>4, <1>6, <1>8, <1>9, <1>11, <1>12, <1>13, <1>14 DEF IInv, Links
-----------------------------------------------------------------------------
(* A step in which no thread moves, and the accept thread owns no more     *)
(* than before.                                                            *)
LEMMA StillFacts ==
    ASSUME IInv, thread' = thread, SameConns, SamePeers, acceptor'.conn = acceptor.conn,
           acceptor'.at \in {"register", "supersede", "spawn"} =>
              acceptor.at \in {"register", "supersede", "spawn"},
           acceptor'.at \in {"register", "supersede"} => acceptor.at \in {"register", "supersede"}
    PROVE  KnownThreads' /\ OwnersAreUnique' /\ LivesShrink
<1>1. KnownThreads'
  BY DEF IInv, Links, KnownThreads, KnownThread, SameConns, SamePeers
<1>2. /\ \A s \in Thread : Owning(s)' <=> Owning(s)
      /\ \A d \in Conn : Owned(d)' <=> Owned(d)
  BY DEF Owned, Owns, Owning
<1>3. ASSUME NEW s \in Thread, Owning(s)
      PROVE  PeerOf(s)' = PeerOf(s)
  <2>1. thread[s].sock \in Conn /\ thread[s].at # "idle"
    BY <1>3 DEF IInv, Links, OwnersAreUnique, Owning
  <2>. QED  BY <2>1 DEF PeerOf, SamePeers, SameConns
<1>4. SameOwners
  BY <1>2, <1>3 DEF SameOwners, IInv, Links, OwnersAreUnique
<1>5. OwnersAreUnique'
  BY <1>4, OwnersKept
<1>6. LivesShrink
  BY <1>2 DEF LivesShrink, Live, Unpublished
<1>. QED  BY <1>1, <1>5, <1>6

(* shutdown() does not go on, and no thread moves. *)
LEMMA ShutdownStill ==
    ASSUME IInv, thread' = thread, agent'.inflight = agent.inflight,
           agent'.running = agent.running, closer'.at = closer.at, lock'.threads = lock.threads,
           acceptor.at # "exited" \/ acceptor'.at = "exited"
    PROVE  ShutdownWaits'
<1>1. Inflight' = Inflight
  BY DEF Inflight
<1>. QED  BY <1>1 DEF IInv, ShutdownWaits

(* The accept thread publishes its connection, and closes the number it    *)
(* supersedes, if any.                                                     *)
LEMMA InboundStep ==
    ASSUME IInv, NEW c \in Conn, c = acceptor.conn, acceptor.at \in {"register", "supersede"},
           acceptor' = [acceptor EXCEPT !.at = "spawn"],
           NEW old \in Fd \cup {None}, old = agent.inbound[conn[c].peer],
           old = None => UNCHANGED <<conn, desc>> /\ agent' = Inbound(c, agent.mutexes),
           old # None => Close(old, TRUE)
                         /\ agent' = Inbound(c, [agent.mutexes EXCEPT ![old] = None]),
           lock' \in LockRec, lock'.threads = lock.threads, ~lock'.connections,
           UNCHANGED <<call, thread, closer, env>>
    PROVE  IInv'
<1>1. /\ Types /\ Used(c) /\ Unpublished(c) /\ ~Owned(c) /\ thread[c].at = "idle" /\ SamePeers
  BY DEF IInv, Links, OwnersAreUnique, Unpublished, Owned, SamePeers
<1>. PICK p \in Peer : p = conn[c].peer
  BY <1>1 DEF IInv, Links, KnownConns
<1>. PICK n \in Fd : n = conn[c].fd
  BY <1>1 DEF IInv, Links, KnownConns
<1>2. /\ conn' \in [Conn -> ConnRec] /\ desc' \in DescRec /\ SameConns
      /\ \A d \in Conn : conn'[d].inbox \subseteq conn[d].inbox
      /\ desc'.aliased = desc.aliased
      /\ \A m \in Fd : desc'.holder[m] \in {desc.holder[m], None}
      /\ \A m \in Fd : m # old => desc'.holder[m] = desc.holder[m]
  <2>1. CASE old = None
    BY <1>1, <2>1 DEF Types, SameConns, Used
  <2>2. CASE old \in Fd
    <3>1. old # None
      BY <2>2, NoneAssumption DEF Fd, Conn
    <3>. QED  BY <2>2, <3>1, CloseFacts
  <2>. QED  BY <2>1, <2>2
<1>3. PICK mutexes \in [Fd -> Conn \cup {None}] :
         /\ agent' = Inbound(c, mutexes)
         /\ \A m \in Fd : m # old => mutexes[m] = agent.mutexes[m]
  <2>1. agent.mutexes \in [Fd -> Conn \cup {None}]
        /\ [agent.mutexes EXCEPT ![old] = None] \in [Fd -> Conn \cup {None}]
        /\ \A m \in Fd : m # old => [agent.mutexes EXCEPT ![old] = None][m] = agent.mutexes[m]
    BY <1>1 DEF Types, AgentRec
  <2>2. CASE old = None
    BY <2>1, <2>2
  <2>3. CASE old # None
    BY <2>1, <2>3
  <2>. QED  BY <2>2, <2>3
<1>4. /\ agent' \in AgentRec /\ agent'.running = agent.running /\ agent'.nextId = agent.nextId
      /\ agent'.inflight = agent.inflight /\ agent'.connections = agent.connections
      /\ agent'.inbound[p] = n /\ agent'.mutexes[n] = c
      /\ \A q \in Peer : q # p => agent'.inbound[q] = agent.inbound[q]
      /\ \A m \in Fd : m \notin {old, n} => agent'.mutexes[m] = agent.mutexes[m]
  <2>1. agent' = [agent EXCEPT !.inbound[p] = n, !.mutexes = [mutexes EXCEPT ![n] = c]]
    BY <1>3 DEF Inbound
  <2>2. [mutexes EXCEPT ![n] = c] \in [Fd -> Conn \cup {None}]
        /\ [mutexes EXCEPT ![n] = c][n] = c
        /\ \A m \in Fd : m \notin {old, n} => [mutexes EXCEPT ![n] = c][m] = agent.mutexes[m]
    BY <1>3
  <2>3. agent \in AgentRec
    BY <1>1 DEF Types
  <2>. QED  BY <2>1, <2>2, <2>3 DEF AgentRec
<1>5. acceptor' \in AcceptorRec /\ acceptor'.at = "spawn" /\ acceptor'.conn = c
  BY <1>1 DEF Types, AcceptorRec
<1>6. Types'
  BY <1>1, <1>2, <1>4, <1>5 DEF Types
<1>7. SameStarts
  BY DEF SameStarts
<1>8. Calls'
  BY <1>2, <1>4, <1>7, CallsKept
<1>9. KnownThreads' /\ OwnersAreUnique' /\ LivesShrink
  BY <1>1, <1>2, <1>5, StillFacts
<1>10. KnownConns'
  BY <1>2, ConnsKept
<1>11. ~Unpublished(c)' /\ ~Owned(c)'
  <2>1. \A t \in Thread : ~(thread[t].at = "publish" /\ thread[t].sock = c)
    BY <1>1 DEF Owned, Owns, Owning
  <2>. QED  BY <1>1, <1>5, <2>1 DEF Unpublished, Owned, Owns, Owning
<1>12. ASSUME NEW m \in Fd \ desc.aliased, m # n
       PROVE  NumberShrinks(m)
  <2>1. OneUser(m) /\ OpenUntilPublished(m) /\ OpenInMaps(m)
    BY DEF IInv, NumbersAreKept
  <2>2. /\ \A q \in Peer : /\ agent'.connections[q] = m => agent.connections[q] = m
                           /\ agent'.inbound[q] = m => agent.inbound[q] = m
        /\ InMaps(m)' => InMaps(m)
        /\ Closing(m)' <=> Closing(m)
    BY <1>4, <1>12 DEF InMaps, Closing
  <2>3. m = old => ~InMaps(m)'
    <3>1. SUFFICES ASSUME m = old, NEW q \in Peer, agent'.connections[q] = m \/ agent'.inbound[q] = m
                   PROVE  FALSE
      BY DEF InMaps
    <3>2. agent.inbound[p] = m
      BY <3>1
    <3>3. agent.connections[q] = m \/ agent.inbound[q] = m
      BY <2>2, <3>1
    <3>4. conn[desc.holder[m]].peer = p /\ agent.connections[p] # m
      BY <2>1, <3>2 DEF OpenInMaps
    <3>5. q = p
      BY <2>1, <3>3, <3>4 DEF OpenInMaps
    <3>. QED  BY <1>4, <1>12, <3>1, <3>4, <3>5
  <2>4. m = old => \A d \in Conn : conn[d].fd = m => ~Unpublished(d)
    BY <2>1 DEF OpenUntilPublished, InMaps
  <2>5. InMaps(m) => ~Closing(m)
    BY NotClosing
  <2>6. \A d \in Conn : Unpublished(d)' /\ conn[d].fd = m => ~Closing(m) /\ m # old
    BY <1>9, <2>4, NotClosing DEF LivesShrink
  <2>. QED  BY <1>2, <1>4, <1>12, <2>2, <2>3, <2>5, <2>6 DEF NumberShrinks
<1>13. n \notin desc.aliased => n # old
  BY <1>1 DEF IInv, NumbersAreKept, OpenUntilPublished, InMaps
<1>14. NumbersAreKept'
  BY <1>1, <1>2, <1>4, <1>9, <1>11, <1>12, <1>13, PublishedNumbers
<1>15. ShutdownWaits'
  BY <1>4, <1>5, ShutdownStill
<1>16. LockHeld'
  BY <1>5 DEF LockHeld
<1>. QED  BY <1>6, <1>8, <1>9, <1>10, <1>14, <1>15, <1>16 DEF IInv, Links

(* Registering with nothing to supersede, or beginning to supersede. *)
LEMMA RegisterInboundStep ==
    ASSUME IInv, RegisterInbound
    PROVE  IInv'
<1>1. /\ Types /\ acceptor.at = "register" /\ acceptor.conn \in Conn /\ Used(acceptor.conn)
      /\ UNCHANGED <<conn, desc, call, thread, closer, env>>
  BY DEF IInv, RegisterInbound, Links, OwnersAreUnique
<1>. PICK c \in Conn : c = acceptor.conn
  BY <1>1
<1>2. conn[c].peer \in Peer
  BY <1>1 DEF IInv, Links, KnownConns
<1>3. CASE /\ agent.inbound[conn[c].peer] = None
           /\ agent' = Inbound(c, agent.mutexes)
           /\ acceptor' = [acceptor EXCEPT !.at = "spawn"]
           /\ UNCHANGED lock
  <2>1. lock' \in LockRec /\ lock'.threads = lock.threads /\ ~lock'.connections
    BY <1>1, <1>3 DEF Types, RegisterInbound
  <2>. QED  BY <1>1, <1>3, <2>1, InboundStep
<1>4. CASE /\ agent.inbound[conn[c].peer] # None
           /\ lock' = [lock EXCEPT !.connections = TRUE]
           /\ acceptor' = [acceptor EXCEPT !.at = "supersede"]
           /\ UNCHANGED agent
  <2>1. /\ lock' \in LockRec /\ lock'.threads = lock.threads /\ lock'.connections
        /\ acceptor' \in AcceptorRec /\ acceptor'.at = "supersede" /\ acceptor'.conn = acceptor.conn
    BY <1>1, <1>4 DEF Types, LockRec, AcceptorRec
  <2>2. Types'
    BY <1>1, <1>4, <2>1 DEF Types
  <2>3. SameStarts /\ SameConns /\ SamePeers
    BY <1>1 DEF SameStarts, SameConns, SamePeers, Used
  <2>4. Calls'
    BY <1>1, <1>4, <2>3, CallsKept
  <2>5. KnownThreads' /\ OwnersAreUnique' /\ LivesShrink
    BY <1>1, <2>1, <2>3, StillFacts
  <2>6. KnownConns'
    BY <1>1, <2>3, ConnsKept
  <2>7. ASSUME NEW m \in Fd \ desc.aliased
        PROVE  NumberShrinks(m)
    <3>1. (InMaps(m)' <=> InMaps(m)) /\ (Closing(m)' <=> Closing(m))
      BY <1>1, <1>4 DEF InMaps, Closing
    <3>2. InMaps(m) => ~Closing(m)
      BY NotClosing
    <3>3. \A d \in Conn : Unpublished(d)' /\ conn[d].fd = m => ~Closing(m)
      BY <2>5, NotClosing DEF LivesShrink
    <3>. QED  BY <1>1, <1>4, <3>1, <3>2, <3>3 DEF NumberShrinks
  <2>8. NumbersAreKept'
    BY <1>1, <2>3, <2>5, <2>7, NumbersKept
  <2>9. ShutdownWaits'
    BY <1>1, <1>4, <2>1, ShutdownStill
  <2>10. LockHeld'
    BY <1>1, <1>4, <2>1 DEF LockHeld
  <2>. QED  BY <2>2, <2>4, <2>5, <2>6, <2>8, <2>9, <2>10 DEF IInv, Links
<1>. QED  BY <1>3, <1>4 DEF RegisterInbound

(* Superseding. *)
LEMMA CloseSupersededStep ==
    ASSUME IInv, CloseSuperseded
    PROVE  IInv'
<1>1. /\ Types /\ acceptor.at = "supersede" /\ acceptor.conn \in Conn /\ Used(acceptor.conn)
      /\ UNCHANGED <<call, thread, closer, env>>
  BY DEF IInv, CloseSuperseded, Links, OwnersAreUnique
<1>. PICK c \in Conn : c = acceptor.conn
  BY <1>1
<1>2. conn[c].peer \in Peer /\ agent.inbound[conn[c].peer] # None
  BY <1>1 DEF IInv, Links, KnownConns, LockHeld
<1>. PICK old \in Fd : old = agent.inbound[conn[c].peer]
  BY <1>1, <1>2 DEF Types, AgentRec
<1>3. /\ Close(old, TRUE) /\ agent' = Inbound(c, [agent.mutexes EXCEPT ![old] = None])
      /\ lock' = [lock EXCEPT !.connections = FALSE]
      /\ acceptor' = [acceptor EXCEPT !.at = "spawn"]
  BY DEF CloseSuperseded
<1>4. lock' \in LockRec /\ lock'.threads = lock.threads /\ ~lock'.connections
  BY <1>1, <1>3 DEF Types, LockRec
<1>. QED  BY <1>1, <1>2, <1>3, <1>4, InboundStep
-----------------------------------------------------------------------------
(* No thread moves, and no number is closed but what shutdown() collected. *)
LEMMA StandStill ==
    ASSUME IInv, thread' = thread, SameConns, SamePeers, SameMaps,
           acceptor' = acceptor \/ (acceptor'.conn = acceptor.conn /\ acceptor'.at = "exited"),
           closer'.fds \subseteq closer.fds, desc'.aliased = desc.aliased,
           \A m \in Fd : \/ desc'.holder[m] = desc.holder[m]
                         \/ desc'.holder[m] = None /\ Closing(m)
    PROVE  Links' /\ NumbersAreKept'
<1>1. KnownThreads' /\ OwnersAreUnique' /\ LivesShrink
  BY StillFacts
<1>2. KnownConns'
  BY ConnsKept
<1>3. ASSUME NEW m \in Fd \ desc.aliased
      PROVE  NumberShrinks(m)
  <2>1. (InMaps(m)' <=> InMaps(m)) /\ (Closing(m)' => Closing(m))
    BY DEF InMaps, Closing, SameMaps
  <2>2. InMaps(m) => ~Closing(m)
    BY NotClosing
  <2>3. \A d \in Conn : Unpublished(d)' /\ conn[d].fd = m => ~Closing(m)
    BY <1>1, NotClosing DEF LivesShrink
  <2>. QED  BY <2>1, <2>2, <2>3 DEF NumberShrinks, SameMaps
<1>4. NumbersAreKept'
  BY <1>1, <1>3, NumbersKept
<1>. QED  BY <1>1, <1>2, <1>4 DEF Links

(* The accept thread sees that running_ is false. *)
LEMMA AcceptEndsStep ==
    ASSUME IInv, AcceptEnds
    PROVE  IInv'
<1>1. /\ Types /\ acceptor.at = "accept" /\ acceptor' = [acceptor EXCEPT !.at = "exited"]
      /\ UNCHANGED <<agent, lock, conn, desc, call, thread, closer, env>>
  BY DEF IInv, AcceptEnds
<1>2. acceptor' \in AcceptorRec /\ acceptor'.conn = acceptor.conn /\ acceptor'.at = "exited"
  BY <1>1 DEF Types, AcceptorRec
<1>3. SameStarts /\ SameConns /\ SamePeers /\ SameMaps
  BY <1>1 DEF SameStarts, SameConns, SamePeers, SameMaps, Used
<1>4. Types' /\ Calls' /\ Links' /\ NumbersAreKept'
  BY <1>1, <1>2, <1>3, CallsKept, StandStill DEF Types
<1>5. ShutdownWaits'
  BY <1>1, <1>2, ShutdownStill
<1>6. LockHeld'
  BY <1>1, <1>2 DEF IInv, LockHeld
<1>. QED  BY <1>4, <1>5, <1>6 DEF IInv

(* shutdown() begins, wakes those that wait for answers, and joins. *)
LEMMA CloserStep ==
    ASSUME IInv, NEW a \in {"off", "abort", "drain", "joinIo", "join"},
           NEW b \in {"collect", "drain", "asleep", "joinIo", "join", "done"}, Shut(a, b),
           agent' \in AgentRec, SameMaps, agent'.nextId = agent.nextId,
           agent'.inflight = agent.inflight, agent'.running = (agent.running /\ a # "off"),
           call' \in [Caller -> CallRec],
           \A k \in Caller : /\ call'[k].id = call[k].id /\ call'[k].peer = call[k].peer
                             /\ call'[k].promise \in {None, "error", k}
                             /\ call'[k].result \in {None, "error", k},
           lock' \in LockRec, lock'.connections = lock.connections,
           lock'.threads <=> b = "join",
           b = "joinIo" => agent.inflight = 0, a = "drain" => b \in {"joinIo", "asleep"},
           a = "joinIo" => b = "join" /\ acceptor.at = "exited",
           a = "join" => b = "done", b \in {"join", "done"} => a \in {"joinIo", "join"},
           b = "done" => \A c \in Conn : thread[c].at \in {"idle", "exited"},
           UNCHANGED <<conn, desc, thread, acceptor, env>>
    PROVE  IInv'
<1>1. Types /\ closer.at = a /\ closer' \in CloserRec /\ closer'.at = b /\ closer'.fds = closer.fds
  BY DEF IInv, Types, CloserRec, Shut
<1>2. SameStarts /\ SameConns /\ SamePeers
  BY DEF SameStarts, SameConns, SamePeers, Used
<1>3. Types'
  BY <1>1 DEF Types
<1>4. Calls'
  BY <1>2, CallsKeepIds
<1>5. Links' /\ NumbersAreKept'
  BY <1>1, <1>2, StandStill
<1>6. Inflight' = Inflight /\ IsFiniteSet(Inflight) /\ agent.inflight = Cardinality(Inflight)
  BY DEF Inflight, IInv, ShutdownWaits
<1>7. agent.inflight = 0 => Inflight = {}
  BY <1>6, FS_EmptySet
<1>8. b \in {"joinIo", "join", "done"} =>
         \A k \in Caller : thread[k].at \in {"idle", "send", "notify", "done"}
  BY <1>1, <1>7 DEF Inflight, IInv, ShutdownWaits
<1>9. ShutdownWaits'
  BY <1>1, <1>6, <1>8 DEF IInv, ShutdownWaits, Types, AgentRec
<1>10. LockHeld'
  BY <1>2, LockKept DEF SameMaps
<1>. QED  BY <1>3, <1>4, <1>5, <1>9, <1>10 DEF IInv

(* The steps of shutdown() that leave the connections alone. *)
LEMMA CloserSteps ==
    ASSUME IInv, StopListening \/ Abort \/ Drain \/ JoinIo \/ JoinWorkers
    PROVE  IInv'
<1>1. /\ Types /\ agent \in AgentRec /\ lock \in LockRec /\ call \in [Caller -> CallRec]
      /\ \A k \in Caller : /\ call[k].promise \in {None, "error", k}
                           /\ call[k].result \in {None, "error", k}
      /\ lock.threads <=> closer.at = "join"
      /\ closer.at # "off" => ~agent.running
  BY DEF IInv, Types, Calls, PromisesMatch, ShutdownWaits
<1>2. ASSUME UNCHANGED agent
      PROVE  /\ agent' \in AgentRec /\ SameMaps /\ agent'.nextId = agent.nextId
             /\ agent'.inflight = agent.inflight /\ agent'.running = agent.running
  BY <1>1, <1>2 DEF SameMaps
<1>3. ASSUME UNCHANGED call
      PROVE  \A k \in Caller : /\ call'[k].id = call[k].id /\ call'[k].peer = call[k].peer
                               /\ call'[k].promise \in {None, "error", k}
                               /\ call'[k].result \in {None, "error", k}
  BY <1>1, <1>3
<1>4. agent.running \in BOOLEAN
  BY <1>1 DEF AgentRec
<1>5. CASE StopListening
  <2>1. /\ agent' = [agent EXCEPT !.running = FALSE] /\ Shut("off", "collect")
        /\ UNCHANGED <<lock, conn, desc, call, thread, acceptor, env>>
    BY <1>5 DEF StopListening
  <2>2. /\ agent' \in AgentRec /\ SameMaps /\ agent'.nextId = agent.nextId
        /\ agent'.inflight = agent.inflight /\ agent'.running = FALSE
    BY <1>1, <2>1 DEF AgentRec, SameMaps
  <2>3. ~lock.threads
    BY <1>1, <2>1 DEF Shut
  <2>. QED  BY <1>1, <1>3, <2>1, <2>2, <2>3, CloserStep
<1>6. CASE Abort
  <2>1. /\ agent' = [agent EXCEPT !.pending = {}] /\ Shut("abort", "drain")
        /\ call' = [k \in Caller |-> IF call[k].id \in agent.pending
                                     THEN [call[k] EXCEPT !.promise = "error"] ELSE call[k]]
        /\ UNCHANGED <<lock, conn, desc, thread, acceptor, env>>
    BY <1>6 DEF Abort
  <2>2. /\ agent' \in AgentRec /\ SameMaps /\ agent'.nextId = agent.nextId
        /\ agent'.inflight = agent.inflight /\ agent'.running = agent.running
    BY <1>1, <2>1 DEF AgentRec, SameMaps
  <2>3. ASSUME NEW k \in Caller
        PROVE  /\ call'[k] \in CallRec /\ call'[k].id = call[k].id /\ call'[k].peer = call[k].peer
               /\ call'[k].promise \in {None, "error", k}
               /\ call'[k].result \in {None, "error", k}
    <3>1. call'[k] \in {call[k], [call[k] EXCEPT !.promise = "error"]} /\ call[k] \in CallRec
      BY <1>1, <2>1
    <3>. QED  BY <1>1, <3>1 DEF CallRec
  <2>4. call' \in [Caller -> CallRec]
    BY <2>1, <2>3
  <2>5. ~lock.threads
    BY <1>1, <2>1 DEF Shut
  <2>. QED  BY <1>1, <1>4, <2>1, <2>2, <2>3, <2>4, <2>5, CloserStep
<1>7. CASE Drain
  <2>1. PICK b \in {"joinIo", "asleep"} : Shut("drain", b) /\ (b = "joinIo" => agent.inflight = 0)
    BY <1>7 DEF Drain
  <2>2. UNCHANGED <<agent, lock, conn, desc, call, thread, acceptor, env>> /\ ~lock.threads
    BY <1>1, <1>7 DEF Drain, Shut
  <2>. QED  BY <1>1, <1>2, <1>3, <1>4, <2>1, <2>2, CloserStep
<1>8. CASE JoinIo
  <2>1. /\ acceptor.at = "exited" /\ Shut("joinIo", "join")
        /\ UNCHANGED <<agent, conn, desc, call, thread, acceptor, env>>
        /\ lock' \in LockRec /\ lock'.connections = lock.connections /\ lock'.threads
    BY <1>1, <1>8 DEF JoinIo, LockRec
  <2>. QED  BY <1>1, <1>2, <1>3, <1>4, <2>1, CloserStep
<1>9. CASE JoinWorkers
  <2>1. /\ \A c \in Conn : thread[c].at \in {"idle", "exited"}
        /\ Shut("join", "done")
        /\ UNCHANGED <<agent, conn, desc, call, thread, acceptor, env>>
        /\ lock' \in LockRec /\ lock'.connections = lock.connections /\ ~lock'.threads
    BY <1>1, <1>9 DEF JoinWorkers, LockRec
  <2>. QED  BY <1>1, <1>2, <1>3, <1>4, <2>1, CloserStep
<1>. QED  BY <1>5, <1>6, <1>7, <1>8, <1>9

(* shutdown() takes every number out of the maps, ... *)
LEMMA CollectStep ==
    ASSUME IInv, Collect
    PROVE  IInv'
<1>1. /\ Types /\ closer.at = "collect" /\ ~lock.connections
      /\ closer' = [at |-> "close", fds |-> Collected(agent.connections, "connections")
                                             \cup Collected(agent.inbound, "inbound")]
      /\ agent' = Emptied
      /\ UNCHANGED <<lock, conn, desc, call, thread, acceptor, env>>
  BY DEF IInv, Collect
<1>2. /\ agent' \in AgentRec /\ agent'.running = agent.running /\ agent'.nextId = agent.nextId
      /\ agent'.inflight = agent.inflight
      /\ \A p \in Peer : agent'.connections[p] = None /\ agent'.inbound[p] = None
  BY <1>1 DEF Types, AgentRec, Emptied
<1>3. /\ closer' \in CloserRec /\ closer'.at = "close"
      /\ \A n \in Fd : Closing(n)' => InMaps(n)
  <2>1. ASSUME NEW map \in [Peer -> Fd \cup {None}], NEW name \in {"connections", "inbound"},
               NEW x \in Collected(map, name)
        PROVE  /\ x \in [of : {"connections", "inbound"} \X Peer, fd : Fd, mtx : Conn \cup {None}]
               /\ \E p \in Peer : x.fd = map[p]
    <3>1. PICK p \in Peer : /\ map[p] # None
                            /\ x = [of |-> <<name, p>>, fd |-> map[p], mtx |-> agent.mutexes[map[p]]]
      BY DEF Collected
    <3>. QED  BY <1>1, <3>1 DEF Types, AgentRec
  <2>2. agent.connections \in [Peer -> Fd \cup {None}] /\ agent.inbound \in [Peer -> Fd \cup {None}]
    BY <1>1 DEF Types, AgentRec
  <2>3. \A x \in closer'.fds :
           /\ x \in [of : {"connections", "inbound"} \X Peer, fd : Fd, mtx : Conn \cup {None}]
           /\ \E p \in Peer : x.fd = agent.connections[p] \/ x.fd = agent.inbound[p]
    BY <1>1, <2>1, <2>2
  <2>. QED  BY <1>1, <2>3 DEF CloserRec, Closing, InMaps
<1>4. Types'
  BY <1>1, <1>2, <1>3 DEF Types
<1>5. SameStarts /\ SameConns /\ SamePeers
  BY <1>1 DEF SameStarts, SameConns, SamePeers, Used
<1>6. Calls'
  BY <1>1, <1>2, <1>5, CallsKept
<1>7. KnownThreads' /\ OwnersAreUnique' /\ LivesShrink
  BY <1>1, <1>5, StillFacts
<1>8. KnownConns'
  BY <1>1, <1>5, ConnsKept
<1>9. ASSUME NEW m \in Fd \ desc.aliased
      PROVE  NumberShrinks(m)
  <2>1. m # None /\ ~InMaps(m)'
    BY <1>2, NoneAssumption DEF InMaps, Fd, Conn
  <2>2. \A d \in Conn : Unpublished(d)' /\ conn[d].fd = m => ~InMaps(m)
    BY <1>7 DEF LivesShrink, IInv, NumbersAreKept, OpenUntilPublished
  <2>. QED  BY <1>1, <1>2, <1>3, <2>1, <2>2 DEF NumberShrinks
<1>10. NumbersAreKept'
  BY <1>1, <1>5, <1>7, <1>9, NumbersKept
<1>11. ShutdownWaits'
  <2>1. Inflight' = Inflight
    BY <1>1 DEF Inflight
  <2>. QED  BY <1>1, <1>2, <1>3, <2>1 DEF IInv, ShutdownWaits
<1>12. LockHeld'
  BY <1>1, <1>5, LockKept
<1>. QED  BY <1>4, <1>6, <1>7, <1>8, <1>10, <1>11, <1>12 DEF IInv, Links

(* ... and closes them. *)
LEMMA CloseCollectedStep ==
    ASSUME IInv, CloseCollected
    PROVE  IInv'
<1>1. Types /\ closer.at = "close" /\ UNCHANGED <<agent, lock, call, thread, acceptor, env>>
  BY DEF IInv, CloseCollected
<1>2. /\ conn' \in [Conn -> ConnRec] /\ desc' \in DescRec /\ SameConns
      /\ \A d \in Conn : conn'[d].inbox \subseteq conn[d].inbox
      /\ desc'.aliased = desc.aliased
      /\ \A m \in Fd : desc'.holder[m] = desc.holder[m] \/ (desc'.holder[m] = None /\ Closing(m))
      /\ closer' \in CloserRec /\ closer'.fds \subseteq closer.fds /\ closer'.at \in {"close", "abort"}
  <2>1. CASE \E x \in closer.fds : Close(x.fd, TRUE) /\ closer' = [closer EXCEPT !.fds = @ \ {x}]
    <3>1. PICK x \in closer.fds : Close(x.fd, TRUE) /\ closer' = [closer EXCEPT !.fds = @ \ {x}]
      BY <2>1
    <3>2. closer' \in CloserRec /\ closer'.fds \subseteq closer.fds /\ closer'.at = "close"
      BY <1>1, <3>1 DEF Types, CloserRec
    <3>3. x.fd \in Fd
      BY <1>1 DEF Types, CloserRec
    <3>. PICK n \in Fd : n = x.fd
      BY <3>3
    <3>4. /\ conn' \in [Conn -> ConnRec] /\ desc' \in DescRec /\ SameConns
          /\ \A d \in Conn : conn'[d].inbox \subseteq conn[d].inbox
          /\ desc'.aliased = desc.aliased /\ desc'.holder[n] = None
          /\ \A m \in Fd : m # n => desc'.holder[m] = desc.holder[m]
      BY <3>1, CloseFacts
    <3>5. Closing(n)
      BY DEF Closing
    <3>. QED  BY <3>2, <3>4, <3>5
  <2>2. CASE Shut("close", "abort") /\ UNCHANGED <<conn, desc>>
    BY <1>1, <2>2 DEF Types, CloserRec, Shut, SameConns, Used
  <2>. QED  BY <2>1, <2>2 DEF CloseCollected
<1>3. Types'
  BY <1>1, <1>2 DEF Types
<1>4. SameStarts /\ SamePeers /\ SameMaps
  BY <1>1 DEF SameStarts, SamePeers, SameMaps
<1>5. Calls'
  BY <1>1, <1>2, <1>4, CallsKept
<1>6. Links' /\ NumbersAreKept'
  BY <1>1, <1>2, <1>4, StandStill
<1>7. ShutdownWaits'
  <2>1. Inflight' = Inflight
    BY <1>1 DEF Inflight
  <2>. QED  BY <1>1, <1>2, <2>1 DEF IInv, ShutdownWaits
<1>8. LockHeld'
  BY <1>1, <1>2, LockKept
<1>. QED  BY <1>3, <1>5, <1>6, <1>7, <1>8 DEF IInv
-----------------------------------------------------------------------------
(* The peers put frames on connections, and drop them. *)
LEMMA PeerMoves ==
    ASSUME IInv, UNCHANGED <<agent, lock, desc, thread, acceptor, closer>>,
           conn' \in [Conn -> ConnRec], call' \in [Caller -> CallRec], env' \in Scenario,
           \A d \in Conn : /\ conn'[d].peer = conn[d].peer /\ conn'[d].fd = conn[d].fd
                           /\ conn'[d].state = "unused" <=> conn[d].state = "unused"
                           /\ \A m \in conn'[d].inbox :
                                 \/ m \in conn[d].inbox \/ m.kind # "response"
                                 \/ call[m.body].id = m.id /\ m.body \in Caller,
           \A k \in Caller : /\ call'[k].id = call[k].id /\ call'[k].peer = call[k].peer
                             /\ call'[k].promise = call[k].promise
                             /\ call'[k].result = call[k].result
    PROVE  IInv'
<1>1. Types'
  BY DEF IInv, Types
<1>2. IdsAreUnique'
  BY DEF IInv, Calls, IdsAreUnique, Started
<1>3. AnswersCarryIds'
  <2>. SUFFICES ASSUME NEW d \in Conn, NEW m \in conn'[d].inbox, m.kind = "response"
                PROVE  call'[m.body].id = m.id
    BY DEF AnswersCarryIds
  <2>1. call[m.body].id = m.id /\ m.body \in Caller
    <3>1. CASE m \in conn[d].inbox
      <4>1. m \in Msg
        BY <3>1 DEF IInv, Types, ConnRec
      <4>2. m.body \in Caller
        BY <4>1 DEF Msg
      <4>. QED  BY <3>1, <4>2 DEF IInv, Calls, AnswersCarryIds
    <3>. QED  BY <3>1
  <2>. QED  BY <2>1
<1>4. PromisesMatch'
  BY DEF IInv, Calls, PromisesMatch
<1>5. SameConns /\ SamePeers /\ SameMaps
  BY DEF SameConns, SamePeers, SameMaps, Used
<1>6. Links' /\ NumbersAreKept'
  BY <1>5, StandStill
<1>7. ShutdownWaits'
  BY ShutdownStill
<1>8. LockHeld'
  BY <1>5, LockKept
<1>. QED  BY <1>1, <1>2, <1>3, <1>4, <1>6, <1>7, <1>8 DEF IInv, Calls

(* Nothing happens. *)
LEMMA Stutter ==
    ASSUME IInv, UNCHANGED vars
    PROVE  IInv'
<1>1. /\ conn \in [Conn -> ConnRec] /\ call \in [Caller -> CallRec] /\ env \in Scenario
  BY DEF IInv, Types
<1>. QED  BY <1>1, PeerMoves DEF vars

(* A connection is dropped. *)
LEMMA DropStep ==
    ASSUME IInv, NEW c \in Conn, conn[c].state = "open",
           conn' = [conn EXCEPT ![c].state = "dropped"],
           UNCHANGED <<agent, lock, desc, call, thread, acceptor, closer, env>>
    PROVE  IInv'
<1>1. /\ conn \in [Conn -> ConnRec] /\ call \in [Caller -> CallRec] /\ env \in Scenario
  BY DEF IInv, Types
<1>2. /\ conn' \in [Conn -> ConnRec]
      /\ \A d \in Conn : /\ conn'[d].peer = conn[d].peer /\ conn'[d].inbox = conn[d].inbox
                         /\ conn'[d].fd = conn[d].fd
                         /\ conn'[d].state = "unused" <=> conn[d].state = "unused"
  BY <1>1 DEF ConnRec
<1>. QED  BY <1>1, <1>2, PeerMoves

(* Requests, answers and drops. *)
LEMMA PeersStep ==
    ASSUME IInv,
           \/ PeerGivesUp
           \/ \E c \in Conn : \/ PeerRequests(c)
                              \/ PeerDrops(c)
                              \/ \E k \in Caller : PeerAnswers(c, k)
    PROVE  IInv'
<1>1. /\ conn \in [Conn -> ConnRec] /\ call \in [Caller -> CallRec] /\ env \in Scenario
  BY DEF IInv, Types
<1>2. CASE PeerGivesUp
  BY <1>2, DropStep DEF PeerGivesUp
<1>3. ASSUME NEW c \in Conn, PeerRequests(c)
      PROVE  IInv'
  <2>1. /\ UNCHANGED <<agent, lock, desc, call, thread, acceptor, closer>>
        /\ conn' = [conn EXCEPT ![c].inbox = @ \cup {Request}]
        /\ env' = [env EXCEPT !.requests = @ - 1] /\ env.requests > 0
    BY <1>3 DEF PeerRequests
  <2>2. Request \in Msg /\ Request.kind = "request"
    BY DEF Request, Msg
  <2>3. env' \in Scenario
    BY <1>1, <2>1 DEF Scenario
  <2>4. /\ conn' \in [Conn -> ConnRec]
        /\ \A d \in Conn : /\ conn'[d].peer = conn[d].peer /\ conn'[d].state = conn[d].state
                           /\ conn'[d].fd = conn[d].fd
                           /\ conn'[d].inbox \subseteq conn[d].inbox \cup {Request}
    BY <1>1, <2>1, <2>2 DEF ConnRec
  <2>. QED  BY <1>1, <2>1, <2>2, <2>3, <2>4, PeerMoves
<1>4. ASSUME NEW c \in Conn, PeerDrops(c)
      PROVE  IInv'
  BY <1>4, DropStep DEF PeerDrops
<1>5. ASSUME NEW c \in Conn, NEW k \in Caller, PeerAnswers(c, k)
      PROVE  IInv'
  <2>1. /\ UNCHANGED <<agent, lock, desc, thread, acceptor, closer, env>>
        /\ conn' = [conn EXCEPT ![c].inbox = @ \cup {Echo(k)}]
        /\ call' = [call EXCEPT ![k].answered = TRUE] /\ call[k].id >= 0
    BY <1>5 DEF PeerAnswers
  <2>2. PICK e \in Msg : e = Echo(k) /\ e.kind = "response" /\ e.body = k /\ e.id = call[k].id
    <3>1. call[k].id \in Nat
      BY <1>1, <2>1 DEF CallRec
    <3>2. Echo(k) = [kind |-> "response", id |-> call[k].id, body |-> k]
      BY DEF Echo, Response
    <3>3. Echo(k) \in Msg
      BY <3>1, <3>2 DEF Msg
    <3>. QED  BY <3>2, <3>3
  <2>3. /\ conn' \in [Conn -> ConnRec]
        /\ \A d \in Conn : /\ conn'[d].peer = conn[d].peer /\ conn'[d].state = conn[d].state
                           /\ conn'[d].fd = conn[d].fd
                           /\ conn'[d].inbox \subseteq conn[d].inbox \cup {e}
    BY <1>1, <2>1, <2>2 DEF ConnRec
  <2>4. /\ call' \in [Caller -> CallRec]
        /\ \A j \in Caller : /\ call'[j].id = call[j].id /\ call'[j].peer = call[j].peer
                             /\ call'[j].promise = call[j].promise
                             /\ call'[j].result = call[j].result
    BY <1>1, <2>1 DEF CallRec
  <2>. QED  BY <1>1, <2>1, <2>2, <2>3, <2>4, PeerMoves
<1>. QED  BY <1>2, <1>3, <1>4, <1>5

(* The invariant holds initially, ... *)
LEMMA InitEstablishes ==
    ASSUME Init
    PROVE  IInv
<1>. USE DEF Init, Resting
<1>1. Types
  <2>1. /\ agent \in AgentRec /\ lock \in LockRec /\ acceptor \in AcceptorRec
        /\ closer \in CloserRec /\ desc \in DescRec /\ env \in Scenario
    BY ScenariosAssumption DEF AgentRec, LockRec, AcceptorRec, CloserRec, DescRec
  <2>2. conn \in [Conn -> ConnRec]
    BY DEF ConnRec
  <2>3. call \in [Caller -> CallRec]
    BY DEF CallRec
  <2>4. thread \in [Thread -> ThreadRec]
    BY DEF ThreadRec, Places
  <2>. QED  BY <2>1, <2>2, <2>3, <2>4 DEF Types
<1>2. /\ \A k \in Caller : /\ call[k].id = -1 /\ call[k].promise = None /\ call[k].result = None
                           /\ k \in Thread
      /\ \A t \in Thread : thread[t].at = "idle" /\ thread[t].job = None
      /\ \A c \in Conn : /\ conn[c].state = "unused" /\ conn[c].inbox = {} /\ conn[c].fd = None
                         /\ c \in Thread
      /\ \A n \in Fd : desc.holder[n] = None
      /\ \A p \in Peer : agent.connections[p] = None /\ agent.inbound[p] = None
      /\ agent.nextId = 0 /\ agent.inflight = 0
      /\ closer.at = "off" /\ closer.fds = {} /\ acceptor.at = "accept" /\ acceptor.conn = None
      /\ lock.threads = FALSE /\ lock.connections = FALSE
  BY DEF Thread
<1>3. \A n \in Fd : n # None /\ ~InMaps(n)
  BY <1>2, NoneAssumption DEF InMaps, Conn, Fd
<1>4. \A t \in Thread : ~Owning(t) /\ \A c \in Conn : ~Owns(t, c)
  BY <1>2 DEF Owning, Owns
<1>. HIDE DEF Init, Resting
<1>5. Calls
  BY <1>2 DEF Calls, IdsAreUnique, Started, AnswersCarryIds, PromisesMatch
<1>6. KnownConns /\ KnownThreads
  BY <1>2, NoneAssumption DEF KnownConns, KnownThreads, KnownThread, Used
<1>7. OwnersAreUnique
  BY <1>2, <1>4, NoneAssumption DEF OwnersAreUnique
<1>8. NumbersAreKept
  BY <1>2, <1>3 DEF NumbersAreKept, OneUser, OpenUntilPublished, OpenInMaps, InMaps
<1>9. ShutdownWaits
  <2>1. Inflight = {}
    BY <1>2 DEF Inflight
  <2>. QED  BY <1>2, <2>1, FS_EmptySet DEF ShutdownWaits
<1>10. LockHeld
  BY <1>2 DEF LockHeld
<1>. QED  BY <1>1, <1>5, <1>6, <1>7, <1>8, <1>9, <1>10 DEF IInv, Links

(* ... every step preserves it, ... *)
LEMMA NextStep ==
    ASSUME IInv, [Next]_vars
    PROVE  IInv'
<1>1. CASE UNCHANGED vars
  BY <1>1, Stutter
<1>2. ASSUME NEW k \in Caller, Call(k) \/ CallStep(k)
      PROVE  IInv'
  BY <1>2, CallStarts, SendStep, RegisterStep, SelfDispatchStep, SendEnds, NotifyStep DEF CallStep
<1>3. ASSUME NEW t \in Thread, ConnectStep(t)
      PROVE  IInv'
  BY <1>3, FindStep, DialStep, DialFailsStep, PublishStep, HelloFailedStep, SpawnStep,
     LookUpMutexStep, LockWriterStep, SendFramedStep DEF ConnectStep
<1>4. ASSUME NEW c \in Conn, ReceiveStep(c)
      PROVE  IInv'
  BY <1>4, LoopStep, ReceiveMsg, CleanupStep, CloseOwnStep DEF ReceiveStep
<1>5. CASE AcceptStep
  BY <1>5, RegisterInboundStep, CloseSupersededStep, SpawnReceiverStep,
     AcceptEndsStep DEF AcceptStep
<1>6. CASE StopListening \/ ShutdownStep
  BY <1>6, CloserSteps, CollectStep, CloseCollectedStep DEF ShutdownStep
<1>7. CASE PeerStep
  <2>1. \A p \in env.requesters : p \in Peer
    BY DEF IInv, Types, Scenario
  <2>. QED  BY <1>7, <2>1, AcceptedStep, PeersStep DEF PeerStep
<1>. QED  BY <1>1, <1>2, <1>3, <1>4, <1>5, <1>6, <1>7 DEF Next

(* ... and it therefore always holds. *)
THEOREM Inductive == Spec => []IInv
<1>1. Init => IInv
  BY InitEstablishes
<1>2. IInv /\ [Next]_vars => IInv'
  BY NextStep
<1>. QED  BY <1>1, <1>2, PTL DEF Spec

(* A callback is given the answer to its own request or an error, for any  *)
(* number of calls, peers and connections, and whichever connection a      *)
(* number stands for when a thread uses it.                                *)
THEOREM OwnAnswer == Spec => []AnswersMatch
<1>1. IInv => AnswersMatch
  BY DEF IInv, Calls, PromisesMatch, AnswersMatch
<1>. QED  BY <1>1, Inductive, PTL

(* The maps never lead to a closed descriptor or to another connection's,  *)
(* whoever closes it, as long as its number was in nobody's hand when it   *)
(* was last given out.  The cleanup of receive_loop(), which looks the     *)
(* number up, breaks it for the others.                                    *)
THEOREM NoClosedSocket == Spec => []MapsHoldOpenSockets
<1>1. IInv => MapsHoldOpenSockets
  <2>. SUFFICES ASSUME IInv, NEW p \in Peer,
                       NEW n \in {agent.connections[p], agent.inbound[p]} \ ({None} \cup desc.aliased)
                PROVE  agent.mutexes[n] # None /\ desc.holder[n] = agent.mutexes[n]
    BY DEF MapsHoldOpenSockets
  <2>1. n \in Fd \ desc.aliased
    BY DEF IInv, Types, AgentRec
  <2>2. InMaps(n)
    BY DEF InMaps
  <2>. QED  BY <2>1, <2>2 DEF IInv, NumbersAreKept, OpenInMaps
<1>. QED  BY <1>1, Inductive, PTL

(* When shutdown() returns the accept thread and the receive threads are   *)
(* gone and none is going to be started, and no detached thread is in the  *)
(* middle of a send; that a counted one is past its notify_all() is not    *)
(* promised.                                                               *)
THEOREM QuietAfterShutdown == Spec => []NoWorkAfterShutdown
<1>1. IInv => NoWorkAfterShutdown
  BY DEF IInv, ShutdownWaits, NoWorkAfterShutdown
<1>. QED  BY <1>1, Inductive, PTL
=============================================================================
