-------------------------- MODULE InferenceServer --------------------------
(***************************************************************************)
(* serving::InferenceServer: the serve thread in serve_loop(), an owner    *)
(* that calls start() and stop(), and a thread in wait() or wait_for().    *)
(* The calls of ModelRepository arrive while the HTTP server accepts.      *)
(*                                                                         *)
(* httplib::Server is external: listen() binds and then accepts, stop()    *)
(* does nothing unless it accepts, and listen() returns when the calls     *)
(* under way have ended.                                                   *)
(***************************************************************************)
EXTENDS ModelRepository, Naturals

CONSTANT MaxStarts  \* bound: calls of start()

ASSUME MaxStartsAssumption == MaxStarts \in Nat

VARIABLES
    running,      \* running_
    http_server,  \* is http_server_ set?
    http,         \* httplib: "off", "accepting" (is_running()), "stopped"
    serve,        \* where the serve thread is; "none" when it is joined or was not started
    stopper,      \* where stop() is
    waiter,       \* where wait() or wait_for() is
    starts        \* calls of start() so far

server == <<running, http_server, http, serve, stopper, waiter, starts>>
vars == <<repository, server>>

ServerTypeOK ==
    /\ TypeOK
    /\ running \in BOOLEAN /\ http_server \in BOOLEAN
    /\ http \in {"off", "accepting", "stopped"}
    /\ serve \in {"none", "setup", "listen", "clear", "exited"}
    /\ stopper \in {"idle", "look", "join"}
    /\ waiter \in {"idle", "poll", "join", "done"}
    /\ starts \in 0..MaxStarts

ServerInit ==
    /\ Init
    /\ running = FALSE
    /\ http_server = FALSE
    /\ http = "off"
    /\ serve = "none"
    /\ stopper = "idle"
    /\ waiter = "idle"
    /\ starts = 0
-----------------------------------------------------------------------------
Start ==
    /\ stopper = "idle" /\ serve = "none" /\ starts < MaxStarts
    /\ starts' = starts + 1
    /\ running' = TRUE
    /\ serve' = "setup"
    /\ UNCHANGED <<repository, http_server, http, stopper, waiter>>

(* Mutant: running_ is not looked at again. *)
MutPublishHandle ==
    /\ serve = "setup"
    /\ serve' = "listen" /\ http_server' = TRUE
    /\ UNCHANGED <<repository, running, http, stopper, waiter, starts>>

(* serve_loop(): the handle is published under server_mutex_, unless       *)
(* stop() has been there.                                                  *)
PublishHandle ==
    /\ serve = "setup"
    /\ \/ running /\ serve' = "listen" /\ http_server' = TRUE
       \/ ~running /\ serve' = "exited" /\ UNCHANGED http_server
    /\ UNCHANGED <<repository, running, http, stopper, waiter, starts>>

Listen ==
    /\ serve = "listen" /\ http = "off"
    /\ \/ http' = "accepting" /\ UNCHANGED serve
       \/ serve' = "clear" /\ UNCHANGED http  \* the port cannot be bound
    /\ UNCHANGED <<repository, running, http_server, stopper, waiter, starts>>

ListenReturns ==
    /\ serve = "listen" /\ http = "stopped"
    /\ Idle
    /\ serve' = "clear"
    /\ http' = "off"
    /\ UNCHANGED <<repository, running, http_server, stopper, waiter, starts>>

ClearHandle ==
    /\ serve = "clear"
    /\ serve' = "exited"
    /\ http_server' = FALSE
    /\ UNCHANGED <<repository, running, http, stopper, waiter, starts>>
-----------------------------------------------------------------------------
(* stop().  It and wait() both join server_thread_, which two threads must *)
(* not do at once: the program calls one while the other is not under way. *)
Stop ==
    /\ stopper = "idle" /\ starts > 0
    /\ waiter \in {"idle", "done"}
    /\ stopper' = "look"
    /\ running' = FALSE
    /\ UNCHANGED <<repository, http_server, http, serve, waiter, starts>>

(* One look under server_mutex_; with the handle there and the server not  *)
(* yet accepting, sleep and look again.                                    *)
Look ==
    /\ stopper = "look"
    /\ ~http_server \/ http # "off"
    /\ stopper' = "join"
    /\ http' = IF http_server THEN "stopped" ELSE http
    /\ UNCHANGED <<repository, running, http_server, serve, waiter, starts>>

Join ==
    /\ stopper = "join"
    /\ serve \in {"none", "exited"}
    /\ serve' = "none"
    /\ stopper' = "idle"
    /\ UNCHANGED <<repository, running, http_server, http, waiter, starts>>

(* wait(), or wait_for(), which looks at running_ until it is cleared or   *)
(* the timeout expires.                                                    *)
Wait ==
    /\ waiter = "idle" /\ serve # "none"
    /\ stopper = "idle"
    /\ waiter' \in {"poll", "join"}
    /\ UNCHANGED <<repository, running, http_server, http, serve, stopper, starts>>

Poll ==
    /\ waiter = "poll"
    /\ waiter' = IF running THEN "done" ELSE "join"
    /\ UNCHANGED <<repository, running, http_server, http, serve, stopper, starts>>

WaiterJoins ==
    /\ waiter = "join"
    /\ serve \in {"none", "exited"}
    /\ serve' = "none"
    /\ waiter' = "done"
    /\ UNCHANGED <<repository, running, http_server, http, stopper, starts>>
-----------------------------------------------------------------------------
ServeStep == PublishHandle \/ Listen \/ ListenReturns \/ ClearHandle
StopStep == Look \/ Join

Next ==
    \/ http = "accepting" /\ Arrives /\ UNCHANGED server
    \/ Handle /\ UNCHANGED server
    \/ Start \/ ServeStep \/ Stop \/ StopStep
    \/ Wait \/ Poll \/ WaiterJoins

Spec == ServerInit /\ [][Next]_vars

(* The serve thread, the handlers, the batch threads and stop(), once it   *)
(* is called, run.  Nobody has to call anything.                           *)
FairSpec ==
    /\ Spec
    /\ \A r \in Predict : WF_vars(PredictStep(r) /\ UNCHANGED server)
    /\ \A l \in Load : WF_vars(LoadStep(l) /\ UNCHANGED server)
    /\ \A u \in Unload : WF_vars(UnloadStep(u) /\ UNCHANGED server)
    /\ WF_vars(ServeStep)
    /\ WF_vars(StopStep)
-----------------------------------------------------------------------------
(* Every predict call gets its reply, with models being replaced and       *)
(* unloaded under it (server.cpp 1060-1133).  unload_model() returns       *)
(* although it waits for the batch thread with mutex_ held, and what waits *)
(* for that thread may wait for mutex_ (server.cpp 409-419).  stop()       *)
(* returns, whether it comes before the handle is published, before the    *)
(* server accepts, while calls are under way or when the port could not be *)
(* bound (server.cpp 527-569, 1194-1213).                                  *)
EveryCallReturns ==
    /\ \A r \in Predict : predict[r].at = "get" ~> predict[r].at = "done"
    /\ \A u \in Unload : unload[u].at = "find" ~> unload[u].at = "done"
    /\ stopper = "look" ~> stopper = "idle"
=============================================================================
