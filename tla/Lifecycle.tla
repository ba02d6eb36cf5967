----------------------------- MODULE Lifecycle -----------------------------
(***************************************************************************)
(* The process from main to exit (src/src/main.cpp): the order in which    *)
(* its objects come and go, the threads that use them, the logger's mutex  *)
(* they all take, and the signal handler, which runs on whatever thread    *)
(* the signal lands on, logs, and stops the server.  What a sync or a      *)
(* request does is the subject of SyncWorker and AdminApi; here it matters *)
(* which objects it uses and when it logs.                                 *)
(***************************************************************************)
EXTENDS Naturals

CONSTANTS Pool,        \* threads of the HTTP server's pool
          Nobody,      \* no thread
          MaxSignals,  \* bound on the signals sent to one process
          Faults       \* what may fail: "open" the database, "listen"

Threads == {"main", "worker"} \union Pool

ASSUME LifecycleAssumption == /\ MaxSignals \in Nat
                              /\ Faults \subseteq {"open", "listen"}
                              /\ Nobody \notin Threads
                              /\ Pool \intersect {"main", "worker"} = {}

VARIABLES pc,         \* where each thread is in its own code
          handler,    \* the signal handler on each thread: none, "log", "stop"
          owner,      \* who holds Logger::mutex_
          alive,      \* the objects that exist, of "db", "worker", "server"
          installed,  \* g_api_server is set and the handlers are installed
          socket,     \* svr_sock_: "none" before listen, "open", "closed"
          running,    \* SyncWorker::running_
          signals,    \* ghost: signals sent to this process
          failed,     \* ghost: what has failed in this process
          dangled     \* ghost: threads whose handler has used a destroyed server

objectVars == <<alive, installed, socket>>
ghostVars  == <<signals, failed, dangled>>
vars  == <<pc, handler, owner, objectVars, running, ghostVars>>
frame == <<handler, owner, objectVars, running, ghostVars>>

Down == [t \in Threads |-> IF t = "main" THEN "down" ELSE "none"]

\* Where a thread is when it calls Logger::log in its own code, and where it
\* goes on.  ~SyncWorker and stop() log "stopped" with and without a server to
\* follow: on the way out of main, or of an exception.
Logging == {"starting", "started", "listening", "stopped", "clean", "fatal",
            "synced", "answered"}

After(l) == CASE l = "starting"  -> "open"
              [] l = "started"   -> "construct"
              [] l = "listening" -> "listen"
              [] l = "stopped"   -> IF "server" \in alive THEN "clean" ELSE "unwind"
              [] l = "clean"     -> "return"
              [] l = "fatal"     -> "exit"
              [] l = "synced"    -> "wait"
              [] l = "answered"  -> "idle"

Init == /\ pc = Down
        /\ handler = [t \in Threads |-> "none"]
        /\ owner = Nobody
        /\ alive = {} /\ installed = FALSE /\ socket = "none"
        /\ running = FALSE
        /\ signals = 0 /\ failed = {} /\ dangled = {}

\* A thread runs its own code unless the signal handler is on top of it.
Runs(t, l) == pc[t] = l /\ handler[t] = "none"

Goto(t, l) == pc' = [pc EXCEPT ![t] = l]

Moves(t, l, m) == Runs(t, l) /\ Goto(t, m) /\ UNCHANGED frame

-----------------------------------------------------------------------------
(* Logger::log *)
Lock(t) == /\ pc[t] \in Logging /\ handler[t] = "none" /\ owner = Nobody
           /\ owner' = t
           /\ UNCHANGED <<pc, handler, objectVars, running, ghostVars>>

Unlock(t) == /\ owner = t /\ handler[t] = "none"
             /\ owner' = Nobody
             /\ Goto(t, After(pc[t]))
             /\ UNCHANGED <<handler, objectVars, running, ghostVars>>

-----------------------------------------------------------------------------
(* main *)
Start == Moves("main", "down", "starting")

OpenDatabase == /\ Runs("main", "open")
                /\ Goto("main", "start") /\ alive' = {"db"}
                /\ UNCHANGED <<handler, owner, installed, socket, running, ghostVars>>

OpenFails == /\ "open" \in Faults /\ Runs("main", "open")
             /\ Goto("main", "fatal") /\ failed' = {"open"}
             /\ UNCHANGED <<handler, owner, objectVars, running, signals, dangled>>

\* sync_worker.start(): the thread runs before start() has logged.
StartWorker ==
  /\ Runs("main", "start")
  /\ alive' = alive \union {"worker"} /\ running' = TRUE
  /\ pc' = [pc EXCEPT !["main"] = "started", !["worker"] = "sync"]
  /\ UNCHANGED <<handler, owner, installed, socket, ghostVars>>

\* The ApiServer, g_api_server and the two calls of std::signal.
Construct == /\ Runs("main", "construct")
             /\ alive' = alive \union {"server"} /\ installed' = TRUE
             /\ Goto("main", "listening")
             /\ UNCHANGED <<handler, owner, socket, running, ghostVars>>

\* main goes on, and every thread of the pool with it.
Together(l, m) == pc' = [t \in Threads |-> IF t = "main" THEN l
                                           ELSE IF t \in Pool THEN m ELSE pc[t]]

\* Mutant of Listen: it serves on a thread of its own and returns at once.
Listen_InBackground ==
  /\ Runs("main", "listen")
  /\ Together("stop", "idle") /\ socket' = "open"
  /\ UNCHANGED <<handler, owner, alive, installed, running, ghostVars>>

\* listen binds and starts the pool ...
Listen == /\ Runs("main", "listen")
          /\ Together("serve", "idle") /\ socket' = "open"
          /\ UNCHANGED <<handler, owner, alive, installed, running, ghostVars>>

\* ... or throws: unwinding destroys the server first, and the worker's
\* destructor then stops it.
ListenFails == /\ "listen" \in Faults /\ Runs("main", "listen")
               /\ Goto("main", "stop") /\ failed' = {"listen"}
               /\ alive' = alive \ {"server"}
               /\ UNCHANGED <<handler, owner, installed, socket, running, signals, dangled>>

\* The accept loop finds its socket closed.
AcceptEnds == socket = "closed" /\ Moves("main", "serve", "drain")

\* The pool finishes its requests and is joined; listen returns.
Drain == /\ Runs("main", "drain")
         /\ \A t \in Pool : Runs(t, "idle")
         /\ Together("stop", "none")
         /\ UNCHANGED frame

\* Mutant of StopWorker: stop() does not tell the worker.
StopWorker_Untold == Moves("main", "stop", "join")

\* SyncWorker::stop: running_ is cleared and the worker woken ...
StopWorker == /\ Runs("main", "stop")
              /\ running' = FALSE
              /\ Goto("main", "join")
              /\ UNCHANGED <<handler, owner, objectVars, ghostVars>>

\* Mutant of Join: the worker is detached, not joined.
Join_Detached == Moves("main", "join", "stopped")

\* ... and joined, handlers on top of it included.
Join == Runs("worker", "done") /\ Moves("main", "join", "stopped")

\* The locals of main go, last constructed first; on the way of an exception
\* the server has gone already, and catch logs.
Destroy(objects, l, m) ==
  /\ Runs("main", l)
  /\ alive' = alive \ objects
  /\ Goto("main", m)
  /\ UNCHANGED <<handler, owner, installed, socket, running, ghostVars>>

DestroyLocals == \/ Destroy({"server"}, "return", "returned")
                 \/ Destroy({"db", "worker"}, "returned", "exit")
                 \/ Destroy({"db", "worker"}, "unwind", "fatal")

\* The process is gone; the container's restart policy starts another.
Ends == /\ pc' = Down
        /\ handler' = [t \in Threads |-> "none"]
        /\ owner' = Nobody
        /\ alive' = {} /\ installed' = FALSE /\ socket' = "none"
        /\ running' = FALSE
        /\ signals' = 0 /\ failed' = {} /\ dangled' = {}

Exit == Runs("main", "exit") /\ Ends

-----------------------------------------------------------------------------
(* The other threads *)
\* run(): a sync, its log call, and the wait, which ends by itself.
Sync == Moves("worker", "sync", "synced")
Wait == Moves("worker", "wait", IF running THEN "sync" ELSE "done")

\* A request is taken from the socket, and worked on to its log call.
Request(t) == socket = "open" /\ Moves(t, "idle", "work")
Work(t)    == Moves(t, "work", "answered")

-----------------------------------------------------------------------------
(* Signals *)
Exists(t) == pc[t] \notin {"none", "down", "done"}

\* SIGTERM or SIGINT before main has installed its handlers does nothing (the
\* process is its container's first) or ends the process (it is not).
EarlySignal == /\ ~installed /\ pc["main"] # "down"
               /\ signals < MaxSignals
               /\ \/ Ends
                  \/ /\ signals' = signals + 1
                     /\ UNCHANGED <<pc, handler, owner, objectVars, running,
                                    failed, dangled>>

\* One that is handled interrupts any thread there is.  It is SIGTERM, as
\* docker stop sends it, and waits while a handler runs on the same thread.
Signal(t) == /\ installed /\ Exists(t) /\ handler[t] = "none"
             /\ signals < MaxSignals
             /\ signals' = signals + 1
             /\ handler' = [handler EXCEPT ![t] = "log"]
             /\ UNCHANGED <<pc, owner, objectVars, running, failed, dangled>>

\* KP_LOG_INFO in the handler: waits for the mutex, forever if the thread it
\* interrupted holds it.
HandlerLogs(t) == /\ handler[t] = "log" /\ owner = Nobody
                  /\ handler' = [handler EXCEPT ![t] = "stop"]
                  /\ UNCHANGED <<pc, owner, objectVars, running, ghostVars>>

\* g_api_server->stop(): closes a socket that listens; nothing resets the
\* pointer when the server goes.
HandlerStops(t) ==
  /\ handler[t] = "stop"
  /\ handler' = [handler EXCEPT ![t] = "none"]
  /\ IF "server" \in alive
     THEN socket' = (IF socket = "open" THEN "closed" ELSE socket) /\ UNCHANGED dangled
     ELSE dangled' = dangled \union {t} /\ UNCHANGED socket
  /\ UNCHANGED <<pc, owner, alive, installed, running, signals, failed>>

\* SIGKILL, or a crash.
Kill == pc["main"] # "down" /\ Ends

-----------------------------------------------------------------------------
Main == \/ Start \/ OpenDatabase \/ OpenFails \/ StartWorker \/ Construct
        \/ Listen \/ ListenFails \/ AcceptEnds \/ Drain \/ StopWorker \/ Join \/ DestroyLocals
        \/ Exit

Worker == Sync \/ Wait

Logs(t) == Lock(t) \/ Unlock(t)

Next == \/ Main \/ Worker
        \/ \E t \in Pool : Request(t) \/ Work(t)
        \/ \E t \in Threads : Logs(t) \/ Signal(t) \/ HandlerLogs(t) \/ HandlerStops(t)
        \/ EarlySignal \/ Kill

\* Every thread runs; one that waits for a mutex which is released over and
\* over gets it.
Fairness == /\ WF_vars(Main) /\ WF_vars(Worker)
            /\ \A t \in Pool : WF_vars(Work(t))
            /\ \A t \in Threads : /\ SF_vars(Logs(t)) /\ SF_vars(HandlerLogs(t))
                                  /\ WF_vars(HandlerStops(t))

Spec == Init /\ [][Next]_vars /\ Fairness

-----------------------------------------------------------------------------
(* Properties *)

\* Whatever way main is left and wherever signals land, a sync uses the
\* database and a request uses server, worker and database only while they
\* exist (the order of main's locals, Drain and Join).
UsesLiveObjects ==
  /\ pc["worker"] = "sync" => {"db", "worker"} \subseteq alive
  /\ \A t \in Pool : pc[t] = "work" => alive = {"db", "worker", "server"}

\* One signal never makes the handler use a server that is gone, unless
\* listen() failed: it takes a second one, during the shutdown it started.
FirstSignalIsSafe ==
  dangled # {} => signals > 1 \/ "listen" \in failed

\* A handler that waits for the mutex its own thread holds.
SelfDeadlock == \E t \in Threads : handler[t] = "log" /\ owner = t

\* A signal handled while the server serves ends the process, through all
\* joins, destructors and log calls, unless it or another one landed on the
\* very thread that was logging (SyncWorker::stop, ApiServer::listen and stop).
StopIsHeeded ==
  \A t \in Threads :
    handler[t] # "none" /\ socket = "open" ~> pc["main"] = "down" \/ SelfDeadlock

\* The handler's message, "received signal {}, shutting down", is true whenever
\* it is logged: listen "blocks until stop() is called".
SignalsStop ==
  \A t \in Threads :
    handler[t] # "none" ~> pc["main"] = "down" \/ SelfDeadlock

=============================================================================
