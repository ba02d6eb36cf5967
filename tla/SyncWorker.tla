----------------------------- MODULE SyncWorker -----------------------------
(***************************************************************************)
(* The synchronisation of nginx with the routes table: the background      *)
(* thread of src/src/worker/sync_worker.cpp with everything it calls (the  *)
(* database, ConfigGenerator::write, NginxController::apply, docker exec), *)
(* the main thread that starts and stops it, the HTTP handlers that write  *)
(* the table and trigger it, and the nginx process that reads its file.    *)
(*                                                                         *)
(* Handlers are seen here as what they do to the table and the worker; how *)
(* they decide is the subject of AdminApi.                                 *)
(***************************************************************************)
EXTENDS Database, Nginx

CONSTANTS Handlers,    \* threads of the HTTP server's pool
          NewRoutes,   \* the routes requests create
          Patches,     \* the updates requests make
          MaxCommits,  \* bound on the number of commits
          Faults,      \* kinds of failure that may happen
          MaxFaults    \* bound on the number of failures

FaultKinds == {"sqlite", "readback", "volume", "short", "docker", "bind",
               "crash", "nginx"}

ASSUME BoundsAssumption == /\ MaxCommits \in Nat
                           /\ MaxFaults \in Nat
                           /\ Faults \subseteq FaultKinds
ASSUME InputsAssumption == /\ NewRoutes \subseteq NewRoute
                           /\ Patches \subseteq RouteUpdate

VARIABLES wpc,       \* where the worker thread is
          snap,      \* the commit list_enabled_routes saw last; 0: none
          result,    \* ApplyResult::ok of the sync in progress
          statusOk,  \* status_.last_sync_ok
          wake,      \* wake_requested_
          running,   \* running_
          mpc,       \* where the main thread is
          hpc,       \* where each handler is
          faults     \* number of failures so far

workerVars == <<wpc, snap, result, statusOk, wake>>
apiVars    == <<running, mpc, hpc>>
vars == <<dbVars, nginxVars, workerVars, apiVars, faults>>

\* What a step of each thread leaves alone.
handlerFrame == <<dbVars, nginxVars, snap, result, statusOk, running, mpc, faults>>
syncFrame    == <<dbVars, log, snap, statusOk, wake, apiVars>>
runFrame     == <<dbVars, nginxVars, snap, result, statusOk, apiVars, faults>>
mainFrame    == <<dbVars, nginxVars, snap, result, statusOk, hpc>>

\* The steps of run() and sync_once(), in program order.
Syncing == {"read", "open", "fill", "rename", "test", "reload", "record"}
Resting == {"head", "wait", "sleep", "woken"}

NoFault  == UNCHANGED faults
Fault(k) == /\ k \in Faults
            /\ faults < MaxFaults
            /\ faults' = faults + 1

-----------------------------------------------------------------------------
Init == /\ DbInit /\ NginxInit
        /\ wpc = "off" /\ snap = 0 /\ result = FALSE /\ statusOk = FALSE
        /\ wake = FALSE /\ running = FALSE
        /\ mpc = "down" /\ hpc = [h \in Handlers |-> "idle"]
        /\ faults = 0

-----------------------------------------------------------------------------
(* HTTP handlers *)
\* A request that may write the table is taken from the socket.
Arrive(h) ==
  /\ mpc = "serve" /\ hpc[h] = "idle"
  /\ hpc' = [hpc EXCEPT ![h] = "busy"]
  /\ UNCHANGED <<handlerFrame, wpc, wake>>

\* A write of the database, committed even if the socket has been closed since
\* the request came in.  The handler goes on to trigger() unless reading the
\* row back fails, which create_route and update_route report as an exception
\* after the commit.
Commit(h, readsBack) ==
  /\ hpc[h] = "busy"
  /\ Latest <= MaxCommits
  /\ log' = Append(log, list_enabled_routes(rows'))
  /\ \/ hpc' = [hpc EXCEPT ![h] = "trigger"] /\ NoFault
     \/ readsBack /\ Fault("readback") /\ hpc' = [hpc EXCEPT ![h] = "idle"]
  /\ UNCHANGED <<confVars, procVars, workerVars, running, mpc>>

Create(h) == \E new \in NewRoutes, ip \in Addrs :
                CreateRoute(new, ip) /\ Commit(h, TRUE)
Update(h) == \E id \in Ids, patch \in Patches :
                UpdateRoute(id, patch) /\ Commit(h, TRUE)
Delete(h) == \E id \in Ids : DeleteRoute(id) /\ Commit(h, FALSE)

\* Nothing to commit: the request is refused or fails, or it is a PATCH of a
\* route deleted since it was looked up, which triggers all the same.
CommitNothing(h) ==
  /\ hpc[h] = "busy"
  /\ \E l \in {"idle", "trigger"} : hpc' = [hpc EXCEPT ![h] = l]
  /\ UNCHANGED <<handlerFrame, wpc, wake>>

\* trigger(): wake_requested_ = true under cv_mutex_ ...
SetWake(h) ==
  /\ hpc[h] = "trigger"
  /\ wake' = TRUE
  /\ hpc' = [hpc EXCEPT ![h] = "notify"]
  /\ UNCHANGED <<handlerFrame, wpc>>

\* Mutant of NotifyAll: nobody is notified.
NotifyAll_Forgotten == UNCHANGED wpc

\* ... then cv_.notify_all(), which sends a sleeping worker back to its
\* predicate and is lost on one that does not sleep.
NotifyAll == wpc' = IF wpc = "sleep" THEN "wait" ELSE wpc

Notify(h) ==
  /\ hpc[h] = "notify"
  /\ NotifyAll
  /\ hpc' = [hpc EXCEPT ![h] = "idle"]
  /\ UNCHANGED <<handlerFrame, wake>>

-----------------------------------------------------------------------------
(* sync_once *)
Goes(l) == wpc' = l /\ UNCHANGED result /\ NoFault

\* apply returns, or the exception is caught.
Ends(ok) == wpc' = "record" /\ result' = ok

\* list_enabled_routes: one statement under the database's mutex.
ReadRoutes ==
  /\ wpc = "read"
  /\ \/ snap' = Latest /\ Goes("open")
     \/ Fault("sqlite") /\ Ends(FALSE) /\ UNCHANGED snap
  /\ UNCHANGED <<dbVars, nginxVars, statusOk, wake, apiVars>>

OpenFile ==
  /\ wpc = "open"
  /\ \/ OpenTmp(snap) /\ Goes("fill")
     \/ Fault("volume") /\ Ends(FALSE) /\ UNCHANGED confVars
  /\ UNCHANGED <<syncFrame, procVars>>

FillFile ==
  /\ wpc = "fill"
  /\ \/ FillTmp(snap, "none") /\ NoFault
     \/ \E c \in Cuts : FillTmp(snap, c) /\ Fault("short")
  /\ wpc' = "rename"
  /\ UNCHANGED <<syncFrame, procVars, result>>

RenameFile ==
  /\ wpc = "rename"
  /\ \/ RenameTmp /\ Goes("test")
     \/ Fault("volume") /\ Ends(FALSE) /\ UNCHANGED confVars
  /\ UNCHANGED <<syncFrame, procVars>>

\* reload_nginx, first half: nothing is reloaded unless `nginx -t` passes.
TestConfig ==
  /\ wpc = "test"
  /\ \/ TestPasses /\ Goes("reload")
     \/ ~TestPasses /\ Ends(FALSE) /\ NoFault
     \/ Fault("docker") /\ Ends(FALSE)
  /\ UNCHANGED <<syncFrame, confVars, procVars>>

\* Second half: the reload may fail before docker runs it, or be reported as
\* failed (a timeout, no exit status) although docker does.
Reload ==
  /\ wpc = "reload"
  /\ \/ up /\ SignalMaster /\ Ends(TRUE) /\ NoFault
     \/ ~up /\ Ends(FALSE) /\ UNCHANGED procVars /\ NoFault
     \/ Fault("docker") /\ Ends(FALSE) /\ (GiveUp \/ UNCHANGED procVars)
  /\ UNCHANGED <<syncFrame, confVars>>

\* Mutant of Record: wake_requested_ is cleared after the sync, not before.
Record_ClearsWake ==
  /\ wpc = "record"
  /\ statusOk' = result /\ wpc' = "head" /\ wake' = FALSE
  /\ UNCHANGED <<dbVars, nginxVars, snap, result, apiVars, faults>>

\* The status, under status_mutex_; catch (std::exception) ends here too.
Record ==
  /\ wpc = "record"
  /\ statusOk' = result /\ wpc' = "head"
  /\ UNCHANGED <<dbVars, nginxVars, snap, result, wake, apiVars, faults>>

-----------------------------------------------------------------------------
(* run *)
\* while (running_.load()).
LoopHead == /\ wpc = "head"
            /\ wpc' = IF running THEN "wait" ELSE "exit"
            /\ UNCHANGED <<runFrame, wake>>

\* cv_.wait_for's predicate, evaluated with cv_mutex_ held: go on and clear
\* wake_requested_, or release the mutex and sleep in one step.
Wait ==
  /\ wpc = "wait"
  /\ \/ (wake \/ ~running) /\ wake' = FALSE /\ wpc' = "woken"
     \/ ~wake /\ running /\ wpc' = "sleep" /\ UNCHANGED wake
  /\ UNCHANGED runFrame

\* A spurious wakeup evaluates the predicate again.
SpuriousWakeup == /\ wpc = "sleep"
                  /\ wpc' = "wait"
                  /\ UNCHANGED <<runFrame, wake>>

\* Mutant of Tick: wait() in a loop on the predicate, without a deadline.
Tick_Rechecks == SpuriousWakeup

\* The interval is over: wait_for returns whatever the predicate says.
Tick == /\ wpc = "sleep"
        /\ wake' = FALSE /\ wpc' = "woken"
        /\ UNCHANGED runFrame

\* if (!running_.load()) break; sync_once();
Woken == /\ wpc = "woken"
         /\ wpc' = IF running THEN "read" ELSE "exit"
         /\ UNCHANGED <<runFrame, wake>>

-----------------------------------------------------------------------------
(* main *)
\* The process starts: the database is opened, sync_worker.start().
Boot == /\ mpc = "down"
        /\ mpc' = "boot" /\ running' = TRUE /\ wpc' = "read"
        /\ UNCHANGED <<mainFrame, wake, faults>>

\* api_server.listen binds and serves, or throws, and ~SyncWorker stops the
\* worker.
Listen == /\ mpc = "boot"
          /\ \/ mpc' = "serve" /\ NoFault
             \/ mpc' = "stop" /\ Fault("bind")
          /\ UNCHANGED <<mainFrame, wpc, wake, running>>

\* SIGTERM: ApiServer::stop closes the listening socket.
Terminate == /\ mpc = "serve"
             /\ mpc' = "drain"
             /\ UNCHANGED <<mainFrame, wpc, wake, running, faults>>

\* listen returns when the thread pool has finished its requests.
ListenReturns == /\ mpc = "drain"
                 /\ \A h \in Handlers : hpc[h] = "idle"
                 /\ mpc' = "stop"
                 /\ UNCHANGED <<mainFrame, wpc, wake, running, faults>>

\* stop(): running_.exchange(false), which cv_mutex_ does not guard ...
StopRunning == /\ mpc = "stop"
               /\ mpc' = "stopwake" /\ running' = FALSE
               /\ UNCHANGED <<mainFrame, wpc, wake, faults>>

\* ... wake_requested_ = true under the mutex ...
StopWake == /\ mpc = "stopwake"
            /\ mpc' = "stopnotify" /\ wake' = TRUE
            /\ UNCHANGED <<mainFrame, wpc, running, faults>>

\* ... cv_.notify_all() ...
StopNotify == /\ mpc = "stopnotify"
              /\ NotifyAll
              /\ mpc' = "join"
              /\ UNCHANGED <<mainFrame, wake, running, faults>>

\* The end of the process: everything in memory is lost.
Halt == /\ mpc' = "down" /\ running' = FALSE
        /\ hpc' = [h \in Handlers |-> "idle"]
        /\ wpc' = "off" /\ snap' = 0 /\ result' = FALSE
        /\ statusOk' = FALSE /\ wake' = FALSE
        /\ UNCHANGED <<dbVars, log, confVars>>

\* ... thread_.join(), and main returns.
Join == /\ mpc = "join" /\ wpc = "exit"
        /\ Halt /\ UNCHANGED <<procVars, faults>>

\* The process dies anywhere else, perhaps having asked docker for a reload.
Crash == /\ mpc # "down"
         /\ Halt /\ Fault("crash")
         /\ UNCHANGED procVars \/ (wpc = "reload" /\ GiveUp)

NginxCrash == NginxDies /\ Fault("nginx")
              /\ UNCHANGED <<dbVars, workerVars, apiVars>>

NginxStep == (HandleHup \/ NginxStart)
             /\ UNCHANGED <<dbVars, workerVars, apiVars, faults>>

DockerStep == LateSignal
              /\ UNCHANGED <<dbVars, workerVars, apiVars, faults>>

-----------------------------------------------------------------------------
Request(h) == \/ Arrive(h) \/ Create(h) \/ Update(h) \/ Delete(h)
              \/ CommitNothing(h)

Trigger(h) == SetWake(h) \/ Notify(h)

SyncOnce == ReadRoutes \/ OpenFile \/ FillFile \/ RenameFile \/ TestConfig
            \/ Reload \/ Record

Run == LoopHead \/ Wait \/ Woken

Main == Boot \/ Listen \/ ListenReturns \/ StopRunning \/ StopWake
        \/ StopNotify \/ Join

Next == \/ \E h \in Handlers : Request(h) \/ Trigger(h)
        \/ SyncOnce \/ Run \/ Tick \/ SpuriousWakeup
        \/ Main \/ Terminate \/ Crash
        \/ NginxCrash \/ NginxStep \/ DockerStep

Spec == Init /\ [][Next]_vars

\* Threads that can run do run, the process is restarted when it ends
\* (restart: unless-stopped), and nginx handles its signals.  Nobody has to
\* send a request or a SIGTERM.
Fairness == /\ WF_vars(SyncOnce) /\ WF_vars(Run)
            /\ \A h \in Handlers : WF_vars(Trigger(h))
            /\ WF_vars(Main) /\ WF_vars(NginxStep)

\* An interval too long to count on: only triggers are sure to wake the worker.
FairSpec == Spec /\ Fairness

\* wait_for fixes its deadline when it is called: wakeups that find the
\* predicate false do not put the end of the interval off.
Deadline == SF_vars(Tick)

-----------------------------------------------------------------------------
(* Properties *)

\* What list_enabled_routes may return when n ids have been handed out.
RouteLists(n) == UNION {[T -> Row] : T \in SUBSET (1..n)}

\* Every variable stays in the set of values the code can give it.
LogTypeOK == /\ log \in Seq(RouteLists(seq))
             /\ Latest \in 1..(MaxCommits + 1)

WorkerTypeOK ==
  /\ wpc \in {"off", "exit"} \union Syncing \union Resting
  /\ snap \in 0..Latest

FlagsTypeOK == /\ up \in BOOLEAN /\ hup \in BOOLEAN
               /\ result \in BOOLEAN /\ statusOk \in BOOLEAN
               /\ wake \in BOOLEAN /\ running \in BOOLEAN

ApiTypeOK ==
  /\ mpc \in {"down", "boot", "serve", "drain", "stop", "stopwake",
              "stopnotify", "join"}
  /\ hpc \in [Handlers -> {"idle", "busy", "trigger", "notify"}]
  /\ faults \in 0..MaxFaults

TypeOK == /\ DbTypeOK /\ NginxTypeOK /\ LogTypeOK
          /\ WorkerTypeOK /\ FlagsTypeOK /\ ApiTypeOK

\* The worker does not sleep through a trigger or a stop: while it waits on
\* the condition variable with its predicate true, a notify_all is still to
\* come (SyncWorker::trigger, stop and the wait in run).
NoLostWakeup ==
  wpc = "sleep" /\ (wake \/ ~running) =>
    \/ \E h \in Handlers : hpc[h] = "notify"
    \/ mpc \in {"stopwake", "stopnotify"}

\* stop() joins a thread that is on its way out: the worker does not start to
\* wait after the notification that was meant for it.
NobodyJoinsASleeper == mpc = "join" => wpc # "sleep"

\* No committed write is forgotten: as long as the table differs from what
\* the worker read last, a trigger is on its way, or the worker has still to
\* read, or the failure of its last read stands in the status.
DirtyIsSignalled ==
  snap # Latest =>
    \/ wake
    \/ \E h \in Handlers : hpc[h] = "trigger"
    \/ wpc \in {"off", "read", "woken", "exit"}
    \/ wpc = "record" /\ ~result
    \/ wpc \in {"head", "wait", "sleep"} /\ ~statusOk

\* What last_sync_ok says of the last sync is true until the next one puts its
\* file in place: the file nginx would read is whole, it passes `nginx -t`, it
\* renders the routes that sync read (snap, until the next sync reads again),
\* and nginx, if it runs, uses it or is about to load it.  While a file is
\* tested, reloaded and recorded, /status still shows the outcome of the sync
\* before, and nothing is said of those states: the file may be refused there.
StatusIsHonest ==
  statusOk /\ wpc \notin {"test", "reload", "record"} =>
    /\ file.cut = "none" /\ Valid(file)
    /\ wpc \notin {"open", "fill", "rename"} => file.ver = snap
    /\ up => hup \/ live = file

\* The worker sleeps after a good sync, nobody is about to wake it, and nginx
\* runs and has handled its signals.
Quiescent == /\ wpc = "sleep" /\ statusOk /\ ~wake
             /\ \A h \in Handlers : hpc[h] # "trigger"
             /\ up /\ ~hup

\* What the two give together: when all is quiet, nginx has the table as it
\* is, whatever was committed, lost or torn on the way.
QuiescentInSync == Quiescent => live = Whole(Latest)

\* ConfigGenerator::write's promise: a partially written configuration is
\* never put in place.
NeverPartial == file.cut = "none"

\* nginx uses whole committed states of the table in commit order, whatever
\* crashes or fails (the promise of Publication).
Published == INSTANCE Publication WITH published <- live.ver,
                                       served <- Contents(live)
InCommitOrder == Published!Spec

\* Given the interval, once writes, failures and their retries are over nginx
\* routes by the table, unless the table holds a route nginx refuses.
Convergence ==
  Deadline => <>[](Valid(Whole(Latest)) => up /\ live = Whole(Latest))

\* Every write is synchronised without waiting for the interval: the worker
\* reads a table at least as new, or the process ends, for each commit.
WritesArePickedUp ==
  \A n \in 2..(MaxCommits + 1) :
    Latest >= n ~> (snap >= n \/ mpc = "down")

\* The same, as far as no failure comes in between.
CleanWritesArePickedUp ==
  \A n \in 2..(MaxCommits + 1) :
    Latest >= n /\ faults = 0 ~> (snap >= n \/ mpc = "down" \/ faults > 0)

\* stop() returns: it never waits forever for a worker that sleeps.
StopTerminates == mpc = "stop" ~> mpc = "down"

=============================================================================
