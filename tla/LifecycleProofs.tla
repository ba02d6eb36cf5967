-------------------------- MODULE LifecycleProofs --------------------------
(***************************************************************************)
(* The process for every size of the pool, every number of signals and     *)
(* every thread they land on: nothing that runs uses an object that is     *)
(* gone, and the first signal does not either.                             *)
(***************************************************************************)
EXTENDS Lifecycle, TLAPS

Before   == {"down", "starting", "open"}
Preparing   == {"started", "construct"}
Up       == {"listening", "listen", "serve", "drain"}
Stopping == {"stop", "join", "stopped"}
Left     == {"clean", "return"}
Over     == {"fatal", "exit"}

MainAt   == Before \union {"start"} \union Preparing \union Up \union Stopping
              \union Left \union {"returned", "unwind"} \union Over
WorkerAt == {"none", "sync", "synced", "wait", "done"}
PoolAt   == {"none", "idle", "work", "answered"}

LifeTypeOK ==
  /\ pc \in [Threads -> MainAt \union WorkerAt \union PoolAt]
  /\ pc["main"] \in MainAt /\ pc["worker"] \in WorkerAt
  /\ \A t \in Pool : pc[t] \in PoolAt
  /\ handler \in [Threads -> {"none", "log", "stop"}]
  /\ owner \in Threads \union {Nobody}
  /\ alive \subseteq {"db", "worker", "server"}
  /\ socket \in {"none", "open", "closed"}
  /\ signals \in Nat /\ failed \subseteq Faults

\* Whoever holds the logger's mutex is at a log call.
Owned == owner # Nobody => pc[owner] \in Logging

\* The objects that exist, by main's position.
Objects ==
  LET m == pc["main"]
  IN  /\ m \in Before \union Over => alive = {}
      /\ m = "start" => alive = {"db"}
      /\ m \in Preparing \union {"returned", "unwind"} => alive = {"db", "worker"}
      /\ m \in Up \union Left => alive = {"db", "worker", "server"}
      /\ m \in Stopping => {"db", "worker"} \subseteq alive

\* The threads that exist, by main's position.
Running ==
  LET m == pc["main"]
  IN  /\ m \in Before \union {"start"} => pc["worker"] = "none"
      /\ m \in {"stopped", "returned", "unwind"} \union Left => pc["worker"] = "done"
      /\ m \in Over => pc["worker"] \in {"none", "done"}
      /\ m \notin {"serve", "drain"} => \A t \in Pool : pc[t] = "none"

\* The way out of listen without a failure is a closed socket, and leaves the
\* server for later.
Closed ==
  LET m == pc["main"]
  IN  /\ m \in Before \union {"start"} \union Preparing => ~installed
      /\ installed /\ "listen" \notin failed =>
           /\ m \in {"drain", "returned"} \union Stopping \union Left \union Over =>
                socket = "closed"
           /\ m \in Stopping => "server" \in alive
           /\ m # "unwind"

\* A handler runs for a signal that was sent, and a socket is closed by one
\* that has ended.
Handled ==
  /\ ~installed => dangled = {} /\ \A t \in Threads : handler[t] = "none"
  /\ signals = 0 => /\ \A t \in Threads : handler[t] = "none"
                    /\ socket # "closed"
  /\ signals = 1 => /\ \A t, u \in Threads :
                         handler[t] # "none" /\ handler[u] # "none" => t = u
                    /\ socket = "closed" => \A t \in Threads : handler[t] = "none"

LifeInv == /\ LifeTypeOK /\ Owned /\ Objects /\ Running /\ Closed /\ Handled
           /\ FirstSignalIsSafe

\* The process starts with nothing built and no signal sent.
LEMMA LifeInit == Init => LifeInv
BY LifecycleAssumption DEF Init, Down, LifeInv, LifeTypeOK, Owned, Objects, Running,
   Closed, Handled, FirstSignalIsSafe, Threads, MainAt, WorkerAt, PoolAt, Before,
   Preparing, Up, Stopping, Left, Over

\* One step per action.
LEMMA LifeStep == LifeInv /\ [Next]_vars => LifeInv'
<1> SUFFICES ASSUME LifeInv, [Next]_vars PROVE LifeInv'
  OBVIOUS
<1> USE LifecycleAssumption
        DEF LifeInv, LifeTypeOK, Owned, Objects, Running, Closed, Handled,
            FirstSignalIsSafe, MainAt, WorkerAt, PoolAt, Before, Preparing, Up, Stopping,
            Left, Over, frame, objectVars, ghostVars, Threads, Moves, Runs, Goto
<1>1. CASE Start
  BY <1>1 DEF Start, Logging
<1>2. CASE OpenDatabase
  BY <1>2 DEF OpenDatabase, Logging
<1>3. CASE OpenFails
  <2>1. LifeTypeOK' /\ Owned' /\ Objects'
    BY <1>3 DEF OpenFails, Logging
  <2>2. Running' /\ Closed' /\ Handled'
    BY <1>3 DEF OpenFails
  <2>3. FirstSignalIsSafe'
    <3>1. dangled' = {}
      BY <1>3 DEF OpenFails
    <3> QED  BY <3>1
  <2> QED  BY <2>1, <2>2, <2>3
<1>4. CASE StartWorker
  <2>1. pc' = [pc EXCEPT !["main"] = "started", !["worker"] = "sync"]
    BY <1>4 DEF StartWorker
  <2>2. /\ pc' \in [Threads -> MainAt \union WorkerAt \union PoolAt]
        /\ pc'["main"] = "started" /\ pc'["worker"] = "sync"
        /\ \A t \in Pool : pc'[t] = pc[t]
    <3>1. pc \in [Threads -> MainAt \union WorkerAt \union PoolAt]
      OBVIOUS
    <3>2. /\ "started" \in MainAt /\ "sync" \in WorkerAt
          /\ "main" \in Threads /\ "worker" \in Threads
          /\ \A t \in Pool : t \in Threads \ {"main", "worker"}
      OBVIOUS
    <3> HIDE DEF LifeInv, Threads, MainAt, WorkerAt, PoolAt
    <3> QED  BY <2>1, <3>1, <3>2
  <2>3. LifeTypeOK' /\ Objects'
    <3>1. alive' = {"db", "worker"}
      BY <1>4 DEF StartWorker
    <3>2. UNCHANGED <<handler, owner, socket, signals, failed>>
      BY <1>4 DEF StartWorker
    <3>3. LifeTypeOK'
      BY <2>2, <3>1, <3>2
    <3> QED  BY <2>2, <3>1, <3>3
  <2>4. Owned'
    BY <1>4 DEF StartWorker, Logging
  <2>5. Running' /\ Closed' /\ Handled' /\ FirstSignalIsSafe'
    BY <1>4 DEF StartWorker
  <2> QED  BY <2>3, <2>4, <2>5
<1>5. CASE Construct
  BY <1>5 DEF Construct, Logging
<1>6. CASE Listen
  BY <1>6 DEF Listen, Together, Logging
<1>7. CASE ListenFails
  BY <1>7 DEF ListenFails, Logging
<1>8. CASE AcceptEnds
  BY <1>8 DEF AcceptEnds, Logging
<1>9. CASE Drain
  BY <1>9 DEF Drain, Together, Logging
<1>10. CASE StopWorker
  BY <1>10 DEF StopWorker, Logging
<1>11. CASE Join
  BY <1>11 DEF Join, Logging
<1>12. CASE DestroyLocals
  <2>1. CASE Destroy({"server"}, "return", "returned")
    BY <2>1 DEF Destroy, Logging
  <2>2. CASE Destroy({"db", "worker"}, "returned", "exit")
    BY <2>2 DEF Destroy, Logging
  <2>3. CASE Destroy({"db", "worker"}, "unwind", "fatal")
    BY <2>3 DEF Destroy, Logging
  <2> QED  BY <1>12, <2>1, <2>2, <2>3 DEF DestroyLocals
<1>13. CASE Ends
  BY <1>13 DEF Ends, Down
<1>14. CASE Worker
  <2>1. ASSUME NEW l \in {"sync", "wait"}, NEW m \in {"synced", "sync", "done"},
               Moves("worker", l, m)
        PROVE  LifeInv'
    BY <2>1 DEF Logging
  <2> QED  BY <1>14, <2>1 DEF Worker, Sync, Wait
<1>15. ASSUME NEW t \in Pool, Request(t) \/ Work(t) PROVE LifeInv'
  <2>1. CASE Request(t)
    BY <1>15, <2>1 DEF Request, Logging
  <2>2. CASE Work(t)
    BY <1>15, <2>2 DEF Work, Logging
  <2> QED  BY <1>15, <2>1, <2>2
<1>16. ASSUME NEW t \in Threads, Lock(t) PROVE LifeInv'
  BY <1>16 DEF Lock
<1>17. ASSUME NEW t \in Threads, Unlock(t) PROVE LifeInv'
  BY <1>17 DEF Unlock, After, Logging
<1>18. ASSUME NEW t \in Threads, Signal(t) PROVE LifeInv'
  BY <1>18 DEF Signal, Exists
<1>19. ASSUME NEW t \in Threads, HandlerLogs(t) PROVE LifeInv'
  BY <1>19 DEF HandlerLogs
<1>20. ASSUME NEW t \in Threads, HandlerStops(t) PROVE LifeInv'
  BY <1>20 DEF HandlerStops
<1>21. CASE EarlySignal
  <2>1. CASE ~Ends
    <3>1. /\ ~installed /\ signals' = signals + 1
          /\ UNCHANGED <<pc, handler, owner, alive, installed, socket, running,
                         failed, dangled>>
      BY <1>21, <2>1 DEF EarlySignal
    <3>2. LifeTypeOK' /\ Owned' /\ Objects' /\ Running' /\ Closed'
      BY <3>1
    <3>3. Handled' /\ FirstSignalIsSafe'
      BY <3>1
    <3> QED  BY <3>2, <3>3
  <2> QED  BY <1>13, <2>1
<1>22. CASE UNCHANGED vars
  BY <1>22 DEF vars
<1> QED
  BY <1>1, <1>2, <1>3, <1>4, <1>5, <1>6, <1>7, <1>8, <1>9, <1>10, <1>11,
     <1>12, <1>13, <1>14, <1>15, <1>16, <1>17, <1>18, <1>19, <1>20, <1>21, <1>22
  DEF Next, Main, Exit, Kill, Logs

\* Every state of the process satisfies the invariant.
LEMMA LifeCorrect == Spec => []LifeInv
BY LifeInit, LifeStep, PTL DEF Spec

\* Nothing that runs uses an object before it is constructed or after it is
\* destroyed, on every way out of main (the order of main's locals and joins).
THEOREM ObjectsOutliveUsers == Spec => []UsesLiveObjects
<1>1. LifeInv => UsesLiveObjects
  <2> SUFFICES ASSUME LifeInv PROVE UsesLiveObjects
    OBVIOUS
  <2> USE DEF LifeInv, LifeTypeOK, Objects, Running, MainAt, Before, Preparing, Up,
              Stopping, Left, Over
  <2>1. pc["worker"] = "sync" => {"db", "worker"} \subseteq alive
    OBVIOUS
  <2>2. \A t \in Pool : pc[t] = "work" => alive = {"db", "worker", "server"}
    OBVIOUS
  <2> QED  BY <2>1, <2>2 DEF UsesLiveObjects
<1> QED  BY <1>1, LifeCorrect, PTL

\* One signal is safe wherever it lands: it takes a second one, or a failed
\* listen(), for the handler to find a dangling g_api_server.
THEOREM SignalSafe == Spec => []FirstSignalIsSafe
<1>1. LifeInv => FirstSignalIsSafe
  BY DEF LifeInv
<1> QED  BY <1>1, LifeCorrect, PTL

=============================================================================
