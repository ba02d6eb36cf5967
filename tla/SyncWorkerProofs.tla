-------------------------- MODULE SyncWorkerProofs --------------------------
(***************************************************************************)
(* The safety of the synchronisation, for every number of handlers, every  *)
(* table and every sequence of commits and failures.                       *)
(***************************************************************************)
EXTENDS SyncWorker, DatabaseProofs

\* What the worker may read only grows with the ids handed out.
LEMMA ListsGrow ==
  ASSUME NEW m \in Nat, NEW n \in Nat, m <= n
  PROVE  RouteLists(m) \subseteq RouteLists(n)
<1>1. 1..m \subseteq 1..n
  OBVIOUS
<1> QED  BY <1>1 DEF RouteLists

\* The enabled routes of the table a statement leaves are such a list.
LEMMA EnabledType ==
  ASSUME DbTypeOK' PROVE list_enabled_routes(rows') \in RouteLists(seq')
<1>1. EnabledIds(rows') \in SUBSET (1..seq')
  BY DEF EnabledIds, DbTypeOK, Ids
<1>2. \A i \in EnabledIds(rows') : rows'[i] \in Row
  BY DEF EnabledIds, DbTypeOK, Ids
<1>3. list_enabled_routes(rows') \in [EnabledIds(rows') -> Row]
  BY <1>2 DEF list_enabled_routes
<1> QED  BY <1>1, <1>3 DEF RouteLists

\* A commit appends one list of routes to the log and changes no earlier one.
LEMMA LogGrows ==
  ASSUME TypeOK, DbTypeOK', seq <= seq',
         log' = Append(log, list_enabled_routes(rows'))
  PROVE  /\ log' \in Seq(RouteLists(seq'))
         /\ Latest' = Latest + 1
         /\ log'[Latest'] = list_enabled_routes(rows')
         /\ \A n \in 1..Latest : log'[n] = log[n]
<1> DEFINE old == RouteLists(seq)
           new == RouteLists(seq')
           x == list_enabled_routes(rows')
<1>1. old \subseteq new
  BY ListsGrow DEF TypeOK, DbTypeOK
<1>2. x \in new
  BY EnabledType
<1>3. log \in Seq(old) /\ log' = Append(log, x)
  BY DEF TypeOK, LogTypeOK
<1> HIDE DEF old, new, x
<1>4. /\ log' \in Seq(new) /\ Len(log') = Len(log) + 1
      /\ log'[Len(log')] = x
      /\ \A n \in 1..Len(log) : log'[n] = log[n]
  BY <1>1, <1>2, <1>3
<1> QED  BY <1>4 DEF new, x, Latest

-----------------------------------------------------------------------------
(* The type invariant *)

\* A whole rendering of a commit is a configuration.
LEMMA WholeType == \A v \in Nat : Whole(v) \in Config
BY DEF Whole, Config

\* The first state is well typed.
LEMMA InitType == Init => TypeOK
<1> SUFFICES ASSUME Init PROVE TypeOK
  OBVIOUS
<1>1. DbTypeOK
  BY DEF Init, DbInit, DbTypeOK, Ids
<1>2. log = <<NoRoutes>> /\ Latest = 1
  BY DEF Init, NginxInit, Latest
<1>3. LogTypeOK
  <2>1. NoRoutes \in [{} -> Row]
    BY DEF NoRoutes
  <2>2. NoRoutes \in RouteLists(seq)
    BY <2>1 DEF RouteLists
  <2> QED  BY <1>2, <2>2, BoundsAssumption DEF LogTypeOK
<1>4. NginxTypeOK
  BY WholeType DEF Init, NginxInit, NginxTypeOK
<1>5. WorkerTypeOK
  BY <1>2 DEF Init, WorkerTypeOK
<1>6. FlagsTypeOK
  BY DEF Init, NginxInit, FlagsTypeOK
<1>7. ApiTypeOK
  BY BoundsAssumption DEF Init, ApiTypeOK
<1> QED  BY <1>1, <1>3, <1>4, <1>5, <1>6, <1>7 DEF TypeOK

\* The three writes of the table share one argument: the new table is well
\* typed, so is its rendering, and only the handler moves.
LEMMA CommitType ==
  ASSUME TypeOK, DbTypeOK', seq <= seq',
         NEW h \in Handlers, NEW b \in BOOLEAN, Commit(h, b)
  PROVE  TypeOK'
<1>1. /\ log' \in Seq(RouteLists(seq'))
      /\ Latest' = Latest + 1
  BY LogGrows DEF Commit
<1>2. LogTypeOK'
  BY <1>1, BoundsAssumption DEF Commit, TypeOK, LogTypeOK
<1>3. NginxTypeOK'
  BY DEF Commit, TypeOK, NginxTypeOK, confVars, procVars
<1>4. WorkerTypeOK'
  BY <1>1 DEF Commit, TypeOK, WorkerTypeOK, LogTypeOK, workerVars
<1>5. FlagsTypeOK'
  BY DEF Commit, TypeOK, FlagsTypeOK, workerVars, procVars
<1>6. ApiTypeOK'
  BY BoundsAssumption DEF Commit, TypeOK, ApiTypeOK, Fault, NoFault
<1> QED  BY <1>2, <1>3, <1>4, <1>5, <1>6 DEF TypeOK

\* A step that commits nothing leaves the table and the log well typed.
LEMMA UnmovedType ==
  ASSUME TypeOK, UNCHANGED <<dbVars, log>>
  PROVE  DbTypeOK' /\ LogTypeOK' /\ Latest' = Latest
BY DEF TypeOK, DbTypeOK, LogTypeOK, RouteLists, Latest, dbVars, Ids

\* Every step preserves the types.
LEMMA TypeStep == TypeOK /\ [Next]_vars => TypeOK'
<1> SUFFICES ASSUME TypeOK, [Next]_vars PROVE TypeOK'
  OBVIOUS
<1> USE DEF handlerFrame, syncFrame, runFrame, mainFrame, Goes, Ends,
            dbVars, nginxVars, confVars, procVars, workerVars, apiVars,
            Config, Syncing, Resting
<1>1. ASSUME NEW h \in Handlers, Create(h) PROVE TypeOK'
  <2>1. PICK new \in NewRoutes, ip \in Addrs :
           CreateRoute(new, ip) /\ Commit(h, TRUE)
    BY <1>1 DEF Create
  <2>2. DbTypeOK' /\ seq <= seq'
    BY <2>1, CreateTyped, InputsAssumption DEF TypeOK, CreateRoute, DbTypeOK
  <2> QED  BY <2>1, <2>2, CommitType
<1>2. ASSUME NEW h \in Handlers, Update(h) PROVE TypeOK'
  <2>1. PICK id \in Ids, patch \in Patches :
           UpdateRoute(id, patch) /\ Commit(h, TRUE)
    BY <1>2 DEF Update
  <2>2. DbTypeOK'
    BY <2>1, UpdateTyped, InputsAssumption DEF TypeOK
  <2>3. seq <= seq'
    BY <2>1 DEF UpdateRoute, TypeOK, DbTypeOK
  <2> QED  BY <2>1, <2>2, <2>3, CommitType
<1>3. ASSUME NEW h \in Handlers, Delete(h) PROVE TypeOK'
  <2>1. PICK id \in Ids : DeleteRoute(id) /\ Commit(h, FALSE)
    BY <1>3 DEF Delete
  <2>2. DbTypeOK' /\ seq <= seq'
    BY <2>1, DeleteTyped DEF TypeOK, DeleteRoute, DbTypeOK
  <2> QED  BY <2>1, <2>2, CommitType
<1>4. ASSUME NEW h \in Handlers, SetWake(h) PROVE TypeOK'
  <2>1. DbTypeOK' /\ LogTypeOK' /\ Latest' = Latest
    BY <1>4, UnmovedType DEF SetWake
  <2>2. NginxTypeOK' /\ WorkerTypeOK' /\ ApiTypeOK'
    BY <1>4, <2>1, BoundsAssumption
    DEF SetWake, TypeOK, NginxTypeOK, WorkerTypeOK, ApiTypeOK
  <2>3. FlagsTypeOK'
    BY <1>4 DEF SetWake, TypeOK, FlagsTypeOK
  <2> QED  BY <2>1, <2>2, <2>3 DEF TypeOK
<1>5. ASSUME NEW h \in Handlers, Notify(h) PROVE TypeOK'
  <2>1. DbTypeOK' /\ LogTypeOK' /\ Latest' = Latest
    BY <1>5, UnmovedType DEF Notify, NotifyAll
  <2>2. NginxTypeOK' /\ WorkerTypeOK' /\ ApiTypeOK'
    BY <1>5, <2>1, BoundsAssumption
    DEF Notify, NotifyAll, TypeOK, NginxTypeOK, WorkerTypeOK, ApiTypeOK
  <2>3. FlagsTypeOK'
    BY <1>5 DEF Notify, NotifyAll, TypeOK, FlagsTypeOK
  <2> QED  BY <2>1, <2>2, <2>3 DEF TypeOK
<1>6. ASSUME NEW h \in Handlers, Arrive(h) \/ CommitNothing(h) PROVE TypeOK'
  <2>1. DbTypeOK' /\ LogTypeOK' /\ Latest' = Latest
    BY <1>6, UnmovedType DEF Arrive, CommitNothing
  <2>2. NginxTypeOK' /\ WorkerTypeOK' /\ ApiTypeOK'
    BY <1>6, <2>1, BoundsAssumption
    DEF Arrive, CommitNothing, TypeOK, NginxTypeOK, WorkerTypeOK, ApiTypeOK
  <2>3. FlagsTypeOK'
    BY <1>6 DEF Arrive, CommitNothing, TypeOK, FlagsTypeOK
  <2> QED  BY <2>1, <2>2, <2>3 DEF TypeOK
<1>7. CASE ReadRoutes
  <2>1. DbTypeOK' /\ LogTypeOK' /\ Latest' = Latest
    BY <1>7, UnmovedType DEF ReadRoutes, Fault, NoFault
  <2>2. NginxTypeOK' /\ WorkerTypeOK' /\ ApiTypeOK'
    BY <1>7, <2>1, BoundsAssumption
    DEF ReadRoutes, Fault, NoFault, TypeOK, LogTypeOK, NginxTypeOK,
        WorkerTypeOK, ApiTypeOK
  <2>3. FlagsTypeOK'
    BY <1>7 DEF ReadRoutes, Fault, NoFault, TypeOK, FlagsTypeOK
  <2> QED  BY <2>1, <2>2, <2>3 DEF TypeOK
<1>8. CASE OpenFile
  <2>1. DbTypeOK' /\ LogTypeOK' /\ Latest' = Latest
    BY <1>8, UnmovedType DEF OpenFile, OpenTmp, Fault, NoFault
  <2>2. NginxTypeOK' /\ WorkerTypeOK' /\ ApiTypeOK'
    BY <1>8, <2>1, BoundsAssumption
    DEF OpenFile, OpenTmp, Fault, NoFault, TypeOK, NginxTypeOK, WorkerTypeOK,
        ApiTypeOK
  <2>3. FlagsTypeOK'
    BY <1>8 DEF OpenFile, OpenTmp, Fault, NoFault, TypeOK, FlagsTypeOK
  <2> QED  BY <2>1, <2>2, <2>3 DEF TypeOK
<1>9. CASE FillFile
  <2>1. DbTypeOK' /\ LogTypeOK' /\ Latest' = Latest
    BY <1>9, UnmovedType DEF FillFile, FillTmp, Fault, NoFault
  <2>2. snap \in Nat /\ Cuts \subseteq {"middle", "empty"}
    BY CutsAssumption DEF TypeOK, WorkerTypeOK, LogTypeOK
  <2>3. NginxTypeOK'
    BY <1>9, <2>2 DEF FillFile, FillTmp, TypeOK, NginxTypeOK
  <2>4. WorkerTypeOK' /\ ApiTypeOK'
    BY <1>9, <2>1, BoundsAssumption
    DEF FillFile, Fault, NoFault, TypeOK, WorkerTypeOK, ApiTypeOK
  <2>5. FlagsTypeOK'
    BY <1>9 DEF FillFile, TypeOK, FlagsTypeOK
  <2> QED  BY <2>1, <2>3, <2>4, <2>5 DEF TypeOK
<1>10. CASE RenameFile
  <2>1. DbTypeOK' /\ LogTypeOK' /\ Latest' = Latest
    BY <1>10, UnmovedType DEF RenameFile, RenameTmp, Fault, NoFault
  <2>2. NginxTypeOK' /\ WorkerTypeOK' /\ ApiTypeOK'
    BY <1>10, <2>1, BoundsAssumption
    DEF RenameFile, RenameTmp, Fault, NoFault, TypeOK, NginxTypeOK,
        WorkerTypeOK, ApiTypeOK
  <2>3. FlagsTypeOK'
    BY <1>10 DEF RenameFile, RenameTmp, Fault, NoFault, TypeOK, FlagsTypeOK
  <2> QED  BY <2>1, <2>2, <2>3 DEF TypeOK
<1>11. CASE TestConfig
  <2>1. DbTypeOK' /\ LogTypeOK' /\ Latest' = Latest
    BY <1>11, UnmovedType DEF TestConfig, Fault, NoFault
  <2>2. NginxTypeOK' /\ WorkerTypeOK' /\ ApiTypeOK'
    BY <1>11, <2>1, BoundsAssumption
    DEF TestConfig, Fault, NoFault, TypeOK, NginxTypeOK, WorkerTypeOK,
        ApiTypeOK
  <2>3. FlagsTypeOK'
    BY <1>11 DEF TestConfig, Fault, NoFault, TypeOK, FlagsTypeOK
  <2> QED  BY <2>1, <2>2, <2>3 DEF TypeOK
<1>12. CASE Reload
  <2>1. DbTypeOK' /\ LogTypeOK' /\ Latest' = Latest
    BY <1>12, UnmovedType DEF Reload, SignalMaster, GiveUp, Fault, NoFault
  <2>2. NginxTypeOK' /\ WorkerTypeOK' /\ ApiTypeOK'
    BY <1>12, <2>1, BoundsAssumption
    DEF Reload, SignalMaster, GiveUp, Fault, NoFault, TypeOK, NginxTypeOK,
        WorkerTypeOK, ApiTypeOK
  <2>3. FlagsTypeOK'
    BY <1>12 DEF Reload, SignalMaster, GiveUp, Fault, NoFault, TypeOK, FlagsTypeOK
  <2> QED  BY <2>1, <2>2, <2>3 DEF TypeOK
<1>13. CASE Record
  <2>1. DbTypeOK' /\ LogTypeOK' /\ Latest' = Latest
    BY <1>13, UnmovedType DEF Record
  <2>2. NginxTypeOK' /\ WorkerTypeOK' /\ ApiTypeOK'
    BY <1>13, <2>1, BoundsAssumption
    DEF Record, TypeOK, NginxTypeOK, WorkerTypeOK, ApiTypeOK
  <2>3. FlagsTypeOK'
    BY <1>13 DEF Record, TypeOK, FlagsTypeOK
  <2> QED  BY <2>1, <2>2, <2>3 DEF TypeOK
<1>14. CASE LoopHead
  <2>1. DbTypeOK' /\ LogTypeOK' /\ Latest' = Latest
    BY <1>14, UnmovedType DEF LoopHead
  <2>2. NginxTypeOK' /\ WorkerTypeOK' /\ ApiTypeOK'
    BY <1>14, <2>1, BoundsAssumption
    DEF LoopHead, TypeOK, NginxTypeOK, WorkerTypeOK, ApiTypeOK
  <2>3. FlagsTypeOK'
    BY <1>14 DEF LoopHead, TypeOK, FlagsTypeOK
  <2> QED  BY <2>1, <2>2, <2>3 DEF TypeOK
<1>15. CASE Wait
  <2>1. DbTypeOK' /\ LogTypeOK' /\ Latest' = Latest
    BY <1>15, UnmovedType DEF Wait
  <2>2. NginxTypeOK' /\ WorkerTypeOK' /\ ApiTypeOK'
    BY <1>15, <2>1, BoundsAssumption
    DEF Wait, TypeOK, NginxTypeOK, WorkerTypeOK, ApiTypeOK
  <2>3. FlagsTypeOK'
    BY <1>15 DEF Wait, TypeOK, FlagsTypeOK
  <2> QED  BY <2>1, <2>2, <2>3 DEF TypeOK
<1>16. CASE Tick
  <2>1. DbTypeOK' /\ LogTypeOK' /\ Latest' = Latest
    BY <1>16, UnmovedType DEF Tick
  <2>2. NginxTypeOK' /\ WorkerTypeOK' /\ ApiTypeOK'
    BY <1>16, <2>1, BoundsAssumption
    DEF Tick, TypeOK, NginxTypeOK, WorkerTypeOK, ApiTypeOK
  <2>3. FlagsTypeOK'
    BY <1>16 DEF Tick, TypeOK, FlagsTypeOK
  <2> QED  BY <2>1, <2>2, <2>3 DEF TypeOK
<1>17. CASE SpuriousWakeup
  <2>1. DbTypeOK' /\ LogTypeOK' /\ Latest' = Latest
    BY <1>17, UnmovedType DEF SpuriousWakeup
  <2>2. NginxTypeOK' /\ WorkerTypeOK' /\ ApiTypeOK'
    BY <1>17, <2>1, BoundsAssumption
    DEF SpuriousWakeup, TypeOK, NginxTypeOK, WorkerTypeOK, ApiTypeOK
  <2>3. FlagsTypeOK'
    BY <1>17 DEF SpuriousWakeup, TypeOK, FlagsTypeOK
  <2> QED  BY <2>1, <2>2, <2>3 DEF TypeOK
<1>18. CASE Woken
  <2>1. DbTypeOK' /\ LogTypeOK' /\ Latest' = Latest
    BY <1>18, UnmovedType DEF Woken
  <2>2. NginxTypeOK' /\ WorkerTypeOK' /\ ApiTypeOK'
    BY <1>18, <2>1, BoundsAssumption
    DEF Woken, TypeOK, NginxTypeOK, WorkerTypeOK, ApiTypeOK
  <2>3. FlagsTypeOK'
    BY <1>18 DEF Woken, TypeOK, FlagsTypeOK
  <2> QED  BY <2>1, <2>2, <2>3 DEF TypeOK
<1>19. CASE Boot
  <2>1. DbTypeOK' /\ LogTypeOK' /\ Latest' = Latest
    BY <1>19, UnmovedType DEF Boot
  <2>2. NginxTypeOK' /\ WorkerTypeOK' /\ ApiTypeOK'
    BY <1>19, <2>1, BoundsAssumption
    DEF Boot, TypeOK, NginxTypeOK, WorkerTypeOK, ApiTypeOK
  <2>3. FlagsTypeOK'
    BY <1>19 DEF Boot, TypeOK, FlagsTypeOK
  <2> QED  BY <2>1, <2>2, <2>3 DEF TypeOK
<1>20. CASE Listen
  <2>1. DbTypeOK' /\ LogTypeOK' /\ Latest' = Latest
    BY <1>20, UnmovedType DEF Listen, Fault, NoFault
  <2>2. NginxTypeOK' /\ WorkerTypeOK' /\ ApiTypeOK'
    BY <1>20, <2>1, BoundsAssumption
    DEF Listen, Fault, NoFault, TypeOK, NginxTypeOK, WorkerTypeOK, ApiTypeOK
  <2>3. FlagsTypeOK'
    BY <1>20 DEF Listen, Fault, NoFault, TypeOK, FlagsTypeOK
  <2> QED  BY <2>1, <2>2, <2>3 DEF TypeOK
<1>21. CASE Terminate
  <2>1. DbTypeOK' /\ LogTypeOK' /\ Latest' = Latest
    BY <1>21, UnmovedType DEF Terminate
  <2>2. NginxTypeOK' /\ WorkerTypeOK' /\ ApiTypeOK'
    BY <1>21, <2>1, BoundsAssumption
    DEF Terminate, TypeOK, NginxTypeOK, WorkerTypeOK, ApiTypeOK
  <2>3. FlagsTypeOK'
    BY <1>21 DEF Terminate, TypeOK, FlagsTypeOK
  <2> QED  BY <2>1, <2>2, <2>3 DEF TypeOK
<1>22. CASE ListenReturns
  <2>1. DbTypeOK' /\ LogTypeOK' /\ Latest' = Latest
    BY <1>22, UnmovedType DEF ListenReturns
  <2>2. NginxTypeOK' /\ WorkerTypeOK' /\ ApiTypeOK'
    BY <1>22, <2>1, BoundsAssumption
    DEF ListenReturns, TypeOK, NginxTypeOK, WorkerTypeOK, ApiTypeOK
  <2>3. FlagsTypeOK'
    BY <1>22 DEF ListenReturns, TypeOK, FlagsTypeOK
  <2> QED  BY <2>1, <2>2, <2>3 DEF TypeOK
<1>23. CASE StopRunning
  <2>1. DbTypeOK' /\ LogTypeOK' /\ Latest' = Latest
    BY <1>23, UnmovedType DEF StopRunning
  <2>2. NginxTypeOK' /\ WorkerTypeOK' /\ ApiTypeOK'
    BY <1>23, <2>1, BoundsAssumption
    DEF StopRunning, TypeOK, NginxTypeOK, WorkerTypeOK, ApiTypeOK
  <2>3. FlagsTypeOK'
    BY <1>23 DEF StopRunning, TypeOK, FlagsTypeOK
  <2> QED  BY <2>1, <2>2, <2>3 DEF TypeOK
<1>24. CASE StopWake
  <2>1. DbTypeOK' /\ LogTypeOK' /\ Latest' = Latest
    BY <1>24, UnmovedType DEF StopWake
  <2>2. NginxTypeOK' /\ WorkerTypeOK' /\ ApiTypeOK'
    BY <1>24, <2>1, BoundsAssumption
    DEF StopWake, TypeOK, NginxTypeOK, WorkerTypeOK, ApiTypeOK
  <2>3. FlagsTypeOK'
    BY <1>24 DEF StopWake, TypeOK, FlagsTypeOK
  <2> QED  BY <2>1, <2>2, <2>3 DEF TypeOK
<1>25. CASE StopNotify
  <2>1. DbTypeOK' /\ LogTypeOK' /\ Latest' = Latest
    BY <1>25, UnmovedType DEF StopNotify, NotifyAll
  <2>2. NginxTypeOK' /\ WorkerTypeOK' /\ ApiTypeOK'
    BY <1>25, <2>1, BoundsAssumption
    DEF StopNotify, NotifyAll, TypeOK, NginxTypeOK, WorkerTypeOK, ApiTypeOK
  <2>3. FlagsTypeOK'
    BY <1>25 DEF StopNotify, NotifyAll, TypeOK, FlagsTypeOK
  <2> QED  BY <2>1, <2>2, <2>3 DEF TypeOK
<1>26. CASE Join
  <2>1. DbTypeOK' /\ LogTypeOK' /\ Latest' = Latest
    BY <1>26, UnmovedType DEF Join, Halt, NoFault
  <2>2. NginxTypeOK' /\ WorkerTypeOK' /\ ApiTypeOK'
    BY <1>26, <2>1, BoundsAssumption
    DEF Join, Halt, NoFault, TypeOK, LogTypeOK, NginxTypeOK, WorkerTypeOK,
        ApiTypeOK
  <2>3. FlagsTypeOK'
    BY <1>26 DEF Join, Halt, NoFault, TypeOK, FlagsTypeOK
  <2> QED  BY <2>1, <2>2, <2>3 DEF TypeOK
<1>27. CASE Crash
  <2>1. DbTypeOK' /\ LogTypeOK' /\ Latest' = Latest
    BY <1>27, UnmovedType DEF Crash, Halt, GiveUp, Fault
  <2>2. NginxTypeOK' /\ WorkerTypeOK' /\ ApiTypeOK'
    BY <1>27, <2>1, BoundsAssumption
    DEF Crash, Halt, GiveUp, Fault, TypeOK, LogTypeOK, NginxTypeOK, WorkerTypeOK,
        ApiTypeOK
  <2>3. FlagsTypeOK'
    BY <1>27 DEF Crash, Halt, GiveUp, Fault, TypeOK, FlagsTypeOK
  <2> QED  BY <2>1, <2>2, <2>3 DEF TypeOK
<1>28. CASE NginxCrash
  <2>1. DbTypeOK' /\ LogTypeOK' /\ Latest' = Latest
    BY <1>28, UnmovedType DEF NginxCrash, NginxDies, Fault
  <2>2. NginxTypeOK' /\ WorkerTypeOK' /\ ApiTypeOK'
    BY <1>28, <2>1, BoundsAssumption
    DEF NginxCrash, NginxDies, Fault, TypeOK, NginxTypeOK, WorkerTypeOK,
        ApiTypeOK
  <2>3. FlagsTypeOK'
    BY <1>28 DEF NginxCrash, NginxDies, Fault, TypeOK, FlagsTypeOK
  <2> QED  BY <2>1, <2>2, <2>3 DEF TypeOK
<1>29. CASE NginxStep
  <2>1. DbTypeOK' /\ LogTypeOK' /\ Latest' = Latest
    BY <1>29, UnmovedType DEF NginxStep, HandleHup, NginxStart
  <2>2. NginxTypeOK' /\ WorkerTypeOK' /\ ApiTypeOK'
    BY <1>29, <2>1, BoundsAssumption
    DEF NginxStep, HandleHup, NginxStart, TypeOK, NginxTypeOK, WorkerTypeOK,
        ApiTypeOK
  <2>3. FlagsTypeOK'
    BY <1>29 DEF NginxStep, HandleHup, NginxStart, TypeOK, FlagsTypeOK
  <2> QED  BY <2>1, <2>2, <2>3 DEF TypeOK
<1>30. CASE DockerStep
  <2>1. DbTypeOK' /\ LogTypeOK' /\ Latest' = Latest
    BY <1>30, UnmovedType DEF DockerStep, LateSignal
  <2>2. NginxTypeOK' /\ WorkerTypeOK' /\ ApiTypeOK'
    BY <1>30, <2>1, BoundsAssumption
    DEF DockerStep, LateSignal, TypeOK, NginxTypeOK, WorkerTypeOK, ApiTypeOK
  <2>3. FlagsTypeOK'
    BY <1>30 DEF DockerStep, LateSignal, TypeOK, FlagsTypeOK
  <2> QED  BY <2>1, <2>2, <2>3 DEF TypeOK
<1>31. CASE UNCHANGED vars
  BY <1>31, UnmovedType
  DEF vars, TypeOK, NginxTypeOK, WorkerTypeOK, FlagsTypeOK, ApiTypeOK
<1> QED
  BY <1>1, <1>2, <1>3, <1>4, <1>5, <1>6, <1>7, <1>8, <1>9, <1>10, <1>11, <1>12,
     <1>13, <1>14, <1>15, <1>16, <1>17, <1>18, <1>19, <1>20, <1>21, <1>22,
     <1>23, <1>24, <1>25, <1>26, <1>27, <1>28, <1>29, <1>30, <1>31
  DEF Next, Request, Trigger, SyncOnce, Run, Main

\* Every variable keeps to its type in every behaviour.
THEOREM TypeCorrect == Spec => []TypeOK
BY InitType, TypeStep, PTL DEF Spec

-----------------------------------------------------------------------------
(* The condition variable *)

\* The flag and running_ change before notify_all is called, and the worker
\* decides to sleep on both in one critical section.
LEMMA NoLostWakeupStep == TypeOK /\ NoLostWakeup /\ [Next]_vars => NoLostWakeup'
<1> SUFFICES ASSUME TypeOK, NoLostWakeup, [Next]_vars PROVE NoLostWakeup'
  OBVIOUS
<1> USE DEF handlerFrame, syncFrame, runFrame, mainFrame, Goes, Ends,
            dbVars, nginxVars, workerVars, apiVars, TypeOK, ApiTypeOK, NoLostWakeup
<1>1. ASSUME NEW h \in Handlers, NEW b \in BOOLEAN, Commit(h, b) PROVE NoLostWakeup'
  BY <1>1 DEF Commit
<1>2. ASSUME NEW h \in Handlers, SetWake(h) PROVE NoLostWakeup'
  BY <1>2 DEF SetWake
<1>3. ASSUME NEW h \in Handlers, Notify(h) PROVE NoLostWakeup'
  BY <1>3 DEF Notify, NotifyAll
<1>4. ASSUME NEW h \in Handlers, Arrive(h) \/ CommitNothing(h) PROVE NoLostWakeup'
  BY <1>4 DEF Arrive, CommitNothing
<1>5. CASE ReadRoutes
  BY <1>5 DEF ReadRoutes
<1>6. CASE OpenFile
  BY <1>6 DEF OpenFile
<1>7. CASE FillFile
  BY <1>7 DEF FillFile
<1>8. CASE RenameFile
  BY <1>8 DEF RenameFile
<1>9. CASE TestConfig
  BY <1>9 DEF TestConfig
<1>10. CASE Reload
  BY <1>10 DEF Reload
<1>11. CASE Record
  BY <1>11 DEF Record
<1>12. CASE LoopHead
  BY <1>12 DEF LoopHead
<1>13. CASE Wait
  BY <1>13 DEF Wait
<1>14. CASE Tick
  BY <1>14 DEF Tick
<1>15. CASE SpuriousWakeup
  BY <1>15 DEF SpuriousWakeup
<1>16. CASE Woken
  BY <1>16 DEF Woken
<1>17. CASE Boot
  BY <1>17 DEF Boot
<1>18. CASE Listen
  BY <1>18 DEF Listen
<1>19. CASE Terminate
  BY <1>19 DEF Terminate
<1>20. CASE ListenReturns
  BY <1>20 DEF ListenReturns
<1>21. CASE StopRunning
  BY <1>21 DEF StopRunning
<1>22. CASE StopWake
  BY <1>22 DEF StopWake
<1>23. CASE StopNotify
  BY <1>23 DEF StopNotify, NotifyAll
<1>24. CASE Join
  BY <1>24 DEF Join, Halt
<1>25. CASE Crash
  BY <1>25 DEF Crash, Halt, GiveUp
<1>26. CASE NginxCrash
  BY <1>26 DEF NginxCrash
<1>27. CASE NginxStep
  BY <1>27 DEF NginxStep
<1>28. CASE DockerStep
  BY <1>28 DEF DockerStep, LateSignal
<1>29. CASE UNCHANGED vars
  BY <1>29 DEF vars
<1> QED
  BY <1>1, <1>2, <1>3, <1>4, <1>5, <1>6, <1>7, <1>8, <1>9, <1>10, <1>11, <1>12,
     <1>13, <1>14, <1>15, <1>16, <1>17, <1>18, <1>19, <1>20, <1>21, <1>22,
     <1>23, <1>24, <1>25, <1>26, <1>27, <1>28, <1>29
  DEF Next, Request, Create, Update, Delete, Trigger, SyncOnce, Run, Main

\* The worker never sleeps through a trigger or a stop.
THEOREM WakeupsArrive == Spec => []NoLostWakeup
<1>1. Init => NoLostWakeup
  BY DEF Init, NoLostWakeup
<1> QED  BY <1>1, TypeCorrect, NoLostWakeupStep, PTL DEF Spec

-----------------------------------------------------------------------------
(* No write is forgotten *)

\* Only a commit moves the end of the log, and it leaves its handler about to
\* trigger; wake_requested_ is cleared only on the way to the next read.
LEMMA DirtyStep ==
  ASSUME "readback" \notin Faults, TypeOK, DirtyIsSignalled, [Next]_vars
  PROVE  DirtyIsSignalled'
<1> USE DEF handlerFrame, syncFrame, runFrame, mainFrame, Goes, Ends,
            dbVars, nginxVars, workerVars, apiVars, TypeOK, ApiTypeOK,
            DirtyIsSignalled, Latest
<1>1. ASSUME NEW h \in Handlers, NEW b \in BOOLEAN, Commit(h, b)
      PROVE  DirtyIsSignalled'
  <2>1. hpc' = [hpc EXCEPT ![h] = "trigger"]
    BY <1>1 DEF Commit, Fault
  <2> QED  BY <2>1
<1>2. ASSUME NEW h \in Handlers, SetWake(h) PROVE DirtyIsSignalled'
  BY <1>2 DEF SetWake
<1>3. ASSUME NEW h \in Handlers, Notify(h) PROVE DirtyIsSignalled'
  BY <1>3 DEF Notify, NotifyAll
<1>4. ASSUME NEW h \in Handlers, Arrive(h) \/ CommitNothing(h) PROVE DirtyIsSignalled'
  BY <1>4 DEF Arrive, CommitNothing
<1>5. CASE ReadRoutes
  BY <1>5 DEF ReadRoutes
<1>6. CASE OpenFile
  BY <1>6 DEF OpenFile
<1>7. CASE FillFile
  BY <1>7 DEF FillFile
<1>8. CASE RenameFile
  BY <1>8 DEF RenameFile
<1>9. CASE TestConfig
  BY <1>9 DEF TestConfig
<1>10. CASE Reload
  BY <1>10 DEF Reload
<1>11. CASE Record
  BY <1>11 DEF Record
<1>12. CASE LoopHead
  BY <1>12 DEF LoopHead
<1>13. CASE Wait
  BY <1>13 DEF Wait
<1>14. CASE Tick
  BY <1>14 DEF Tick
<1>15. CASE SpuriousWakeup
  BY <1>15 DEF SpuriousWakeup
<1>16. CASE Woken
  BY <1>16 DEF Woken
<1>17. CASE Boot
  BY <1>17 DEF Boot
<1>18. CASE Listen
  BY <1>18 DEF Listen
<1>19. CASE Terminate
  BY <1>19 DEF Terminate
<1>20. CASE ListenReturns
  BY <1>20 DEF ListenReturns
<1>21. CASE StopRunning
  BY <1>21 DEF StopRunning
<1>22. CASE StopWake
  BY <1>22 DEF StopWake
<1>23. CASE StopNotify
  BY <1>23 DEF StopNotify, NotifyAll
<1>24. CASE Join
  BY <1>24 DEF Join, Halt
<1>25. CASE Crash
  BY <1>25 DEF Crash, Halt, GiveUp
<1>26. CASE NginxCrash
  BY <1>26 DEF NginxCrash, NginxDies
<1>27. CASE NginxStep
  BY <1>27 DEF NginxStep, HandleHup, NginxStart
<1>28. CASE DockerStep
  BY <1>28 DEF DockerStep, LateSignal
<1>29. CASE UNCHANGED vars
  BY <1>29 DEF vars
<1> QED
  BY <1>1, <1>2, <1>3, <1>4, <1>5, <1>6, <1>7, <1>8, <1>9, <1>10, <1>11, <1>12,
     <1>13, <1>14, <1>15, <1>16, <1>17, <1>18, <1>19, <1>20, <1>21, <1>22,
     <1>23, <1>24, <1>25, <1>26, <1>27, <1>28, <1>29
  DEF Next, Request, Create, Update, Delete, Trigger, SyncOnce, Run, Main

\* If rows can always be read back, every committed write is on its way to
\* nginx or its failure shows in the status.
THEOREM WritesAreSignalled ==
  ASSUME "readback" \notin Faults PROVE Spec => []DirtyIsSignalled
<1>1. Init => DirtyIsSignalled
  BY DEF Init, DirtyIsSignalled
<1> QED  BY <1>1, TypeCorrect, DirtyStep, PTL DEF Spec

-----------------------------------------------------------------------------
(* The end of the thread *)

\* Once stop() has cleared running_ it stays cleared until the process ends,
\* and notify_all leaves nobody asleep that could fall asleep again.
StopInv == /\ mpc \in {"stopwake", "stopnotify", "join"} => ~running
           /\ NobodyJoinsASleeper

\* The worker only goes to sleep while it is running.
LEMMA StopStep == StopInv /\ [Next]_vars => StopInv'
<1> SUFFICES ASSUME StopInv, [Next]_vars PROVE StopInv'
  OBVIOUS
<1> USE DEF handlerFrame, syncFrame, runFrame, mainFrame, Goes, Ends,
            workerVars, apiVars, StopInv, NobodyJoinsASleeper
<1>1. ASSUME NEW h \in Handlers, Request(h) \/ Trigger(h) PROVE StopInv'
  BY <1>1 DEF Request, Arrive, Create, Update, Delete, Commit, CommitNothing,
     Trigger, SetWake, Notify, NotifyAll
<1>2. CASE SyncOnce
  BY <1>2 DEF SyncOnce, ReadRoutes, OpenFile, FillFile, RenameFile, TestConfig,
     Reload, Record
<1>3. CASE Run \/ Tick \/ SpuriousWakeup
  BY <1>3 DEF Run, LoopHead, Wait, Woken, Tick, SpuriousWakeup
<1>4. CASE Main
  BY <1>4 DEF Main, Boot, Listen, ListenReturns, StopRunning, StopWake,
     StopNotify, NotifyAll, Join, Halt
<1>5. CASE Terminate \/ Crash
  BY <1>5 DEF Terminate, Crash, Halt
<1>6. CASE NginxCrash \/ NginxStep \/ DockerStep \/ UNCHANGED vars
  BY <1>6 DEF NginxCrash, NginxStep, DockerStep, vars
<1> QED  BY <1>1, <1>2, <1>3, <1>4, <1>5, <1>6 DEF Next

\* When main joins the worker, it is awake and has been told to end: the one
\* thing that could keep stop() waiting is the sync in progress.
THEOREM StopNeverJoinsASleeper == Spec => []NobodyJoinsASleeper
<1>1. Init => StopInv
  BY DEF Init, StopInv, NobodyJoinsASleeper
<1>2. StopInv => NobodyJoinsASleeper
  BY DEF StopInv
<1> QED  BY <1>1, <1>2, StopStep, PTL DEF Spec

-----------------------------------------------------------------------------
(* What nginx is given *)

\* The versions only move forward on their way from the log through the
\* worker and the file to nginx.
OrderInv ==
  /\ live.ver \in 1..file.ver
  /\ file.ver \in 1..Latest
  /\ wpc \in {"open", "fill", "rename"} => snap \in file.ver..Latest
  /\ wpc = "rename" => tmp.ver = snap

\* What each step of a sync has established by the time the worker is at it,
\* that nginx runs on nothing it would refuse, and that no worker outlives its
\* process.
PipelineInv ==
  /\ Valid(live)
  /\ mpc = "down" => wpc = "off"
  /\ wpc = "test" => file.ver = snap
  /\ wpc = "reload" => file.ver = snap /\ Valid(file)
  /\ (wpc = "record" /\ result)
     \/ (wpc \notin {"test", "reload", "record"} /\ statusOk) =>
       /\ Valid(file)
       /\ wpc \notin {"open", "fill", "rename"} => file.ver = snap
       /\ up => hup \/ live = file

\* A commit extends the log and keeps what it holds.
LEMMA CommitGrowsLog ==
  ASSUME TypeOK, NEW h, NEW b, Commit(h, b)
  PROVE  /\ Latest' = Latest + 1
         /\ log'[Latest'] = list_enabled_routes(rows')
         /\ \A n \in 1..Latest : log'[n] = log[n]
<1> DEFINE x == list_enabled_routes(rows')
<1>1. log \in Seq(RouteLists(seq)) /\ log' = Append(log, x)
  BY DEF Commit, TypeOK, LogTypeOK
<1> HIDE DEF x
<1>2. /\ Len(log') = Len(log) + 1 /\ log'[Len(log')] = x
      /\ \A n \in 1..Len(log) : log'[n] = log[n]
  BY <1>1
<1> QED  BY <1>2 DEF Latest, x

\* The worker reads the end of the log, and there is only one worker.
LEMMA OrderStep ==
  ASSUME TypeOK, TypeOK', OrderInv, [Next]_vars PROVE OrderInv'
<1> USE DEF handlerFrame, syncFrame, runFrame, mainFrame, Goes, Ends,
            dbVars, nginxVars, confVars, procVars, workerVars, apiVars,
            TypeOK, LogTypeOK, NginxTypeOK, WorkerTypeOK, Config, OrderInv
<1>1. ASSUME NEW h \in Handlers, NEW b \in BOOLEAN, Commit(h, b)
      PROVE  OrderInv'
  <2>1. Latest' = Latest + 1
    BY <1>1, CommitGrowsLog
  <2> QED  BY <1>1, <2>1 DEF Commit
<1>2. UNCHANGED log => Latest' = Latest
  BY DEF Latest
<1>3. ASSUME NEW h \in Handlers, SetWake(h) PROVE OrderInv'
  BY <1>3, <1>2 DEF SetWake
<1>4. ASSUME NEW h \in Handlers, Notify(h) PROVE OrderInv'
  BY <1>4, <1>2 DEF Notify, NotifyAll
<1>5. ASSUME NEW h \in Handlers, Arrive(h) \/ CommitNothing(h) PROVE OrderInv'
  BY <1>5, <1>2 DEF Arrive, CommitNothing
<1>6. CASE ReadRoutes
  BY <1>6, <1>2 DEF ReadRoutes
<1>7. CASE OpenFile
  BY <1>7, <1>2 DEF OpenFile, OpenTmp
<1>8. CASE FillFile
  BY <1>8, <1>2 DEF FillFile, FillTmp
<1>9. CASE RenameFile
  BY <1>9, <1>2 DEF RenameFile, RenameTmp
<1>10. CASE TestConfig
  BY <1>10, <1>2 DEF TestConfig, TestPasses
<1>11. CASE Reload
  BY <1>11, <1>2 DEF Reload, SignalMaster, GiveUp
<1>12. CASE Record
  BY <1>12, <1>2 DEF Record
<1>13. CASE LoopHead
  BY <1>13, <1>2 DEF LoopHead
<1>14. CASE Wait
  BY <1>14, <1>2 DEF Wait
<1>15. CASE Tick
  BY <1>15, <1>2 DEF Tick
<1>16. CASE SpuriousWakeup
  BY <1>16, <1>2 DEF SpuriousWakeup
<1>17. CASE Woken
  BY <1>17, <1>2 DEF Woken
<1>18. CASE Boot
  BY <1>18, <1>2 DEF Boot
<1>19. CASE Listen
  BY <1>19, <1>2 DEF Listen
<1>20. CASE Terminate
  BY <1>20, <1>2 DEF Terminate
<1>21. CASE ListenReturns
  BY <1>21, <1>2 DEF ListenReturns
<1>22. CASE StopRunning
  BY <1>22, <1>2 DEF StopRunning
<1>23. CASE StopWake
  BY <1>23, <1>2 DEF StopWake
<1>24. CASE StopNotify
  BY <1>24, <1>2 DEF StopNotify, NotifyAll
<1>25. CASE Join
  BY <1>25, <1>2 DEF Join, Halt
<1>26. CASE Crash
  BY <1>26, <1>2 DEF Crash, Halt, GiveUp
<1>27. CASE NginxCrash
  BY <1>27, <1>2 DEF NginxCrash, NginxDies
<1>28. CASE NginxStep
  BY <1>28, <1>2 DEF NginxStep, HandleHup, NginxStart
<1>29. CASE DockerStep
  BY <1>29, <1>2 DEF DockerStep, LateSignal
<1>30. CASE UNCHANGED vars
  BY <1>30, <1>2 DEF vars
<1> QED
  BY <1>1, <1>2, <1>3, <1>4, <1>5, <1>6, <1>7, <1>8, <1>9, <1>10, <1>11, <1>12,
     <1>13, <1>14, <1>15, <1>16, <1>17, <1>18, <1>19, <1>20, <1>21, <1>22,
     <1>23, <1>24, <1>25, <1>26, <1>27, <1>28, <1>29, <1>30
  DEF Next, Request, Create, Update, Delete, Trigger, SyncOnce, Run, Main

\* A file keeps its validity while it stays in place, and so does what nginx
\* has loaded: later commits do not change the one it was rendered from.
LEMMA ValidKept ==
  ASSUME TypeOK, OrderInv,
         UNCHANGED log \/ \A n \in 1..Latest : log'[n] = log[n]
  PROVE  /\ UNCHANGED file => (Valid(file)' <=> Valid(file))
         /\ UNCHANGED live => (Valid(live)' <=> Valid(live))
<1>1. file.ver \in 1..Latest /\ live.ver \in 1..Latest
  BY DEF OrderInv, TypeOK, LogTypeOK, NginxTypeOK, Config
<1>2. log'[file.ver] = log[file.ver] /\ log'[live.ver] = log[live.ver]
  BY <1>1
<1>3. UNCHANGED file => (Valid(file)' <=> Valid(file))
  BY <1>2 DEF Valid, Contents
<1>4. UNCHANGED live => (Valid(live)' <=> Valid(live))
  BY <1>2 DEF Valid, Contents
<1> QED  BY <1>3, <1>4

\* The worker reloads only what `nginx -t` accepted, records success only
\* after a reload, and nobody else replaces the file meanwhile.
LEMMA PipelineStep ==
  ASSUME TypeOK, TypeOK', OrderInv, PipelineInv, [Next]_vars
  PROVE  PipelineInv'
<1> USE DEF handlerFrame, syncFrame, runFrame, mainFrame, Goes, Ends,
            dbVars, nginxVars, confVars, procVars, workerVars, apiVars,
            PipelineInv
<1>1. ASSUME NEW h \in Handlers, NEW b \in BOOLEAN, Commit(h, b)
      PROVE  PipelineInv'
  <2>1. UNCHANGED <<file, live>>
    BY <1>1 DEF Commit
  <2>2. (Valid(file)' <=> Valid(file)) /\ (Valid(live)' <=> Valid(live))
    BY <1>1, <2>1, CommitGrowsLog, ValidKept
  <2> QED  BY <1>1, <2>2 DEF Commit
<1>2. UNCHANGED log =>
        /\ UNCHANGED file => (Valid(file)' <=> Valid(file))
        /\ UNCHANGED live => (Valid(live)' <=> Valid(live))
  BY ValidKept
<1> USE DEF Syncing, Resting
<1>3. ASSUME NEW h \in Handlers, SetWake(h) PROVE PipelineInv'
  BY <1>3, <1>2 DEF SetWake
<1>4. ASSUME NEW h \in Handlers, Notify(h) PROVE PipelineInv'
  BY <1>4, <1>2 DEF Notify, NotifyAll
<1>5. ASSUME NEW h \in Handlers, Arrive(h) \/ CommitNothing(h) PROVE PipelineInv'
  BY <1>5, <1>2 DEF Arrive, CommitNothing
<1>6. CASE ReadRoutes
  BY <1>6, <1>2 DEF ReadRoutes
<1>7. CASE OpenFile
  BY <1>7, <1>2 DEF OpenFile, OpenTmp
<1>8. CASE FillFile
  BY <1>8, <1>2 DEF FillFile, FillTmp
<1>9. CASE RenameFile
  BY <1>9, <1>2 DEF RenameFile, RenameTmp, OrderInv
<1>10. CASE TestConfig
  BY <1>10, <1>2 DEF TestConfig, TestPasses
<1>11. CASE Reload
  BY <1>11, <1>2 DEF Reload, SignalMaster, GiveUp
<1>12. CASE Record
  BY <1>12, <1>2 DEF Record
<1>13. CASE LoopHead
  BY <1>13, <1>2 DEF LoopHead
<1>14. CASE Wait
  BY <1>14, <1>2 DEF Wait
<1>15. CASE Tick
  BY <1>15, <1>2 DEF Tick
<1>16. CASE SpuriousWakeup
  BY <1>16, <1>2 DEF SpuriousWakeup
<1>17. CASE Woken
  BY <1>17, <1>2 DEF Woken
<1>18. CASE Boot
  BY <1>18, <1>2 DEF Boot
<1>19. CASE Listen
  BY <1>19, <1>2 DEF Listen
<1>20. CASE Terminate
  BY <1>20, <1>2 DEF Terminate
<1>21. CASE ListenReturns
  BY <1>21, <1>2 DEF ListenReturns
<1>22. CASE StopRunning
  BY <1>22, <1>2 DEF StopRunning
<1>23. CASE StopWake
  BY <1>23, <1>2 DEF StopWake
<1>24. CASE StopNotify
  BY <1>24, <1>2 DEF StopNotify, NotifyAll
<1>25. CASE Join
  BY <1>25, <1>2 DEF Join, Halt
<1>26. CASE Crash
  BY <1>26, <1>2 DEF Crash, Halt, GiveUp
<1>27. CASE NginxCrash
  BY <1>27, <1>2 DEF NginxCrash, NginxDies
<1>28. CASE NginxStep
  <2>1. UNCHANGED <<log, tmp, file, wpc, snap, result, statusOk>>
    BY <1>28 DEF NginxStep, HandleHup, NginxStart
  <2>3. (live' = file /\ Valid(file)) \/ (live' = live /\ ~Valid(file))
    <3>1. CASE HandleHup
      BY <3>1, Valid(file) \/ ~Valid(file) DEF HandleHup
    <3>2. CASE NginxStart
      BY <3>2 DEF NginxStart
    <3> QED  BY <1>28, <3>1, <3>2 DEF NginxStep
  <2>4. live' = file => (Valid(live)' <=> Valid(file)')
    BY <2>1 DEF Valid, Contents
  <2>5. (up' /\ ~up => live' = file) /\ (up' /\ ~hup' /\ hup => live' = live \/ live' = file)
    BY <1>28 DEF NginxStep, HandleHup, NginxStart
  <2>6. up /\ live' # live => hup
    BY <1>28 DEF NginxStep, HandleHup, NginxStart
  <2> QED  BY <1>2, <1>28, <2>1, <2>3, <2>4, <2>5, <2>6
           DEF NginxStep, HandleHup, NginxStart
<1>29. CASE DockerStep
  BY <1>29, <1>2 DEF DockerStep, LateSignal
<1>30. CASE UNCHANGED vars
  BY <1>30, <1>2 DEF vars
<1> QED
  BY <1>1, <1>2, <1>3, <1>4, <1>5, <1>6, <1>7, <1>8, <1>9, <1>10, <1>11, <1>12,
     <1>13, <1>14, <1>15, <1>16, <1>17, <1>18, <1>19, <1>20, <1>21, <1>22,
     <1>23, <1>24, <1>25, <1>26, <1>27, <1>28, <1>29, <1>30
  DEF Next, Request, Create, Update, Delete, Trigger, SyncOnce, Run, Main

\* The first state has an empty file and no sync behind it.
LEMMA OrderInit == Init => OrderInv /\ PipelineInv
<1> SUFFICES ASSUME Init PROVE OrderInv /\ PipelineInv
  OBVIOUS
<1>1. log = <<NoRoutes>> /\ live = Whole(1) /\ file = Whole(1) /\ wpc = "off"
       /\ ~statusOk
  BY DEF Init, NginxInit
<1>2. DOMAIN Contents(live) = {}
  BY <1>1 DEF Contents, Whole, NoRoutes
<1> QED  BY <1>1, <1>2 DEF Whole, Latest, Valid, OrderInv, PipelineInv

\* The versions move forward in every behaviour, whatever fails.
THEOREM VersionsInOrder == Spec => []OrderInv
BY TypeCorrect, OrderInit, OrderStep, PTL DEF Spec

\* Whatever fails, a sync that is recorded as good has put its own rendering
\* in place, tested it and had it loaded.
THEOREM PipelineCorrect == Spec => []PipelineInv
BY TypeCorrect, VersionsInOrder, OrderInit, PipelineStep, PTL DEF Spec

\* Of the two ways a write can be cut short, the one that leaves nothing.
NotEmptied == /\ file.cut # "empty" /\ live.cut # "empty"
              /\ wpc = "rename" => tmp.cut # "empty"

\* Of the two ways, either.
NotCut == /\ file.cut = "none"
          /\ wpc = "rename" => tmp.cut = "none"

\* Only three steps of a sync touch the files, and nginx takes what is there.
LEMMA FilesFrame ==
  ASSUME [Next]_vars, ~OpenFile, ~FillFile, ~RenameFile
  PROVE  /\ UNCHANGED <<tmp, file>>
         /\ wpc' = "rename" => wpc = "rename"
         /\ live' \in {live, file}
<1> USE DEF handlerFrame, syncFrame, runFrame, mainFrame, Goes, Ends,
            dbVars, nginxVars, confVars, procVars, workerVars, apiVars
<1>1. ASSUME NEW h \in Handlers, Request(h) \/ Trigger(h)
      PROVE  UNCHANGED <<tmp, file, live>> /\ (wpc' = "rename" => wpc = "rename")
  BY <1>1 DEF Request, Arrive, Create, Update, Delete, Commit, CommitNothing,
     Trigger, SetWake, Notify, NotifyAll
<1>2. CASE ReadRoutes \/ TestConfig \/ Reload \/ Record
  BY <1>2 DEF ReadRoutes, TestConfig, Reload, SignalMaster, GiveUp, Record
<1>3. CASE Run \/ Tick \/ SpuriousWakeup
  BY <1>3 DEF Run, LoopHead, Wait, Woken, Tick, SpuriousWakeup
<1>4. CASE Main
  BY <1>4 DEF Main, Boot, Listen, ListenReturns, StopRunning, StopWake,
     StopNotify, NotifyAll, Join, Halt
<1>5. CASE Terminate \/ Crash
  BY <1>5 DEF Terminate, Crash, Halt, GiveUp
<1>6. CASE NginxCrash \/ NginxStep \/ DockerStep
  BY <1>6 DEF NginxCrash, NginxDies, NginxStep, HandleHup, NginxStart,
     DockerStep, LateSignal
<1>7. CASE UNCHANGED vars
  BY <1>7 DEF vars
<1> QED  BY <1>1, <1>2, <1>3, <1>4, <1>5, <1>6, <1>7 DEF Next, SyncOnce

\* What is put in place is what was written into the temporary file.
LEMMA CutStep ==
  ASSUME TypeOK, [Next]_vars
  PROVE  /\ "empty" \notin Cuts /\ NotEmptied => NotEmptied'
         /\ "short" \notin Faults /\ NotCut => NotCut'
<1> USE DEF syncFrame, Goes, Ends, confVars, procVars, NotEmptied, NotCut
<1>1. CASE OpenFile
  BY <1>1 DEF OpenFile, OpenTmp
<1>2. CASE FillFile
  BY <1>2 DEF FillFile, FillTmp, Fault
<1>3. CASE RenameFile
  BY <1>3 DEF RenameFile, RenameTmp
<1>4. CASE ~OpenFile /\ ~FillFile /\ ~RenameFile
  BY <1>4, FilesFrame
<1> QED  BY <1>1, <1>2, <1>3, <1>4

\* As long as no write ends before its first byte, nothing empty is in place.
LEMMA NeverEmptied == ASSUME "empty" \notin Cuts PROVE Spec => []NotEmptied
<1>1. Init => NotEmptied
  BY DEF Init, NginxInit, Whole, NotEmptied
<1> QED  BY <1>1, TypeCorrect, CutStep, PTL DEF Spec

\* The order of write and rename would do what ConfigGenerator::write promises
\* if a short write could not pass for a full one: no crash at any point puts
\* a partial file in place.
THEOREM OnlyShortWritesTear == ASSUME "short" \notin Faults PROVE Spec => []NeverPartial
<1>1. Init => NotCut
  BY DEF Init, NginxInit, Whole, NotCut
<1>2. NotCut => NeverPartial
  BY DEF NotCut, NeverPartial
<1> QED  BY <1>1, <1>2, TypeCorrect, CutStep, PTL DEF Spec

Emptied == file.cut = "empty"

\* Whatever fails, a status that says ok is wrong in one case only, until the
\* next file is put in place: a write that ended before its first byte left an
\* empty file, which nginx accepts.
THEOREM OnlyEmptyDeceives == Spec => [](StatusIsHonest \/ Emptied)
<1>1. TypeOK /\ PipelineInv => StatusIsHonest \/ Emptied
  <2> SUFFICES ASSUME TypeOK, PipelineInv, statusOk, file.cut # "empty",
                      wpc \notin {"test", "reload", "record"}
               PROVE  /\ file.cut = "none" /\ Valid(file)
                      /\ wpc \notin {"open", "fill", "rename"} => file.ver = snap
                      /\ up => hup \/ live = file
    BY DEF StatusIsHonest, Emptied
  <2>1. /\ Valid(file)
        /\ wpc \notin {"open", "fill", "rename"} => file.ver = snap
        /\ up => hup \/ live = file
    BY DEF PipelineInv
  <2>2. file.cut = "none"
    BY <2>1 DEF Valid, TypeOK, NginxTypeOK, Config
  <2> QED  BY <2>1, <2>2
<1> QED  BY <1>1, TypeCorrect, PipelineCorrect, PTL

\* Until the next file is put in place, a status that says ok is about one
\* nginx accepts, rendered whole from what that sync read, and in use or about
\* to be.
THEOREM StatusHonest ==
  ASSUME "empty" \notin Cuts PROVE Spec => []StatusIsHonest
<1>1. NotEmptied => ~Emptied
  BY DEF NotEmptied, Emptied
<1> QED  BY <1>1, OnlyEmptyDeceives, NeverEmptied, PTL

\* When the worker sleeps after a good sync and nobody is about to wake it,
\* nginx routes exactly by the table: no write is missing and none is torn.
THEOREM QuiescentCorrect ==
  ASSUME "empty" \notin Cuts, "readback" \notin Faults
  PROVE  Spec => []QuiescentInSync
<1>1. TypeOK /\ DirtyIsSignalled /\ StatusIsHonest => QuiescentInSync
  <2> SUFFICES ASSUME TypeOK, DirtyIsSignalled, StatusIsHonest, Quiescent
               PROVE  live = Whole(Latest)
    BY DEF QuiescentInSync
  <2>1. live = file /\ file.ver = snap /\ file.cut = "none"
    BY DEF StatusIsHonest, Quiescent
  <2>2. snap = Latest
    BY DEF DirtyIsSignalled, Quiescent
  <2> QED  BY <2>1, <2>2 DEF TypeOK, NginxTypeOK, Config, Whole
<1> QED  BY <1>1, TypeCorrect, WritesAreSignalled, StatusHonest, PTL

-----------------------------------------------------------------------------
(* The promise to the clients *)

\* The initial configuration is the first, empty, entry of the log.
LEMMA PublicationInit == Init => Published!Init
BY DEF Init, NginxInit, Published!Init, Whole, Contents, NoRoutes

\* Every step is one of Publication's, or one it does not see.
LEMMA PublicationStep ==
  ASSUME TypeOK, TypeOK', OrderInv, PipelineInv', NotEmptied', [Next]_vars
  PROVE  [Published!Next]_(Published!vars)
<1> USE DEF handlerFrame, syncFrame, runFrame, mainFrame, Goes, Ends,
            dbVars, nginxVars, confVars, procVars, workerVars, apiVars
<1>1. ASSUME NEW h \in Handlers, NEW b \in BOOLEAN, Commit(h, b)
      PROVE  Published!Commit
  <2>1. /\ Latest' = Latest + 1
        /\ \A n \in 1..Latest : log'[n] = log[n]
    BY <1>1, CommitGrowsLog
  <2>2. live' = live /\ live.ver \in 1..Latest
    BY <1>1 DEF Commit, OrderInv, TypeOK, LogTypeOK, NginxTypeOK, Config
  <2>3. Contents(live)' = Contents(live)
    BY <2>1, <2>2 DEF Contents
  <2> QED  BY <2>1, <2>2, <2>3 DEF Published!Commit, Latest
<1>2. CASE NginxStep
  <2>1. UNCHANGED log /\ (live' = live \/ live' = file)
    BY <1>2 DEF NginxStep, HandleHup, NginxStart
  <2>2. CASE live' = live
    BY <2>1, <2>2 DEF Published!vars, Contents
  <2>3. CASE live' = file
    <3>1. live'.ver \in live.ver..Latest
      BY <2>3 DEF OrderInv, TypeOK, LogTypeOK, NginxTypeOK, Config
    <3>2. Contents(live)' = log[live'.ver]
      <4>1. live'.cut = "none"
        BY DEF PipelineInv, NotEmptied, Valid, TypeOK, NginxTypeOK, Config
      <4> QED  BY <2>1, <4>1 DEF Contents
    <3> QED  BY <2>1, <3>1, <3>2 DEF Published!Next, Published!Adopt, Latest
  <2> QED  BY <2>1, <2>2, <2>3
<1>3. ASSUME UNCHANGED <<log, live>> PROVE UNCHANGED Published!vars
  BY <1>3 DEF Published!vars, Contents
<1>4. ASSUME NEW h \in Handlers, Arrive(h) \/ CommitNothing(h) \/ Trigger(h)
      PROVE  UNCHANGED <<log, live>>
  BY <1>4 DEF Arrive, CommitNothing, Trigger, SetWake, Notify
<1>5. CASE SyncOnce
  <2>1. UNCHANGED <<log, live>>
    BY <1>5 DEF SyncOnce, ReadRoutes, OpenFile, FillFile, RenameFile,
            TestConfig, Reload, Record, SignalMaster, GiveUp
  <2> QED  BY <2>1, <1>3
<1>6. CASE Run \/ Tick \/ SpuriousWakeup
  <2>1. UNCHANGED <<log, live>>
    BY <1>6 DEF Run, LoopHead, Wait, Woken, Tick, SpuriousWakeup
  <2> QED  BY <2>1, <1>3
<1>7. CASE Main \/ Terminate \/ Crash \/ NginxCrash \/ DockerStep
  <2>1. UNCHANGED <<log, live>>
    BY <1>7 DEF Main, Boot, Listen, ListenReturns, StopRunning, StopWake,
            StopNotify, Join, Terminate, Crash, Halt, GiveUp, NginxCrash,
            NginxDies, DockerStep, LateSignal
  <2> QED  BY <2>1, <1>3
<1>8. CASE UNCHANGED vars
  BY <1>8, <1>3 DEF vars
<1> QED
  BY <1>1, <1>2, <1>3, <1>4, <1>5, <1>6, <1>7, <1>8
  DEF Next, Request, Create, Update, Delete, Published!Next

\* The synchronisation implements Publication: what nginx serves is always a
\* whole committed table, in commit order, whatever crashes or fails.
THEOREM PublicationCorrect ==
  ASSUME "empty" \notin Cuts PROVE Spec => InCommitOrder
BY PublicationInit, PublicationStep, TypeCorrect, VersionsInOrder,
   PipelineCorrect, NeverEmptied, PTL DEF Spec, InCommitOrder, Published!Spec

=============================================================================
