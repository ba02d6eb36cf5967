-------------------------- MODULE FrontDoorProofs --------------------------
(***************************************************************************)
(* From the rows of the table to the answers of nginx: what SyncWorker     *)
(* carries and what Locations says of it, put together for every table,    *)
(* every path and every sequence of commits and failures.                  *)
(***************************************************************************)
EXTENDS FrontDoor, SyncWorkerProofs, LocationsProofs

\* What is rendered from is sound at every commit, and the last commit is the
\* table as it is.
TableInv == /\ UniquePrefix
            /\ log[Latest] = list_enabled_routes(rows)
            /\ log[1] = NoRoutes
            /\ \A n \in 1..Latest : Distinct(log[n])

\* A list of routes with the prefixes POST lets in.
Sound(routes) == Good(routes) /\ Distinct(routes) /\ 0 \notin DOMAIN routes

\* The prefixes of rows are plain paths.
LEMMA RowsPlain == \A row \in Row : Plain(row.path_prefix)
<1> SUFFICES ASSUME NEW p \in Prefixes PROVE Plain(p)
  BY DEF Row
<1>1. p \in Path /\ is_valid_path_prefix(p) /\ ~is_reserved_path_prefix(p)
  BY FrontDoorAssumption DEF Path
<1> QED  BY <1>1 DEF Plain, is_valid_path_prefix, is_reserved_path_prefix

\* Every list in the log is sound.
LEMMA LogSound ==
  ASSUME TypeOK, TableInv, NEW n \in 1..Latest PROVE Sound(log[n])
<1>1. log[n] \in RouteLists(seq)
  BY DEF TypeOK, LogTypeOK, Latest
<1>2. PICK T \in SUBSET (1..seq) : log[n] \in [T -> Row]
  BY <1>1 DEF RouteLists
<1>3. seq \in Nat
  BY DEF TypeOK, DbTypeOK
<1>4. 0 \notin DOMAIN log[n]
  BY <1>2, <1>3
<1>5. \A i \in DOMAIN log[n] : log[n][i] \in Row
  BY <1>2
<1> QED  BY <1>4, <1>5, RowsPlain DEF Sound, Good, TableInv

\* An empty file configures no routes, soundly.
LEMMA NoRoutesSound == Sound(NoRoutes)
BY DEF Sound, Good, Distinct, NoRoutes

\* So are the routes a file configures, whole or cut.
LEMMA ContentsSound ==
  ASSUME TypeOK, OrderInv, TableInv
  PROVE  Sound(Contents(file)) /\ Sound(Contents(live))
<1>1. file.ver \in 1..Latest /\ live.ver \in 1..Latest
  BY DEF OrderInv, TypeOK, LogTypeOK, NginxTypeOK, Config
<1> QED  BY <1>1, LogSound, NoRoutesSound DEF Contents

-----------------------------------------------------------------------------
(* The invariant *)

\* The table and the log start empty.
LEMMA TableInit == Init => TableInv
<1> SUFFICES ASSUME Init PROVE TableInv
  OBVIOUS
<1>1. log = <<NoRoutes>> /\ Latest = 1 /\ DOMAIN rows = {}
  BY DEF Init, NginxInit, DbInit, Latest
<1>2. log[1] = NoRoutes /\ log[Latest] = NoRoutes
  BY <1>1
<1>3. list_enabled_routes(rows) = NoRoutes
  BY <1>1 DEF list_enabled_routes, EnabledIds, NoRoutes
<1>4. \A n \in 1..Latest : Distinct(log[n])
  BY <1>1, <1>2 DEF Distinct, NoRoutes
<1> QED  BY <1>1, <1>2, <1>3, <1>4 DEF TableInv, UniquePrefix, Ids

\* A commit appends the new table's routes, whose prefixes are unique because
\* the table's are.
LEMMA TableCommit ==
  ASSUME TypeOK, TableInv, UniquePrefix', NEW h \in Handlers, NEW b,
         Commit(h, b)
  PROVE  TableInv'
<1>1. /\ Latest' = Latest + 1 /\ Latest \in Nat /\ 1 \in 1..Latest
      /\ log'[Latest'] = list_enabled_routes(rows')
      /\ \A n \in 1..Latest : log'[n] = log[n]
  BY CommitGrowsLog DEF TypeOK, LogTypeOK
<1>2. Distinct(list_enabled_routes(rows'))
  BY DEF Distinct, list_enabled_routes, EnabledIds, UniquePrefix, Ids
<1>3. \A n \in 1..Latest' : Distinct(log'[n])
  <2>1. TAKE n \in 1..Latest'
  <2>2. n \in 1..Latest \/ n = Latest'
    BY <1>1
  <2>3. CASE n \in 1..Latest
    <3>1. log'[n] = log[n]
      BY <1>1, <2>3
    <3> QED  BY <2>3, <3>1 DEF TableInv
  <2>4. CASE n = Latest'
    BY <1>1, <1>2, <2>4
  <2> QED  BY <2>2, <2>3, <2>4
<1>4. log'[1] = NoRoutes
  BY <1>1 DEF TableInv, NoRoutes
<1> QED  BY <1>1, <1>3, <1>4 DEF TableInv

\* Nothing but a commit changes the table or the log.
LEMMA TableFrame ==
  ASSUME [Next]_vars,
         \A h \in Handlers : ~Create(h) /\ ~Update(h) /\ ~Delete(h)
  PROVE  UNCHANGED <<rows, seq, log>>
<1> USE DEF handlerFrame, syncFrame, runFrame, mainFrame, dbVars, nginxVars
<1>1. ASSUME NEW h \in Handlers, Arrive(h) \/ CommitNothing(h) \/ Trigger(h)
      PROVE  UNCHANGED <<rows, seq, log>>
  BY <1>1 DEF Arrive, CommitNothing, Trigger, SetWake, Notify
<1>2. CASE SyncOnce
  BY <1>2 DEF SyncOnce, ReadRoutes, OpenFile, FillFile, RenameFile,
     TestConfig, Reload, Record
<1>3. CASE Run \/ Tick \/ SpuriousWakeup
  BY <1>3 DEF Run, LoopHead, Wait, Woken, Tick, SpuriousWakeup
<1>4. CASE Main \/ Terminate \/ Crash
  BY <1>4 DEF Main, Boot, Listen, ListenReturns, StopRunning, StopWake,
     StopNotify, Join, Terminate, Crash, Halt
<1>5. CASE NginxCrash \/ NginxStep \/ DockerStep
  BY <1>5 DEF NginxCrash, NginxDies, NginxStep, HandleHup, NginxStart,
     DockerStep, LateSignal
<1>6. CASE UNCHANGED vars
  BY <1>6 DEF vars
<1> QED  BY <1>1, <1>2, <1>3, <1>4, <1>5, <1>6 DEF Next, Request

\* One step per statement of the database.
LEMMA TableStep ==
  ASSUME TypeOK, TableInv, [Next]_vars PROVE TableInv'
<1>1. ASSUME NEW h \in Handlers, Create(h) PROVE TableInv'
  <2>1. PICK new \in NewRoutes, ip \in Addrs :
           CreateRoute(new, ip) /\ Commit(h, TRUE)
    BY <1>1 DEF Create
  <2> QED  BY <2>1, CreateUnique, TableCommit DEF TypeOK, TableInv
<1>2. ASSUME NEW h \in Handlers, Update(h) PROVE TableInv'
  <2>1. PICK id \in Ids, patch \in Patches :
           UpdateRoute(id, patch) /\ Commit(h, TRUE)
    BY <1>2 DEF Update
  <2> QED  BY <2>1, UpdateUnique, TableCommit DEF TypeOK, TableInv
<1>3. ASSUME NEW h \in Handlers, Delete(h) PROVE TableInv'
  <2>1. PICK id \in Ids : DeleteRoute(id) /\ Commit(h, FALSE)
    BY <1>3 DEF Delete
  <2> QED  BY <2>1, DeleteUnique, TableCommit DEF TypeOK, TableInv
<1>4. CASE \A h \in Handlers : ~Create(h) /\ ~Update(h) /\ ~Delete(h)
  <2>1. UNCHANGED <<rows, seq, log>>
    BY <1>4, TableFrame
  <2> QED  BY <2>1 DEF TableInv, UniquePrefix, Ids, Latest
<1> QED  BY <1>1, <1>2, <1>3, <1>4

\* The invariant holds throughout.
LEMMA TableHolds == Spec => []TableInv
BY TableInit, TableStep, TypeCorrect, PTL DEF Spec

-----------------------------------------------------------------------------
(* Theorems *)

\* Nginx!Valid, which looks only at the prefixes that meet a static location,
\* is the rule of Locations, which compares all locations with one another: for
\* the tables that occur, the two modules model one `nginx -t`.
LEMMA ValidIsLoadable ==
  ASSUME TypeOK, OrderInv, TableInv
  PROVE  Valid(file) <=> file.cut # "middle" /\ Loadable(Conf(Contents(file)))
<1> DEFINE routes == Contents(file)
<1>1. Sound(routes)
  BY ContentsSound
<1> HIDE DEF routes
<1>2. Loadable(Conf(routes)) <=>
        \A i \in DOMAIN routes :
          ~\E l \in Static : l.match = "exact" /\ l.path = routes[i].path_prefix
  BY <1>1, Collisions DEF Sound
<1>3. \A p : p \in StaticExact
               <=> \E l \in Static : l.match = "exact" /\ l.path = p
  BY FrontDoorAssumption
<1>4. Valid(file) <=> /\ file.cut # "middle"
                      /\ \A i \in DOMAIN routes :
                           routes[i].path_prefix \notin StaticExact
  BY DEF Valid, routes
<1> QED  BY <1>2, <1>3, <1>4 DEF routes

\* When all is quiet clients get what the table asks for, as long as no write
\* ends before its first byte and rows can be read back.
THEOREM AnswersCorrect ==
  ASSUME "empty" \notin Cuts, "readback" \notin Faults
  PROVE  Spec => []AnswersAsListed
<1>1. TypeOK /\ OrderInv /\ TableInv /\ QuiescentInSync => AnswersAsListed
  <2> SUFFICES ASSUME TypeOK, OrderInv, TableInv, QuiescentInSync, Quiescent,
                      NEW u \in Requests, u # <<"healthz">>, ~Under(Admin, u)
               PROVE  Answer(Conf(Contents(live)), u)
                        = Intended(list_enabled_routes(rows), u)
    BY DEF AnswersAsListed
  <2>1. Contents(live) = list_enabled_routes(rows)
    BY DEF QuiescentInSync, Contents, Whole, TableInv
  <2>2. Good(Contents(live)) /\ Distinct(Contents(live)) /\ u \in Path
    BY ContentsSound, PathAssumption DEF Sound, Path
  <2> QED  BY <2>1, <2>2, AnswerIntended
<1> QED  BY <1>1, TypeCorrect, VersionsInOrder, TableHolds, QuiescentCorrect, PTL

\* At every moment there is one committed table by which all paths are
\* answered, and those of the admin area are answered by the API.
AnswersByOneCommit ==
  \E n \in 1..Latest :
    \A u \in Requests \ {<<"healthz">>} :
      Answer(Conf(Contents(live)), u) =
        IF u = Admin THEN Moved(Slashed(Admin))
        ELSE IF Under(Admin, u) THEN Sent(AdminApi, Drop(u, 1))
        ELSE Intended(log[n], u)

\* Whatever is written, crashes, fails or is cut short, with no assumption on
\* either: no client ever sees two tables mixed, and the admin API stays where
\* it is.
THEOREM OneCommitAnswers == Spec => []AnswersByOneCommit
<1>1. TypeOK /\ OrderInv /\ TableInv => AnswersByOneCommit
  <2> SUFFICES ASSUME TypeOK, OrderInv, TableInv PROVE AnswersByOneCommit
    OBVIOUS
  <2> DEFINE routes == Contents(live)
  <2>1. Good(routes) /\ Distinct(routes)
    BY ContentsSound DEF Sound
  <2>2. PICK n \in 1..Latest : routes = log[n]
    <3>1. live.ver \in 1..Latest /\ 1 \in 1..Latest
      BY DEF OrderInv, TypeOK, LogTypeOK, NginxTypeOK, Config
    <3> QED  BY <3>1 DEF Contents, TableInv
  <2> HIDE DEF routes
  <2>3. ASSUME NEW u \in Requests
        PROVE  /\ u = Admin => Answer(Conf(routes), u) = Moved(Slashed(Admin))
               /\ u # Admin /\ Under(Admin, u) =>
                    Answer(Conf(routes), u) = Sent(AdminApi, Drop(u, 1))
               /\ ~Under(Admin, u) /\ u # <<"healthz">> =>
                    Answer(Conf(routes), u) = Intended(log[n], u)
    <3>1. u \in Path
      BY PathAssumption DEF Path
    <3>2. Under(Admin, u) <=> u[1] = "_proxy"
      BY <3>1, UnderAdmin
    <3>3. Admin[1] = "_proxy"
      BY SlashedAdmin
    <3> QED  BY <2>1, <2>2, <3>1, <3>2, <3>3, AdminAnswer, AnswerIntended
  <2> QED  BY <2>3, SlashedAdmin, UnderItself DEF AnswersByOneCommit, routes
<1> QED  BY <1>1, TypeCorrect, VersionsInOrder, TableHolds, PTL

=============================================================================
