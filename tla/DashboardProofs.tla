-------------------------- MODULE DashboardProofs --------------------------
(***************************************************************************)
(* The form's promise, for any number of containers, overlapping           *)
(* refreshes, changes of the host and faults.                              *)
(***************************************************************************)
EXTENDS Dashboard, TLAPS

Shown == [how : {"on", "off", "unlisted"}, era : Nat]

Busy == [at : {"attach", "write", "refresh"}, target : Containers, seen : Shown]

\* What an action on a function of records keeps of it.
IsOn(f, dom) == f = [x \in dom |-> f[x]]

(***************************************************************************)
(* What is shown of a container was true when it was read: one shown on    *)
(* the network still is, unless it has been taken off since.  That holds   *)
(* of the list on the page, of lists on their way there, and of what the   *)
(* form goes by.                                                           *)
(***************************************************************************)
Right(s, c, on, now) == /\ s.era <= now[c]
                        /\ s.how = "on" /\ s.era = now[c] => c \in on

FormOK(k, on, now) ==
  \/ k = Idle
  \/ /\ k \in Busy
     /\ k.seen.era <= now[k.target]
     /\ k.at # "attach" /\ k.seen.how # "unlisted" /\ k.seen.era = now[k.target]
          => k.target \in on

ListOK(l, on, now) == /\ l \in [Containers -> Shown]
                      /\ \A c \in Containers : Right(l[c], c, on, now)

RunOK(run, on, now) == run.at = "list" => ListOK(run.shows, on, now)

DashInv == /\ era \in [Containers -> Nat]
           /\ IsOn(user, Components) /\ FormOK(user["form"], net, era)
           /\ IsOn(refresh, Refreshes)
           /\ \A r \in Refreshes : RunOK(refresh[r], net, era)
           /\ ListOK(list, net, era)

-----------------------------------------------------------------------------
\* The page starts with nothing on it.
LEMMA DashInit == Init => DashInv
<1> SUFFICES ASSUME Init
             PROVE  DashInv
  OBVIOUS
<1>1. IsOn(user, Components) /\ FormOK(user["form"], net, era)
  BY DEF Init, IsOn, FormOK, Components
<1>2. IsOn(refresh, Refreshes) /\ \A r \in Refreshes : RunOK(refresh[r], net, era)
  BY DEF Init, IsOn, RunOK, NoRun
<1>3. era \in [Containers -> Nat] /\ ListOK(list, net, era)
  BY DEF Init, Shown, ListOK, Right
<1> QED  BY <1>1, <1>2, <1>3 DEF DashInv

\* What a network and its eras may turn into: whoever leaves starts another.
Later(on, now) == /\ now \in [Containers -> Nat]
                  /\ \A c \in Containers :
                       /\ era[c] <= now[c]
                       /\ c \in net /\ now[c] = era[c] => c \in on

\* What was right stays right.
LEMMA StaysRight ==
  ASSUME DashInv, NEW on, NEW now, Later(on, now)
  PROVE  /\ FormOK(user["form"], on, now)
         /\ \A r \in Refreshes : RunOK(refresh[r], on, now)
         /\ ListOK(list, on, now)
<1>1. ASSUME NEW l, ListOK(l, net, era)
      PROVE  ListOK(l, on, now)
  <2>1. l \in [Containers -> Shown] /\ era \in [Containers -> Nat]
    BY <1>1 DEF ListOK, DashInv
  <2>2. ASSUME NEW c \in Containers
        PROVE  Right(l[c], c, on, now)
    <3>1. l[c].era \in Nat /\ era[c] \in Nat /\ now[c] \in Nat
      BY <2>1 DEF Shown, Later
    <3>2. Right(l[c], c, net, era)
      BY <1>1 DEF ListOK
    <3>3. era[c] <= now[c] /\ (c \in net /\ now[c] = era[c] => c \in on)
      BY DEF Later
    <3> QED  BY <3>1, <3>2, <3>3 DEF Right
  <2> QED  BY <2>1, <2>2 DEF ListOK
<1>2. FormOK(user["form"], on, now)
  <2>1. CASE user["form"] = Idle
    BY <2>1 DEF FormOK
  <2>2. CASE user["form"] # Idle
    <3> DEFINE f == user["form"]
    <3>1. /\ f \in Busy /\ f.seen.era <= era[f.target]
          /\ f.at # "attach" /\ f.seen.how # "unlisted" /\ f.seen.era = era[f.target]
               => f.target \in net
      BY <2>2 DEF DashInv, FormOK
    <3>2. f.target \in Containers /\ f.seen.era \in Nat
      BY <3>1 DEF Busy, Shown
    <3> HIDE DEF f
    <3>3. FormOK(f, on, now)
      BY <3>1, <3>2 DEF DashInv, FormOK, Later
    <3> QED  BY <3>3 DEF f
  <2> QED  BY <2>1, <2>2
<1> QED  BY <1>1, <1>2 DEF DashInv, RunOK

\* A refresh moves on with what is right about the network.
LEMMA RunMoves ==
  ASSUME DashInv, NEW r \in Refreshes, NEW next, RunOK(next, net, era), Step(r, next)
  PROVE  /\ IsOn(refresh', Refreshes)
         /\ \A q \in Refreshes : RunOK(refresh'[q], net, era)
BY DEF DashInv, IsOn, Step

\* Steps of a refresh.
LEMMA RefreshOK ==
  ASSUME DashInv, NEW r \in Refreshes, Refresh(r)
  PROVE  DashInv'
<1>1. net' = net /\ era' = era
  BY DEF Refresh, hostVars
<1>2. \A at \in {"routes", "config", "containers", "none", "status"} :
        \A run : run.at = at => RunOK(run, net, era)
  BY DEF RunOK
<1>3. CASE ReadStatus(r) \/ ReadRoutes(r) \/ ConfigFails(r)
  <2>1. UNCHANGED <<list, user>>
    BY <1>3 DEF ReadStatus, ReadRoutes, ConfigFails, shownVars
  <2>2. PICK next : Step(r, next) /\ RunOK(next, net, era)
    BY <1>2, <1>3 DEF ReadStatus, ReadRoutes, ConfigFails
  <2> QED  BY <1>1, <2>1, <2>2, RunMoves DEF DashInv
<1>4. CASE SetConfig(r)
  <2>1. UNCHANGED <<list, user>> /\ Step(r, [at |-> "containers"])
    BY <1>4 DEF SetConfig
  <2>2. RunOK([at |-> "containers"], net, era)
    BY <1>2
  <2> QED  BY <1>1, <2>1, <2>2, RunMoves DEF DashInv
<1>5. CASE ListContainers(r)
  <2> DEFINE next == [at |-> "list",
                      shows |-> [c \in Containers |-> Listed(c)]]
  <2>1. UNCHANGED <<list, user>> /\ Step(r, next)
    BY <1>5 DEF ListContainers, shownVars
  <2>2. RunOK(next, net, era)
    BY DEF DashInv, RunOK, ListOK, Right, Listed, on_network, Shown
  <2> HIDE DEF next
  <2> QED  BY <1>1, <2>1, <2>2, RunMoves DEF DashInv
<1>6. ASSUME Finish(r), list' = list \/ (refresh[r].at = "list" /\ list' = refresh[r].shows)
      PROVE  DashInv'
  <2>1. RunOK(NoRun, net, era)
    BY <1>2 DEF NoRun
  <2>2. Step(r, NoRun)
    BY <1>6 DEF Finish
  <2>3. IsOn(user', Components) /\ FormOK(user["form"]', net, era)
    BY <1>6 DEF Finish, DashInv, IsOn, FormOK, Components
  <2>4. ListOK(list', net, era)
    BY <1>6 DEF DashInv, RunOK
  <2> QED  BY <1>1, <2>1, <2>2, <2>3, <2>4, RunMoves DEF DashInv
<1>7. CASE SetContainers(r)
  BY <1>6, <1>7 DEF SetContainers
<1>8. CASE ContainersFail(r)
  BY <1>6, <1>8 DEF ContainersFail, shownVars
<1> QED  BY <1>3, <1>4, <1>5, <1>7, <1>8 DEF Refresh

\* The end of a request: the form goes on, waits for its refresh or gives up.
LEMMA RequestEnds ==
  ASSUME DashInv, NEW k \in Components, NEW on, net \subseteq on,
         user[k].at = "attach" => user[k].target \in on,
         \/ k = "form" /\ user[k].at = "attach" /\ ThenWrite
         \/ GiveUp(k)
         \/ user[k] # Idle /\ ThenRefresh(k)
  PROVE  /\ IsOn(user', Components) /\ FormOK(user'["form"], on, era)
         /\ IsOn(refresh', Refreshes)
         /\ \A r \in Refreshes : RunOK(refresh'[r], on, era)
         /\ ListOK(list, on, era)
<1>1. /\ FormOK(user["form"], on, era)
      /\ \A r \in Refreshes : RunOK(refresh[r], on, era)
      /\ ListOK(list, on, era)
  <2>1. Later(on, era)
    BY DEF DashInv, Later
  <2> QED  BY <2>1, StaysRight
<1>2. IsOn(user, Components) /\ IsOn(refresh, Refreshes)
  BY DEF DashInv
<1>3. CASE k = "form" /\ user[k].at = "attach" /\ ThenWrite
  <2> DEFINE f == user["form"]
             g == [f EXCEPT !.at = "write", !.seen.era = era[f.target]]
  <2>1. f \in Busy /\ f.target \in on
    BY <1>3 DEF DashInv, FormOK, Idle
  <2>2. era[f.target] \in Nat
    BY <2>1 DEF DashInv, Busy
  <2>3. /\ g.at = "write" /\ g.target = f.target
        /\ g.seen = [f.seen EXCEPT !.era = era[f.target]]
        /\ g \in Busy
    BY <2>1, <2>2 DEF Busy, Shown
  <2>4. FormOK(g, on, era)
    BY <2>1, <2>2, <2>3 DEF FormOK, Busy, Shown
  <2>5. user' = [user EXCEPT !["form"] = g]
    BY <1>3, <1>2 DEF ThenWrite, IsOn
  <2> HIDE DEF g
  <2>6. IsOn(user', Components) /\ user'["form"] = g
    BY <2>5, <1>2 DEF IsOn, Components
  <2> QED  BY <1>1, <1>2, <1>3, <2>4, <2>6 DEF ThenWrite
<1>4. CASE GiveUp(k)
  BY <1>1, <1>2, <1>4 DEF GiveUp, IsOn, FormOK, Components
<1>5. CASE user[k] # Idle /\ ThenRefresh(k)
  <2>1. IsOn(user', Components)
    BY <1>2, <1>5 DEF ThenRefresh, IsOn
  <2>2. FormOK(user'["form"], on, era)
    <3>1. CASE k = "form"
      <4>1. user["form"] \in Busy
        BY <1>5, <3>1 DEF DashInv, FormOK
      <4>2. user'["form"] = [user["form"] EXCEPT !.at = "refresh"]
        BY <1>2, <1>5, <3>1 DEF ThenRefresh, IsOn
      <4> QED  BY <1>1, <1>5, <3>1, <4>1, <4>2 DEF FormOK, Busy
    <3>2. CASE k # "form"
      BY <1>1, <1>2, <1>5, <3>2 DEF ThenRefresh, IsOn, Components
    <3> QED  BY <3>1, <3>2
  <2>3. RunOK(Start, on, era)
    BY DEF RunOK, Start
  <2>4. Step(k, Start) /\ k \in Refreshes
    BY <1>5 DEF ThenRefresh, Refreshes
  <2>5. IsOn(refresh', Refreshes) /\ \A r \in Refreshes : RunOK(refresh'[r], on, era)
    BY <1>1, <1>2, <2>3, <2>4 DEF Step, IsOn
  <2> QED  BY <1>1, <2>1, <2>2, <2>5
<1> QED  BY <1>3, <1>4, <1>5

\* One step per action.
LEMMA DashStep == DashInv /\ [Next]_vars => DashInv'
<1> SUFFICES ASSUME DashInv, [Next]_vars
             PROVE  DashInv'
  OBVIOUS
<1>1. ASSUME NEW r \in Polls, Poll(r)
      PROVE  DashInv'
  <2>1. UNCHANGED <<net, era, list, user>> /\ Step(r, Start) /\ r \in Refreshes
    BY <1>1 DEF Poll, hostVars, shownVars, Refreshes
  <2>2. RunOK(Start, net, era)
    BY DEF RunOK, Start
  <2> QED  BY <2>1, <2>2, RunMoves DEF DashInv
<1>2. ASSUME NEW r \in Refreshes, Refresh(r)
      PROVE  DashInv'
  BY <1>2, RefreshOK
<1>3. ASSUME NEW c \in Containers, Submit(c)
      PROVE  DashInv'
  <2> DEFINE task == [at |-> IF list[c].how = "off" THEN "attach" ELSE "write",
                      target |-> c, seen |-> list[c]]
  <2>1. /\ UNCHANGED <<net, era, list, refresh>>
        /\ user' = [user EXCEPT !["form"] = task]
    BY <1>3 DEF Submit, Begin, hostVars, shownVars
  <2>2. list[c] \in Shown /\ Right(list[c], c, net, era)
    BY DEF DashInv, ListOK
  <2>3. FormOK(task, net, era)
    BY <2>2 DEF FormOK, Busy, Shown, Right
  <2> HIDE DEF task
  <2> QED  BY <2>1, <2>3 DEF DashInv, IsOn, Components
<1>4. ASSUME NEW k \in Components \ {"form"}, NEW task, Begin(k, task)
      PROVE  DashInv'
  BY <1>4 DEF Begin, hostVars, shownVars, DashInv, IsOn, Components
<1>5. ASSUME NEW k \in Components, Attach(k)
      PROVE  DashInv'
  <2>1. /\ net \subseteq net' /\ UNCHANGED <<era, list>>
        /\ user[k].at = "attach"
        /\ \/ GiveUp(k)
           \/ /\ IF k = "form" THEN ThenWrite ELSE ThenRefresh(k)
              /\ user[k].target \in net'
    BY <1>5 DEF Attach, connect_network, shownVars
  <2>2. user[k] # Idle
    BY <2>1 DEF Idle
  <2>3. CASE GiveUp(k)
    <3>1. /\ FormOK(user["form"], net', era)
          /\ \A r \in Refreshes : RunOK(refresh[r], net', era)
          /\ ListOK(list, net', era)
      BY <2>1, StaysRight DEF DashInv, Later
    <3> QED
      BY <2>1, <2>3, <3>1 DEF GiveUp, DashInv, IsOn, FormOK, Components
  <2>4. CASE /\ IF k = "form" THEN ThenWrite ELSE ThenRefresh(k)
             /\ user[k].target \in net'
    <3>1. /\ IsOn(user', Components) /\ FormOK(user'["form"], net', era)
          /\ IsOn(refresh', Refreshes)
          /\ \A r \in Refreshes : RunOK(refresh'[r], net', era)
          /\ ListOK(list, net', era)
      BY <2>1, <2>2, <2>4, RequestEnds
    <3> QED  BY <2>1, <3>1 DEF DashInv
  <2> QED  BY <2>1, <2>3, <2>4
<1>6. ASSUME NEW k \in Components, Write(k)
      PROVE  DashInv'
  <2>1. /\ UNCHANGED <<net, era, list>> /\ user[k].at = "write"
        /\ GiveUp(k) \/ ThenRefresh(k)
    BY <1>6 DEF Write, hostVars, shownVars
  <2>2. user[k] # Idle
    BY <2>1 DEF Idle
  <2> QED  BY <2>1, <2>2, RequestEnds DEF DashInv
<1>7. CASE OtherWrite \/ (\E n \in synced..ver : Synced(n)) \/ SyncFails
           \/ UNCHANGED vars
  <2>1. UNCHANGED <<net, era, list, user, refresh>>
    BY <1>7 DEF OtherWrite, Synced, SyncFails, vars, hostVars, shownVars
  <2> QED  BY <2>1 DEF DashInv
<1>8. CASE ContainerChanges
  <2>1. UNCHANGED <<list, user, refresh>>
    BY <1>8 DEF ContainerChanges, shownVars
  <2>2. Later(net', era')
    <3>1. PICK c \in Containers : \E on \in SUBSET {c} :
            /\ net' = (net \ {c}) \union on
            /\ era' = [era EXCEPT ![c] = IF c \in net \ net' THEN era[c] + 1
                                                          ELSE era[c]]
      BY <1>8 DEF ContainerChanges
    <3>2. era \in [Containers -> Nat] /\ era' \in [Containers -> Nat]
      BY <3>1 DEF DashInv
    <3>3. \A d \in Containers \ {c} : era'[d] = era[d] /\ (d \in net <=> d \in net')
      BY <3>1, <3>2
    <3>4. era'[c] = IF c \in net \ net' THEN era[c] + 1 ELSE era[c]
      BY <3>1, <3>2
    <3> QED  BY <3>2, <3>3, <3>4 DEF Later
  <2>3. /\ FormOK(user["form"], net', era')
        /\ \A r \in Refreshes : RunOK(refresh[r], net', era')
        /\ ListOK(list, net', era')
    BY <2>2, StaysRight
  <2> QED  BY <2>1, <2>2, <2>3 DEF DashInv, Later
<1>9. ASSUME User
      PROVE  DashInv'
  BY <1>3, <1>4, <1>9 DEF User, PressAttach, Edit, Components
<1> QED  BY <1>1, <1>2, <1>5, <1>6, <1>7, <1>8, <1>9 DEF Next, Request

\* When the form has the create sent for a container its list showed, the
\* container is on the network or has been taken off it since the list was read
\* or the form had it attached, however many refreshes overlap, whatever fails
\* and however containers come, go and are created again (handleCreate).
THEOREM CreatesAttached == Spec => []AttachedBeforeCreate
<1>1. DashInv => AttachedBeforeCreate
  BY DEF DashInv, FormOK, Idle, AttachedBeforeCreate
<1> QED  BY <1>1, DashInit, DashStep, PTL DEF Spec

=============================================================================
