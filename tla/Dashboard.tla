----------------------------- MODULE Dashboard -----------------------------
(***************************************************************************)
(* The web dashboard (web/src) against the admin API: refreshes that       *)
(* overlap, a view that is as old as the last answer, and actions decided  *)
(* on that view.  The table is its number of commits; the sync worker is   *)
(* what /config shows of it; of a container matters whether it exists,     *)
(* runs and is on kingdom-net.                                             *)
(***************************************************************************)
EXTENDS Naturals

CONSTANTS Containers,  \* containers of the host
          Polls,       \* periodic refreshes that may be under way at a time
          Nothing,     \* no configuration has been loaded
          MaxWrites,   \* bound on the writes and attachments anyone starts
          MaxChanges,  \* bound on the changes of containers
          MaxFaults    \* bound on failed requests and syncs

\* What a user can be busy with: the form, one row of the routes, one row of
\* the containers.
Components == {"form", "row", "panel"}
Refreshes  == Components \union Polls

ASSUME DashboardAssumption == /\ MaxWrites \in Nat /\ MaxChanges \in Nat
                              /\ MaxFaults \in Nat
                              /\ Polls \intersect Components = {}

VARIABLES ver,      \* commits of the table
          synced,   \* the commit nginx was last given
          ok,       \* Status::last_sync_ok
          docker,   \* "absent", "stopped" or "running"
          net,      \* the containers on kingdom-net
          era,      \* ghost: how often each has been taken off it
          view,     \* config: the commit and the sync status shown
          list,     \* containers: how the list shows each one
          user,     \* what each component is busy with
          refresh,  \* the refreshes under way
          writes, changes, faults  \* what the bounds count

serverVars == <<ver, synced, ok>>
hostVars   == <<docker, net, era>>
shownVars  == <<view, list>>
vars == <<serverVars, hostVars, shownVars, user, refresh, writes, changes,
          faults>>

Idle  == [at |-> "idle"]
NoRun == [at |-> "none"]
Start == [at |-> "status"]

Fault   == faults < MaxFaults /\ faults' = faults + 1
NoFault == UNCHANGED faults

\* How the API shows a container that it lists.
on_network(c) == IF c \in net THEN "on" ELSE "off"

\* docker's list, which is of the running containers; its era is a ghost.
Listed(c) == [how |-> IF docker[c] = "running" THEN on_network(c) ELSE "unlisted",
              era |-> era[c]]

-----------------------------------------------------------------------------
Init == /\ ver = 0 /\ synced = 0 /\ ok = FALSE
        /\ docker \in [Containers -> {"absent", "stopped", "running"}]
        /\ net \in SUBSET {c \in Containers : docker[c] # "absent"}
        /\ era = [c \in Containers |-> 0]
        /\ view = Nothing
        /\ list = [c \in Containers |-> [how |-> "unlisted", era |-> 0]]
        /\ user = [k \in Components |-> Idle]
        /\ refresh = [r \in Refreshes |-> NoRun]
        /\ writes = 0 /\ changes = 0 /\ faults = 0

-----------------------------------------------------------------------------
(* refresh *)
Step(r, next) == refresh' = [refresh EXCEPT ![r] = next]

\* Mutant of Poll: the page is loaded once and not polled.
Poll_Once(r) == /\ refresh[r] = NoRun /\ view = Nothing
                /\ Step(r, Start)
                /\ UNCHANGED <<serverVars, hostVars, shownVars, user, writes,
                               changes, faults>>

\* setInterval, and the call on mount: whatever else is under way.
Poll(r) == /\ refresh[r] = NoRun
           /\ Step(r, Start)
           /\ UNCHANGED <<serverVars, hostVars, shownVars, user, writes,
                          changes, faults>>

\* GET /config reads the status and then, under another mutex, the routes.
ReadStatus(r) == /\ refresh[r].at = "status"
                 /\ Step(r, [at |-> "routes", ok |-> ok])
                 /\ UNCHANGED <<shownVars, user, faults>>

ReadRoutes(r) == /\ refresh[r].at = "routes"
                 /\ Step(r, [at |-> "config",
                             shows |-> [ok |-> refresh[r].ok, ver |-> ver]])
                 /\ UNCHANGED <<shownVars, user, faults>>

SetConfig(r) == /\ refresh[r].at = "config"
                /\ view' = refresh[r].shows
                /\ Step(r, [at |-> "containers"])
                /\ UNCHANGED <<list, user, faults>>

\* The request fails: the view stays, and the list is asked for all the same.
ConfigFails(r) == /\ refresh[r].at \in {"status", "routes", "config"}
                  /\ Step(r, [at |-> "containers"])
                  /\ Fault
                  /\ UNCHANGED <<shownVars, user>>

ListContainers(r) ==
  /\ refresh[r].at = "containers"
  /\ Step(r, [at |-> "list", shows |-> [c \in Containers |-> Listed(c)]])
  /\ UNCHANGED <<shownVars, user, faults>>

\* The refresh is over; a component that waited for it is free again.
Finish(r) == /\ Step(r, NoRun)
             /\ user' = [k \in Components |-> IF k = r THEN Idle ELSE user[k]]

SetContainers(r) == /\ refresh[r].at = "list"
                    /\ list' = refresh[r].shows
                    /\ Finish(r)
                    /\ UNCHANGED <<view, faults>>

\* Mutant of ContainersFail: the exception leaves refresh and its caller, past
\* the code that enables the buttons again.
ContainersFail_Escapes(r) == /\ refresh[r].at \in {"containers", "list"}
                             /\ Step(r, NoRun)
                             /\ Fault
                             /\ UNCHANGED <<shownVars, user>>

ContainersFail(r) == /\ refresh[r].at \in {"containers", "list"}
                     /\ Finish(r)
                     /\ Fault
                     /\ UNCHANGED shownVars

Refresh(r) == /\ \/ ReadStatus(r) \/ ReadRoutes(r) \/ SetConfig(r)
                 \/ ConfigFails(r) \/ ListContainers(r) \/ SetContainers(r)
                 \/ ContainersFail(r)
              /\ UNCHANGED <<serverVars, hostVars, writes, changes>>

-----------------------------------------------------------------------------
(* Actions of the user *)
Begin(k, task) == /\ user[k] = Idle /\ view # Nothing
                  /\ writes < MaxWrites
                  /\ writes' = writes + 1
                  /\ user' = [user EXCEPT ![k] = task]
                  /\ UNCHANGED <<serverVars, hostVars, shownVars, refresh,
                                 changes, faults>>

\* Submit: a container the list shows off the network is attached first.
Submit(c) ==
  Begin("form", [at |-> IF list[c].how = "off" THEN "attach" ELSE "write",
                 target |-> c, seen |-> list[c]])

\* Enable, disable, save or delete a route of the table shown.
Edit == Begin("row", [at |-> "write"])

\* Attach, which the containers panel offers for a container off the network.
\* (The panel is hidden while the last list failed; here it may be pressed.)
PressAttach(c) == /\ list[c].how = "off"
                  /\ Begin("panel", [at |-> "attach", target |-> c])

GiveUp(k)      == user' = [user EXCEPT ![k] = Idle] /\ UNCHANGED refresh
ThenRefresh(k) == user' = [user EXCEPT ![k].at = "refresh"] /\ Step(k, Start)

\* The form goes on to the create, with what it knows now of its target.
ThenWrite == /\ user' = [user EXCEPT !["form"].at = "write",
                                     !["form"].seen.era = era[user["form"].target]]
             /\ UNCHANGED refresh

\* Mutant of Attach: the error of the attachment is swallowed.
Attach_Swallows(k) ==
  /\ user[k].at = "attach"
  /\ \/ /\ docker[user[k].target] # "absent"
        /\ net' = net \union {user[k].target}
        /\ IF k = "form" THEN ThenWrite ELSE ThenRefresh(k)
        /\ NoFault
     \/ /\ UNCHANGED net /\ Fault
        /\ IF k = "form" THEN ThenWrite ELSE GiveUp(k)
  /\ UNCHANGED <<serverVars, docker, era, shownVars, writes, changes>>

\* A container that is on the network already counts as attached; one that
\* docker does not know cannot be.
connect_network(c, attached) == /\ attached <=> docker[c] # "absent"
                                /\ net' = IF attached THEN net \union {c} ELSE net

\* POST .../attach-network, which may also fail before or after it took effect.
Attach(k) ==
  /\ user[k].at = "attach"
  /\ \/ /\ connect_network(user[k].target, TRUE)
        /\ \/ /\ IF k = "form" THEN ThenWrite ELSE ThenRefresh(k)
              /\ NoFault
           \/ GiveUp(k) /\ Fault
     \/ connect_network(user[k].target, FALSE) /\ GiveUp(k) /\ NoFault
     \/ UNCHANGED net /\ GiveUp(k) /\ Fault
  /\ UNCHANGED <<serverVars, docker, era, shownVars, writes, changes>>

\* POST, PATCH or DELETE of /routes; a create needs a container docker knows.
Write(k) ==
  /\ user[k].at = "write"
  /\ \/ /\ k = "form" => docker[user[k].target] # "absent"
        /\ ver' = ver + 1
        /\ \/ ThenRefresh(k) /\ NoFault
           \/ GiveUp(k) /\ Fault
     \/ /\ k = "form" /\ docker[user[k].target] = "absent"
        /\ UNCHANGED ver /\ GiveUp(k) /\ NoFault
     \/ UNCHANGED ver /\ GiveUp(k) /\ Fault
  /\ UNCHANGED <<synced, ok, hostVars, shownVars, writes, changes>>

User == \/ \E c \in Containers : Submit(c) \/ PressAttach(c)
        \/ Edit

Request(k) == Attach(k) \/ Write(k)

-----------------------------------------------------------------------------
(* The rest of the world *)
\* Another client of the admin API.
OtherWrite == /\ writes < MaxWrites
              /\ writes' = writes + 1
              /\ ver' = ver + 1
              /\ UNCHANGED <<synced, ok, hostVars, shownVars, user, refresh,
                             changes, faults>>

\* A sync ends well, for the table it has read: n commits.
Synced(n) == /\ synced' = n /\ ok' = TRUE
             /\ UNCHANGED <<ver, hostVars, shownVars, user, refresh, writes,
                            changes, faults>>

CatchUp == Synced(ver)

SyncFails == /\ Fault
             /\ ok' = FALSE
             /\ UNCHANGED <<ver, synced, hostVars, shownVars, user, refresh,
                            writes, changes>>

\* A container comes, stops, starts or goes; a new one, or one that is created
\* again, is on the network only if its own configuration says so, and anyone
\* may connect or disconnect one.
ContainerChanges ==
  /\ changes < MaxChanges
  /\ changes' = changes + 1
  /\ \E c \in Containers, state \in {"absent", "stopped", "running"} :
     \E on \in SUBSET {c} :
       /\ state = "absent" => on = {}
       /\ docker' = [docker EXCEPT ![c] = state]
       /\ net' = (net \ {c}) \union on
       /\ era' = [era EXCEPT ![c] = IF c \in net \ net' THEN era[c] + 1 ELSE era[c]]
  /\ UNCHANGED <<serverVars, shownVars, user, refresh, writes, faults>>

Next == \/ \E r \in Polls : Poll(r)
        \/ \E r \in Refreshes : Refresh(r)
        \/ User \/ \E k \in Components : Request(k)
        \/ OtherWrite \/ (\E n \in synced..ver : Synced(n)) \/ SyncFails
        \/ ContainerChanges

\* The timer of the page fires, every request is answered or fails, and the
\* sync worker catches up with the table (SyncWorker's Convergence).
Fairness == /\ WF_vars(\E r \in Polls : Poll(r))
            /\ \A r \in Refreshes : WF_vars(Refresh(r))
            /\ \A k \in Components : WF_vars(Request(k))
            /\ WF_vars(CatchUp)

Spec     == Init /\ [][Next]_vars
FairSpec == Spec /\ Fairness

-----------------------------------------------------------------------------
(* Properties *)

\* A create for a container the list showed is only sent for one that is on
\* the network, however old the list and whatever failed, unless the container
\* has been taken off it since: since the list was read, or since the form had
\* it attached (handleCreate; a container that is created again needs the
\* Attach button again, and a list that is older than that does not say so).
AttachedBeforeCreate ==
  LET form == user["form"]
  IN  /\ form.at \in {"write", "refresh"}
      /\ form.seen.how # "unlisted" /\ form.seen.era = era[form.target]
      => form.target \in net

\* Answers that overtake each other and lists that failed to load are made up
\* for: when the world comes to rest, the page shows it as it is (refresh and
\* its interval in App).
ShowsWhatIs ==
  <>[](/\ view = [ok |-> TRUE, ver |-> ver] /\ synced = ver
       /\ \A c \in Containers : list[c] = Listed(c))

\* An action never leaves its buttons disabled (busy and submitting).
BusyEnds == \A k \in Components : user[k] # Idle ~> user[k] = Idle

\* handleCreate's comment: a container that is not on the network is attached
\* before the route is created, so the route works, as long as nobody takes the
\* container off the network again.
CreatedIsReachable ==
  LET form == user["form"]
  IN  form.at = "refresh" /\ form.seen.era = era[form.target] => form.target \in net

=============================================================================
