---------------------------- MODULE RouteWriter ----------------------------
(***************************************************************************)
(* What the HTTP handlers owe the sync worker: they change the table by    *)
(* single statements of class Database only, and a handler whose statement *)
(* succeeded does nothing else before it has triggered the worker, unless  *)
(* the row cannot be read back or the process ends.  SyncWorker's handlers *)
(* take exactly these steps.                                               *)
(***************************************************************************)
EXTENDS Database

CONSTANTS Handlers,   \* the threads that write
          NewRoutes,  \* the routes they create
          Patches     \* the updates they make, last_seen_ip aside

VARIABLE hpc  \* "trigger": between the statement and the trigger;
              \* "lost": the last row it wrote could not be read back

vars == <<dbVars, hpc>>

Init == DbInit /\ hpc = [h \in Handlers |-> "idle"]

\* The statements whose result is read back with a second one.
StoreRow ==
  \/ \E new \in NewRoutes, ip \in Addrs : CreateRoute(new, ip)
  \/ \E id \in Ids, patch \in Patches, ip \in Addrs \union {Unset} :
        UpdateRoute(id, [patch EXCEPT !.last_seen_ip = ip])

Write(h) == /\ hpc[h] # "trigger"
            /\ hpc' = [hpc EXCEPT ![h] = "trigger"]
            /\ StoreRow \/ \E id \in Ids : DeleteRoute(id)

\* An exception of the second one takes the handler past the trigger.
WriteUnread(h) == /\ hpc[h] # "trigger"
                  /\ hpc' = [hpc EXCEPT ![h] = "lost"]
                  /\ StoreRow

\* Another request; an update_route that found no row triggers as well.
WriteNothing(h) == /\ hpc[h] # "trigger"
                   /\ \E l \in {"idle", "trigger"} : hpc' = [hpc EXCEPT ![h] = l]
                   /\ UNCHANGED dbVars

Trigger(h) == /\ hpc[h] = "trigger"
              /\ hpc' = [hpc EXCEPT ![h] = "idle"]
              /\ UNCHANGED dbVars

Crash == /\ hpc' = [h \in Handlers |-> "idle"]
         /\ UNCHANGED dbVars

Next == \/ \E h \in Handlers : Write(h) \/ WriteUnread(h)
                              \/ WriteNothing(h) \/ Trigger(h)
        \/ Crash

Spec == Init /\ [][Next]_vars
=============================================================================
