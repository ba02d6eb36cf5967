----------------------------- MODULE FrontDoor -----------------------------
(***************************************************************************)
(* The whole way from a row of the table to the answer a client gets: the  *)
(* synchronisation of SyncWorker carries the routes, and Locations says    *)
(* what nginx does with those it has loaded.  Paths stand for prefixes     *)
(* here, and the static exact locations are those of kp-locations.conf.    *)
(***************************************************************************)
EXTENDS SyncWorker, Locations

\* Every prefix in the table has been through the checks of POST, and Nginx
\* counts the static locations Locations lists.
ASSUME FrontDoorAssumption ==
  /\ \A p \in Prefixes : /\ p \in Seq(Segments) \ {<<>>}
                         /\ is_valid_path_prefix(p)
                         /\ ~is_reserved_path_prefix(p)
  /\ StaticExact = {l.path : l \in {m \in Static : m.match = "exact"}}

-----------------------------------------------------------------------------
(* Properties *)

\* When all is quiet, a client gets exactly what the rows of the table ask
\* for, however the writes, syncs, signals and failures came about that led
\* there: the longest enabled prefix, its container, with or without the
\* prefix, or the slash it lacks.
AnswersAsListed ==
  Quiescent =>
    \A u \in Requests :
      u # <<"healthz">> /\ ~Under(Admin, u) =>
        Answer(Conf(Contents(live)), u)
          = Intended(list_enabled_routes(rows), u)

=============================================================================
