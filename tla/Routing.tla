------------------------------ MODULE Routing ------------------------------
(***************************************************************************)
(* The routes of the table, as they come and go, and what a browser gets   *)
(* from nginx meanwhile.  How the routes reach nginx is the subject of     *)
(* SyncWorker; here it takes the enabled ones in one step or refuses them. *)
(***************************************************************************)
EXTENDS Database, Locations

CONSTANTS NewRoutes,  \* the routes POST requests ask for
          Patches,    \* the fields PATCH requests set
          MaxRoutes   \* bound on the ids handed out

ASSUME RoutingAssumption == /\ MaxRoutes \in Nat
                            /\ NewRoutes \subseteq NewRoute
                            /\ Patches \subseteq RouteUpdate
                            /\ Prefixes \subseteq Seq(Segments) \ {<<>>}

VARIABLES loaded,  \* the routes whose rendering nginx uses
          uri,     \* where a browser is, <<>> if it asks for nothing
          hops     \* the redirects it has followed to get there

vars == <<dbVars, loaded, uri, hops>>

-----------------------------------------------------------------------------
Init == /\ DbInit
        /\ loaded = list_enabled_routes(rows)
        /\ uri = <<>> /\ hops = 0

Post == /\ \E new \in NewRoutes, ip \in Addrs :
             /\ is_valid_path_prefix(new.path_prefix)
             /\ ~is_reserved_path_prefix(new.path_prefix)
             /\ seq < MaxRoutes
             /\ CreateRoute(new, ip)
        /\ UNCHANGED <<loaded, uri, hops>>

\* Whatever else class Database can do to the table.
Change == /\ \E id \in Ids : \/ \E patch \in Patches : UpdateRoute(id, patch)
                              \/ \E b \in BOOLEAN : SetEnabled(id, b)
                              \/ DeleteRoute(id)
          /\ UNCHANGED <<loaded, uri, hops>>

\* A sync: nginx takes the rendering of the table, or refuses it.
Sync == /\ LET routes == list_enabled_routes(rows)
           IN  loaded' = IF Loadable(Conf(routes)) THEN routes ELSE loaded
        /\ UNCHANGED <<dbVars, uri, hops>>

\* Somebody types a path into a browser ...
Visit == /\ \E u \in Requests : uri' = u
         /\ hops' = 0
         /\ UNCHANGED <<dbVars, loaded>>

\* ... which follows a redirect, by what nginx has loaded then.
Follow == /\ uri # <<>> /\ hops < 2
          /\ Answer(Conf(loaded), uri).is = "redirect"
          /\ uri' = Answer(Conf(loaded), uri).to
          /\ hops' = hops + 1
          /\ UNCHANGED <<dbVars, loaded>>

Next == Post \/ Change \/ Sync \/ Visit \/ Follow

Spec == Init /\ [][Next]_vars

-----------------------------------------------------------------------------
(* Properties *)

\* Two matching rules of nginx, two locations per route and a rewrite add up
\* to: the longest enabled prefix gets the request, with or without the prefix
\* as its strip_prefix says, and a bare prefix is sent to its slash.  That
\* goes for the root as well: a route for /index.html takes it.
RequestsReachTheirRoute ==
  \A u \in Requests :
    u # <<"healthz">> /\ ~Under(Admin, u) =>
      Answer(Conf(loaded), u) = Intended(loaded, u)

\* No route ever takes a request from the admin API, whatever is registered.
AdminNeverShadowed ==
  \A u \in Requests :
    Under(Admin, u) =>
      Answer(Conf(loaded), u) = IF u = Admin THEN Moved(Slashed(Admin))
                                ELSE Sent(AdminApi, Drop(u, 1))

\* nginx refuses a rendering of the table exactly if an enabled route has the
\* path of a static exact location: what Nginx!Valid takes for granted.
RefusedExactly ==
  Loadable(Conf(list_enabled_routes(rows))) <=>
    \A i \in EnabledIds(rows) :
      ~\E l \in Static : l.match = "exact" /\ l.path = rows[i].path_prefix

\* A visitor is never redirected twice, though routes and the configuration
\* change between the two requests.
AtMostOneRedirect == hops <= 1

\* Whatever validation lets in is fine in the generated configuration.
AlwaysLoadable == Loadable(Conf(list_enabled_routes(rows)))

=============================================================================
