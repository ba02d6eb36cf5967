--------------------------- MODULE RoutingProofs ---------------------------
(***************************************************************************)
(* What a browser gets while routes come and go, for every table and every *)
(* path.                                                                   *)
(***************************************************************************)
EXTENDS Routing, LocationsProofs, DatabaseProofs

-----------------------------------------------------------------------------
(* The invariant: what is registered is what POST lets in, and a browser     *)
(* that was redirected stands at a slash.                                    *)

RoutingInv == /\ DbTypeOK /\ UniquePrefix
              /\ Good(rows)
              /\ Good(loaded) /\ Distinct(loaded)
              /\ uri \in Path \union {<<>>}
              /\ hops \in {0, 1}
              /\ hops = 1 => \E q \in Path : uri = Append(q, Nothing)

\* The enabled routes of a sound table are sound.
LEMMA EnabledGood ==
  ASSUME DbTypeOK, UniquePrefix, Good(rows)
  PROVE  /\ Good(list_enabled_routes(rows)) /\ Distinct(list_enabled_routes(rows))
         /\ DOMAIN list_enabled_routes(rows) = EnabledIds(rows)
         /\ 0 \notin EnabledIds(rows)
         /\ \A i \in EnabledIds(rows) : list_enabled_routes(rows)[i] = rows[i]
BY DEF list_enabled_routes, EnabledIds, DbTypeOK, UniquePrefix, Ids, Good,
       Distinct

\* The table and nginx start empty.
LEMMA RoutingInit == Init => RoutingInv
BY DEF Init, DbInit, list_enabled_routes, EnabledIds, RoutingInv, DbTypeOK,
       UniquePrefix, Ids, Good, Distinct

\* A new row has the prefix that was checked.
LEMMA PostGood ==
  ASSUME DbTypeOK, Good(rows), Post
  PROVE  Good(rows')
<1>1. PICK new \in NewRoutes, ip \in Addrs :
        /\ is_valid_path_prefix(new.path_prefix)
        /\ ~is_reserved_path_prefix(new.path_prefix)
        /\ CreateRoute(new, ip)
  BY DEF Post
<1>2. new.path_prefix \in Path
  BY RoutingAssumption DEF NewRoute, Path
<1>3. Plain(new.path_prefix)
  BY <1>1, <1>2 DEF Plain, is_valid_path_prefix, is_reserved_path_prefix
<1>4. DOMAIN rows' = Ids \union {seq + 1}
  BY <1>1 DEF CreateRoute
<1>5. \A i \in DOMAIN rows' : \/ i \in Ids /\ rows'[i] = rows[i]
                              \/ rows'[i].path_prefix = new.path_prefix
  BY <1>1, <1>4 DEF CreateRoute, RowOf
<1> QED  BY <1>3, <1>5 DEF Good, Ids

\* No other change touches a prefix.
LEMMA ChangeGood ==
  ASSUME DbTypeOK, UniquePrefix, Good(rows), Change
  PROVE  DbTypeOK' /\ UniquePrefix' /\ Good(rows')
<1>1. ASSUME NEW id, NEW patch \in RouteUpdate, UpdateRoute(id, patch)
      PROVE  DbTypeOK' /\ UniquePrefix' /\ Good(rows')
  <2>1. DOMAIN rows' = DOMAIN rows
    BY <1>1 DEF UpdateRoute
  <2>2. \A i \in DOMAIN rows : rows'[i].path_prefix = rows[i].path_prefix
    BY <1>1 DEF UpdateRoute, Patched, DbTypeOK
  <2> QED  BY <1>1, <2>1, <2>2, UpdateTyped, UpdateUnique DEF Good
<1>2. ASSUME NEW id, NEW b \in BOOLEAN, SetEnabled(id, b)
      PROVE  DbTypeOK' /\ UniquePrefix' /\ Good(rows')
  <2> DEFINE patch == [container_name |-> Unset, container_port |-> Unset,
                       strip_prefix |-> Unset, enabled |-> b,
                       last_seen_ip |-> Unset]
  <2>1. patch \in RouteUpdate
    BY DEF RouteUpdate
  <2>2. UpdateRoute(id, patch)
    BY <1>2, SetEnabledIsUpdate
  <2> QED  BY <1>1, <2>1, <2>2
<1>3. ASSUME NEW id, DeleteRoute(id)
      PROVE  DbTypeOK' /\ UniquePrefix' /\ Good(rows')
  <2>1. Good(rows')
    BY <1>3 DEF DeleteRoute, Good, Ids
  <2> QED  BY <1>3, <2>1, DeleteTyped, DeleteUnique
<1>4. PICK id \in Ids : \/ \E patch \in Patches : UpdateRoute(id, patch)
                        \/ \E b \in BOOLEAN : SetEnabled(id, b)
                        \/ DeleteRoute(id)
  BY DEF Change
<1> QED  BY <1>1, <1>2, <1>3, <1>4, RoutingAssumption

\* One step per action.
LEMMA RoutingStep == RoutingInv /\ [Next]_vars => RoutingInv'
<1> SUFFICES ASSUME RoutingInv, [Next]_vars
             PROVE  RoutingInv'
  OBVIOUS
<1>1. CASE Post
  <2>1. PICK new \in NewRoutes, ip \in Addrs : CreateRoute(new, ip)
    BY <1>1 DEF Post
  <2>2. DbTypeOK' /\ UniquePrefix'
    BY <2>1, CreateTyped, CreateUnique, RoutingAssumption DEF RoutingInv
  <2>3. UNCHANGED <<loaded, uri, hops>>
    BY <1>1 DEF Post
  <2> QED  BY <1>1, <2>2, <2>3, PostGood DEF RoutingInv
<1>2. CASE Change
  <2>1. UNCHANGED <<loaded, uri, hops>>
    BY <1>2 DEF Change
  <2> QED  BY <1>2, <2>1, ChangeGood DEF RoutingInv
<1>3. CASE Sync
  <2>1. /\ loaded' \in {list_enabled_routes(rows), loaded}
        /\ UNCHANGED <<rows, seq, uri, hops>>
    BY <1>3 DEF Sync, dbVars
  <2>2. Good(loaded') /\ Distinct(loaded')
    BY <2>1, EnabledGood DEF RoutingInv
  <2> QED  BY <2>1, <2>2 DEF RoutingInv, DbTypeOK, UniquePrefix, Ids
<1>4. CASE Visit
  BY <1>4, PathAssumption DEF Visit, dbVars, RoutingInv, Path, DbTypeOK,
     UniquePrefix, Ids
<1>5. CASE Follow
  <2>1. /\ uri \in Path /\ Answer(Conf(loaded), uri).is = "redirect"
        /\ uri' = Answer(Conf(loaded), uri).to /\ hops' = hops + 1
        /\ UNCHANGED <<rows, seq, loaded>>
    BY <1>5 DEF Follow, RoutingInv, dbVars
  <2>2. hops = 0
    BY <2>1, SlashStays DEF RoutingInv
  <2>3. PICK q \in Path : uri' = Append(q, Nothing)
    BY <2>1, RedirectsToSlash DEF RoutingInv
  <2>4. uri' \in Path
    BY <2>3, Appended
  <2> QED  BY <2>1, <2>2, <2>3, <2>4 DEF RoutingInv, DbTypeOK, UniquePrefix, Ids
<1>6. CASE UNCHANGED vars
  BY <1>6 DEF vars, dbVars, RoutingInv, DbTypeOK, UniquePrefix, Ids
<1> QED  BY <1>1, <1>2, <1>3, <1>4, <1>5, <1>6 DEF Next

\* The invariant holds throughout.
LEMMA RoutingHolds == Spec => []RoutingInv
BY RoutingInit, RoutingStep, PTL DEF Spec

-----------------------------------------------------------------------------
(* Theorems *)

\* Whatever routes come and go, nginx serves every path as the table it has
\* loaded asks for: the longest enabled prefix, its slash or its container,
\* the files for the rest.
THEOREM RoutesReached == Spec => []RequestsReachTheirRoute
<1>1. RoutingInv => RequestsReachTheirRoute
  BY PathAssumption, AnswerIntended
     DEF RoutingInv, RequestsReachTheirRoute, Path
<1> QED  BY <1>1, RoutingHolds, PTL

\* No table of routes, however its prefixes are nested, takes a request from
\* the admin API.
THEOREM AdminServed == Spec => []AdminNeverShadowed
<1>1. RoutingInv => AdminNeverShadowed
  BY PathAssumption, UnderAdmin, AdminAnswer
     DEF RoutingInv, AdminNeverShadowed, Path
<1> QED  BY <1>1, RoutingHolds, PTL

\* The redirects of the generated locations end after one, also when the
\* configuration changes in between.
THEOREM RedirectsEnd == Spec => []AtMostOneRedirect
<1>1. RoutingInv => AtMostOneRedirect
  BY DEF RoutingInv, AtMostOneRedirect
<1> QED  BY <1>1, RoutingHolds, PTL

\* nginx refuses the configuration of a table exactly when an enabled route
\* bears the path of a static exact location, whatever the table.
THEOREM RefusalsExplained == Spec => []RefusedExactly
<1>1. RoutingInv => RefusedExactly
  <2> SUFFICES ASSUME RoutingInv PROVE RefusedExactly
    OBVIOUS
  <2> DEFINE routes == list_enabled_routes(rows)
  <2>1. /\ Good(routes) /\ Distinct(routes)
        /\ DOMAIN routes = EnabledIds(rows) /\ 0 \notin DOMAIN routes
        /\ \A i \in EnabledIds(rows) : routes[i] = rows[i]
    BY EnabledGood DEF RoutingInv
  <2> HIDE DEF routes
  <2>2. Loadable(Conf(routes)) <=>
          \A i \in DOMAIN routes :
            ~\E l \in Static : l.match = "exact" /\ l.path = routes[i].path_prefix
    BY <2>1, Collisions
  <2> QED  BY <2>1, <2>2 DEF RefusedExactly, routes
<1> QED  BY <1>1, RoutingHolds, PTL

-----------------------------------------------------------------------------
(* The one prefix that validation should refuse and does not *)

\* Every prefix in the table is one a POST asked for.
FromRequests ==
  \A i \in Ids : \E new \in NewRoutes : rows[i].path_prefix = new.path_prefix

\* Only POST writes a prefix.
LEMMA FromRequestsStep ==
  ASSUME DbTypeOK, FromRequests, [Next]_vars
  PROVE  FromRequests'
<1>1. CASE Post
  <2>1. PICK new \in NewRoutes, ip \in Addrs : CreateRoute(new, ip)
    BY <1>1 DEF Post
  <2>2. \A i \in Ids' : \/ i \in Ids /\ rows'[i] = rows[i]
                        \/ rows'[i].path_prefix = new.path_prefix
    BY <2>1 DEF CreateRoute, RowOf, Ids
  <2> QED  BY <2>2 DEF FromRequests
<1>2. CASE Change
  <2>1. \A i \in Ids' : i \in Ids /\ rows'[i].path_prefix = rows[i].path_prefix
    <3>1. ASSUME NEW id, NEW patch, UpdateRoute(id, patch)
          PROVE  \A i \in Ids' :
                   i \in Ids /\ rows'[i].path_prefix = rows[i].path_prefix
      BY <3>1 DEF UpdateRoute, Patched, DbTypeOK, Ids
    <3>2. ASSUME NEW id, NEW b \in BOOLEAN, SetEnabled(id, b)
          PROVE  \A i \in Ids' :
                   i \in Ids /\ rows'[i].path_prefix = rows[i].path_prefix
      BY <3>1, <3>2, SetEnabledIsUpdate
    <3>3. ASSUME NEW id, DeleteRoute(id)
          PROVE  \A i \in Ids' :
                   i \in Ids /\ rows'[i].path_prefix = rows[i].path_prefix
      BY <3>3 DEF DeleteRoute, Ids
    <3> QED  BY <1>2, <3>1, <3>2, <3>3 DEF Change
  <2> QED  BY <2>1 DEF FromRequests
<1>3. CASE Sync \/ Visit \/ Follow \/ UNCHANGED vars
  BY <1>3 DEF Sync, Visit, Follow, vars, dbVars, FromRequests, Ids
<1> QED  BY <1>1, <1>2, <1>3 DEF Next

\* Whatever validation lets in is fine in the generated configuration, except
\* for /healthz: as long as nobody registers that, no table is refused.
THEOREM OnlyHealthzRefused ==
  ASSUME \A new \in NewRoutes : new.path_prefix # <<"healthz">>
  PROVE  Spec => []AlwaysLoadable
<1>1. Init => FromRequests
  BY DEF Init, DbInit, FromRequests, Ids
<1>2. RoutingInv /\ RefusedExactly /\ FromRequests => AlwaysLoadable
  <2> SUFFICES ASSUME RoutingInv, RefusedExactly, FromRequests,
                      NEW i \in EnabledIds(rows), NEW l \in Static,
                      l.match = "exact"
               PROVE  l.path # rows[i].path_prefix
    BY DEF RefusedExactly, AlwaysLoadable
  <2>1. l.path \in {<<"healthz">>, Admin}
    BY StaticFields DEF Static, Healthz, AdminBare, AdminBelow, RootFiles
  <2>2. rows[i].path_prefix # <<"healthz">>
    BY DEF FromRequests, EnabledIds, Ids
  <2>3. rows[i].path_prefix # Admin
    BY SlashedAdmin DEF RoutingInv, Good, Plain, EnabledIds
  <2> QED  BY <2>1, <2>2, <2>3
<1>3. RoutingInv /\ FromRequests /\ [Next]_vars => FromRequests'
  BY FromRequestsStep DEF RoutingInv
<1> QED  BY <1>1, <1>2, <1>3, RoutingHolds, RefusalsExplained, PTL DEF Spec

=============================================================================
