--------------------------- MODULE AdminApiProofs ---------------------------
(***************************************************************************)
(* The admin API for every number of threads, every set of bodies and      *)
(* every history of the containers: what is stored is well formed, unique, *)
(* addressed and fit to be sent back, errors are honest, and the handlers  *)
(* keep the contract of RouteWriter.                                       *)
(***************************************************************************)
EXTENDS AdminApi, DatabaseProofs

-----------------------------------------------------------------------------
(* Validation *)

\* get<int>() of a number or a Boolean is an integer.
LEMMA IntegerGot ==
  ASSUME NEW body, WellFormed(body), NEW f \in DOMAIN body.fields,
         body.fields[f][1] \in {"integer", "float", "boolean"}
  PROVE  GetInt(body.fields[f]) \in Int
<1> DEFINE n == body.fields[f][2]
<1>1. CASE body.fields[f][1] = "boolean"
  BY <1>1 DEF GetInt
<1>2. CASE body.fields[f][1] # "boolean"
  <2>1. n \in Int /\ IntRange \in Nat \ {0}
    BY <1>2, WidthAssumption DEF WellFormed
  <2>2. n % IntRange \in Int
    BY <2>1
  <2>3. ToInt(n) \in Int
    BY <2>1, <2>2 DEF ToInt
  <2> QED  BY <1>2, <2>3 DEF GetInt
<1> QED  BY <1>1, <1>2

\* A port of the valid range survives its conversion to int.
LEMMA PortKept ==
  ASSUME NEW n \in 1..MaxPort PROVE ToInt(n) = n
<1>1. IntRange \in Nat \ {0} /\ MaxPort \in Nat /\ 2 * n < IntRange
  BY WidthAssumption
<1>2. n % IntRange = n
  BY <1>1
<1> QED  BY <1>1, <1>2 DEF ToInt

\* Whatever body a POST accepts, it makes a well-formed route of it.
LEMMA RoutesTyped ==
  /\ NewRoutes \subseteq NewRoute
  /\ \A new \in NewRoutes : new.container_port \in 1..MaxPort
<1> SUFFICES ASSUME NEW b \in PostBodies, PostAccepts(b)
             PROVE  RouteOf(b) \in NewRoute /\ RouteOf(b).container_port \in 1..MaxPort
  BY DEF NewRoutes
<1>1. WellFormed(b) /\ ~Mistyped(b) /\ ValidRoute(RouteOf(b))
  BY ApiAssumption DEF PostAccepts
<1>2. RouteOf(b).path_prefix \in Prefixes /\ RouteOf(b).container_name \in Containers
  BY <1>1 DEF ValidRoute, is_valid_path_prefix, is_reserved_path_prefix,
              is_valid_container_name
<1>3. PortOf(b, 0) \in Int
  <2>1. CASE contains(b, "container_port")
    BY <1>1, <2>1, IntegerGot DEF PortOf, Mistyped, Typed, contains
  <2>2. CASE ~contains(b, "container_port")
    BY <2>2 DEF PortOf
  <2> QED  BY <2>1, <2>2
<1>4. RouteOf(b).container_port \in 1..MaxPort
  BY <1>1, <1>3, WidthAssumption DEF RouteOf, ValidRoute, is_valid_port
<1>5. ValueOf(b, "strip_prefix", TRUE) \in BOOLEAN
  BY <1>1 DEF ValueOf, Mistyped, Typed, contains, WellFormed
<1> QED  BY <1>2, <1>4, <1>5, WidthAssumption DEF RouteOf, NewRoute

\* Whatever body a PATCH accepts, it makes a well-formed update of it.
LEMMA PatchesTyped ==
  /\ Patches \subseteq RouteUpdate
  /\ \A p \in Patches : p.last_seen_ip = Unset
                        /\ p.container_port \in (1..MaxPort) \union {Unset}
<1> SUFFICES ASSUME NEW b \in PatchBodies, PatchAccepts(b)
             PROVE  /\ UpdateOf(b) \in RouteUpdate
                    /\ UpdateOf(b).last_seen_ip = Unset
                    /\ UpdateOf(b).container_port \in (1..MaxPort) \union {Unset}
  BY DEF Patches
<1>1. WellFormed(b)
  BY ApiAssumption
<1>2. ValueOf(b, "container_name", Unset) \in Containers \union {Unset}
  BY DEF PatchAccepts, ValueOf, contains, is_valid_container_name
<1>3. /\ ValueOf(b, "strip_prefix", Unset) \in BOOLEAN \union {Unset}
      /\ ValueOf(b, "enabled", Unset) \in BOOLEAN \union {Unset}
  BY <1>1 DEF PatchAccepts, Typed, ValueOf, contains, WellFormed
<1>4. PortOf(b, Unset) \in (1..MaxPort) \union {Unset}
  <2>1. CASE contains(b, "container_port")
    <3>1. PortOf(b, Unset) = PortOf(b, 0) /\ PortOf(b, 0) \in Int
      BY <1>1, <2>1, IntegerGot DEF PatchAccepts, PortOf, Typed, contains
    <3>2. is_valid_port(PortOf(b, 0))
      BY <2>1 DEF PatchAccepts
    <3> QED  BY <3>1, <3>2, WidthAssumption DEF is_valid_port
  <2>2. CASE ~contains(b, "container_port")
    BY <2>2 DEF PortOf
  <2> QED  BY <2>1, <2>2
<1> QED  BY <1>2, <1>3, <1>4, WidthAssumption DEF UpdateOf, RouteUpdate

-----------------------------------------------------------------------------
(* The invariant *)

Job == {[op |-> "none"]} \union {Post(new) : new \in NewRoutes}
         \union {Patch(id) : id \in 1..MaxRoutes} \union {Del(id) : id \in 1..MaxRoutes}
         \union [op : {"PATCH"}, id : 1..MaxRoutes, patch : Patches]

State == [at : {"idle", "lookup", "inspect", "write", "trigger", "render"},
          job : Job, ip : Addrs \union {Unset}, found : BOOLEAN,
          failed : BOOLEAN, target : Prefixes \union {Unset},
          wrote : {"no", "yes", "unread"}]

\* The table as the properties see it.
TableOK == /\ DbTypeOK /\ UniquePrefix /\ AddressOfContainer
           /\ \A i \in Ids : rows[i].container_port \in 1..MaxPort

\* Docker gives a container only addresses of its pool.
DockerOK == docker \in [Containers -> Addrs \union {Gone}]
            /\ \A c \in Containers : docker[c] \in Pool[c] \union {Gone}

\* What a POST brings along to its INSERT.
PostOK(r) ==
  r.job.op = "POST" /\ r.at \in {"inspect", "write"} =>
    /\ r.job.new \in NewRoutes
    /\ r.at = "write" => r.ip \in Pool[r.job.new.container_name]

\* What a PATCH brings along to its UPDATE.
PatchOK(r) ==
  r.job.op = "PATCH" /\ r.at \in {"inspect", "write"} =>
    /\ r.job.patch \in Patches
    /\ r.at = "inspect" => r.job.patch.container_name # Unset
    /\ r.at = "write" => IF r.job.patch.container_name = Unset THEN r.ip = Unset
                         ELSE r.ip \in Pool[r.job.patch.container_name]

\* The id of a PATCH was handed out, and means the route it was looked up for
\* as long as there is one; if the statement found none, there is none again.
AimOK(r, table, last) ==
  /\ r.job.op = "PATCH" /\ r.at \in {"inspect", "write"} =>
       /\ r.job.id \in 1..last
       /\ r.job.id \in DOMAIN table => table[r.job.id].path_prefix = r.target
  /\ r.at \in {"trigger", "render"} /\ ~r.found =>
       r.job.id \in (1..last) \ DOMAIN table

\* What a request has done by the time it gets somewhere.
ReplyOK(r) ==
  /\ r.at # "idle" => ~r.failed
  /\ r.at = "lookup" => r.job.op = "PATCH"
  /\ r.at = "inspect" => r.job.op \in {"POST", "PATCH"}
  /\ r.at \in {"lookup", "inspect"} => r.ip = Unset
  /\ r.at \in {"lookup", "inspect", "write"} => r.wrote = "no"
  /\ r.at \in {"trigger", "render"} => r.wrote # "unread"
  /\ r.at \in {"trigger", "render"} /\ ~r.found => r.wrote = "no"
  /\ r.failed => r.wrote # "yes"

RequestOK(r, table, last) ==
  /\ r \in State
  /\ PostOK(r) /\ PatchOK(r) /\ AimOK(r, table, last) /\ ReplyOK(r)

ApiInv == /\ TableOK /\ DockerOK
          /\ req \in [Handlers -> State]
          /\ \A h \in Handlers : RequestOK(req[h], rows, seq)

\* What may happen to the table.
DbStep == \/ \E new \in NewRoutes, ip \in Addrs : CreateRoute(new, ip)
          \/ \E id \in Ids, patch \in RouteUpdate : UpdateRoute(id, patch)
          \/ \E id \in Ids : DeleteRoute(id)
          \/ UNCHANGED dbVars

\* A thread at rest has nothing to answer for.
LEMMA FreeOK ==
  ASSUME NEW failed \in BOOLEAN, NEW wrote \in {"no", "yes", "unread"},
         failed => wrote # "yes",
         NEW table, NEW last
  PROVE  RequestOK([Free EXCEPT !.failed = failed, !.wrote = wrote], table, last)
BY DEF Free, RequestOK, State, Job, PostOK, PatchOK, AimOK, ReplyOK

\* create_route finds a fresh id, update_route keeps path_prefix and
\* delete_route only removes: an id goes on meaning the same route.
LEMMA AimKept ==
  ASSUME DbTypeOK, DbStep, NEW r, AimOK(r, rows, seq)
  PROVE  AimOK(r, rows', seq')
<1> USE DEF AimOK, DbTypeOK, Ids
<1>1. CASE \E new \in NewRoutes, ip \in Addrs : CreateRoute(new, ip)
  BY <1>1 DEF CreateRoute
<1>2. CASE \E id \in Ids, patch \in RouteUpdate : UpdateRoute(id, patch)
  BY <1>2 DEF UpdateRoute, Patched
<1>3. CASE \E id \in Ids : DeleteRoute(id)
  BY <1>3 DEF DeleteRoute
<1>4. CASE UNCHANGED dbVars
  BY <1>4 DEF dbVars
<1> QED  BY <1>1, <1>2, <1>3, <1>4 DEF DbStep

\* A step of one thread preserves the requests if it leaves that thread's
\* request in order.
LEMMA OthersOK ==
  ASSUME ApiInv, DbStep, NEW h \in Handlers, NEW r, RequestOK(r, rows', seq'),
         req' = [req EXCEPT ![h] = r]
  PROVE  /\ req' \in [Handlers -> State]
         /\ \A g \in Handlers : RequestOK(req'[g], rows', seq')
<1>1. r \in State
  BY DEF RequestOK
<1>2. \A g \in Handlers : req'[g] = IF g = h THEN r ELSE req[g]
  BY DEF ApiInv
<1>3. ASSUME NEW g \in Handlers, g # h PROVE RequestOK(req'[g], rows', seq')
  <2>1. AimOK(req[g], rows', seq')
    BY AimKept DEF ApiInv, TableOK, RequestOK
  <2> QED  BY <1>2, <1>3, <2>1 DEF ApiInv, RequestOK
<1> QED  BY <1>1, <1>2, <1>3 DEF ApiInv

-----------------------------------------------------------------------------
(* The statements *)

\* A route is stored with an address of its container and a valid port.
LEMMA CreateStores ==
  ASSUME TableOK, NEW new \in NewRoutes, NEW ip \in Pool[new.container_name],
         CreateRoute(new, ip)
  PROVE  TableOK'
<1>1. new \in NewRoute /\ new.container_port \in 1..MaxPort
  BY RoutesTyped
<1>2. ip \in Addrs
  BY <1>1, ApiAssumption DEF NewRoute
<1>3. DbTypeOK' /\ UniquePrefix'
  BY <1>1, <1>2, CreateTyped, CreateUnique DEF TableOK
<1>4. \A i \in Ids' : rows'[i] = IF i = seq + 1 THEN RowOf(new, ip) ELSE rows[i]
  BY DEF CreateRoute, Ids
<1>5. \A i \in Ids' : i # seq + 1 => i \in Ids
  BY DEF CreateRoute, Ids
<1>6. AddressOfContainer'
  BY <1>4, <1>5 DEF TableOK, AddressOfContainer, RowOf
<1>7. \A i \in Ids' : rows'[i].container_port \in 1..MaxPort
  BY <1>1, <1>4, <1>5 DEF TableOK, RowOf
<1> QED  BY <1>3, <1>6, <1>7 DEF TableOK

\* The container's name and its address change together or not at all.
LEMMA UpdateStores ==
  ASSUME TableOK, NEW id \in Ids, NEW patch \in RouteUpdate, UpdateRoute(id, patch),
         patch.container_port \in (1..MaxPort) \union {Unset},
         IF patch.container_name = Unset THEN patch.last_seen_ip = Unset
         ELSE patch.last_seen_ip \in Pool[patch.container_name]
  PROVE  TableOK'
<1>1. DbTypeOK' /\ UniquePrefix' /\ Ids' = Ids
  BY UpdateTyped, UpdateUnique DEF TableOK, UpdateRoute, Ids
<1>2. \A i \in Ids : rows'[i] = IF i = id THEN Patched(rows[id], patch) ELSE rows[i]
  BY DEF UpdateRoute, TableOK, DbTypeOK
<1>3. Patched(rows[id], patch).container_port \in 1..MaxPort
  BY DEF Patched, ValueOr, TableOK
<1>4. Patched(rows[id], patch).last_seen_ip
        \in Pool[Patched(rows[id], patch).container_name]
  <2>1. CASE patch.container_name = Unset
    BY <2>1 DEF Patched, ValueOr, TableOK, AddressOfContainer
  <2>2. CASE patch.container_name # Unset
    <3>1. patch.last_seen_ip # Unset
      BY <2>2, ApiAssumption, UnsetAssumption DEF RouteUpdate
    <3> QED  BY <2>2, <3>1 DEF Patched, ValueOr
  <2> QED  BY <2>1, <2>2
<1>5. AddressOfContainer'
  BY <1>1, <1>2, <1>4 DEF TableOK, AddressOfContainer
<1>6. \A i \in Ids' : rows'[i].container_port \in 1..MaxPort
  BY <1>1, <1>2, <1>3 DEF TableOK
<1> QED  BY <1>1, <1>5, <1>6 DEF TableOK

\* A DELETE only removes a row.
LEMMA DeleteStores ==
  ASSUME TableOK, NEW id \in Ids, DeleteRoute(id)
  PROVE  TableOK'
<1>1. DbTypeOK' /\ UniquePrefix'
  BY DeleteTyped, DeleteUnique DEF TableOK
<1>2. Ids' \subseteq Ids /\ \A i \in Ids' : rows'[i] = rows[i]
  BY DEF DeleteRoute, Ids
<1> QED  BY <1>1, <1>2 DEF TableOK, AddressOfContainer

\* A step that leaves the table alone keeps what holds of it.
LEMMA TableKept ==
  ASSUME TableOK, UNCHANGED dbVars PROVE TableOK' /\ DbStep
BY DEF TableOK, DbTypeOK, UniquePrefix, AddressOfContainer, Ids, dbVars, DbStep

\* What PATCH puts together of its body and the inspected address.
LEMMA FullPatchOK ==
  ASSUME ApiInv, NEW h \in Handlers, req[h].at = "write", req[h].job.op = "PATCH"
  PROVE  LET patch == FullPatch(h)
         IN  /\ patch \in RouteUpdate
             /\ patch.container_port \in (1..MaxPort) \union {Unset}
             /\ IF patch.container_name = Unset THEN patch.last_seen_ip = Unset
                ELSE patch.last_seen_ip \in Pool[patch.container_name]
<1>1. req[h] \in State /\ PatchOK(req[h])
  BY DEF ApiInv, RequestOK
<1>2. req[h].job.patch \in Patches /\ req[h].ip \in Addrs \union {Unset}
  BY <1>1 DEF PatchOK, State
<1>3. /\ req[h].job.patch \in RouteUpdate
      /\ req[h].job.patch.container_port \in (1..MaxPort) \union {Unset}
  BY <1>2, PatchesTyped
<1> QED  BY <1>1, <1>2, <1>3 DEF FullPatch, PatchOK, RouteUpdate

-----------------------------------------------------------------------------
(* The steps *)

\* A fresh volume and free threads.
LEMMA InitOK == Init => ApiInv
<1> SUFFICES ASSUME Init PROVE ApiInv
  OBVIOUS
<1>1. TableOK
  BY DEF Init, DbInit, TableOK, DbTypeOK, UniquePrefix, AddressOfContainer, Ids
<1>2. DockerOK
  BY DEF Init, DockerOK
<1>3. Free \in State /\ RequestOK(Free, rows, seq)
  BY DEF Free, RequestOK, State, Job, PostOK, PatchOK, AimOK, ReplyOK
<1> QED  BY <1>1, <1>2, <1>3 DEF Init, ApiInv

\* A step that moves one thread and leaves the table alone.
LEMMA MoveOK ==
  ASSUME ApiInv, NEW h \in Handlers, NEW r, RequestOK(r, rows, seq),
         req' = [req EXCEPT ![h] = r], UNCHANGED <<dbVars, docker>>
  PROVE  ApiInv'
<1>1. TableOK' /\ DbStep
  BY TableKept DEF ApiInv
<1>2. DockerOK' /\ rows' = rows /\ seq' = seq
  BY DEF ApiInv, DockerOK, dbVars
<1> QED  BY <1>1, <1>2, OthersOK DEF ApiInv

\* A reply that leaves the table alone and is no lie.
LEMMA SendOK ==
  ASSUME ApiInv, NEW h \in Handlers, NEW code \in Nat, Send(h, code),
         UNCHANGED <<dbVars, docker>>, code >= 400 => req[h].wrote = "no"
  PROVE  ApiInv'
<1> DEFINE error == code >= 400
           wrote == req[h].wrote
           r == [Free EXCEPT !.failed = error, !.wrote = wrote]
<1>1. error \in BOOLEAN
  OBVIOUS
<1>2. wrote \in {"no", "yes", "unread"} /\ (error => wrote # "yes")
  BY DEF ApiInv, RequestOK, ReplyOK, State
<1>3. req' = [req EXCEPT ![h] = r]
  BY DEF Send
<1> HIDE DEF error, wrote
<1>4. RequestOK(r, rows, seq)
  BY <1>1, <1>2, FreeOK
<1> HIDE DEF r
<1> QED  BY <1>3, <1>4, MoveOK

\* What is accepted is a route or an id; what is refused has changed nothing.
LEMMA ArrivesOK ==
  ASSUME ApiInv, NEW h \in Handlers, Arrives(h)
  PROVE  ApiInv'
<1> USE DEF RequestOK, State, Job, PostOK, PatchOK, AimOK, ReplyOK, Free
<1>0. UNCHANGED <<dbVars, docker>>
  BY DEF Arrives
<1>1. CASE \E new \in NewRoutes : Accept(h, Post(new), "inspect")
  <2>1. PICK new \in NewRoutes : Accept(h, Post(new), "inspect")
    BY <1>1
  <2> DEFINE r == [Free EXCEPT !.at = "inspect", !.job = Post(new)]
  <2>2. RequestOK(r, rows, seq)
    BY DEF Post
  <2> QED  BY <1>0, <2>1, <2>2, MoveOK DEF Accept
<1>2. CASE \E id \in 1..MaxRoutes : Accept(h, Patch(id), "lookup")
  <2>1. PICK id \in 1..MaxRoutes : Accept(h, Patch(id), "lookup")
    BY <1>2
  <2> DEFINE r == [Free EXCEPT !.at = "lookup", !.job = Patch(id)]
  <2>2. RequestOK(r, rows, seq)
    BY DEF Patch
  <2> QED  BY <1>0, <2>1, <2>2, MoveOK DEF Accept
<1>3. CASE \E id \in 1..MaxRoutes : Accept(h, Del(id), "write")
  <2>1. PICK id \in 1..MaxRoutes : Accept(h, Del(id), "write")
    BY <1>3
  <2> DEFINE r == [Free EXCEPT !.at = "write", !.job = Del(id)]
  <2>2. RequestOK(r, rows, seq)
    BY DEF Del
  <2> QED  BY <1>0, <2>1, <2>2, MoveOK DEF Accept
<1>4. ASSUME NEW code \in Nat, Refuse(h, code) PROVE ApiInv'
  <2> DEFINE error == code >= 400
             r == [Free EXCEPT !.failed = error]
  <2>1. error \in BOOLEAN
    OBVIOUS
  <2>2. req' = [req EXCEPT ![h] = r]
    BY <1>4 DEF Refuse
  <2> HIDE DEF error
  <2>3. RequestOK(r, rows, seq)
    BY <2>1
  <2> HIDE DEF r
  <2> QED  BY <1>0, <2>2, <2>3, MoveOK
<1>5. PostRefusals \subseteq Nat
  BY DEF PostRefusals, PostRefusal
<1> QED  BY <1>1, <1>2, <1>3, <1>4, <1>5 DEF Arrives

\* A PATCH that finds its route remembers which one it was.
LEMMA LookupOK ==
  ASSUME ApiInv, NEW h \in Handlers, Lookup(h)
  PROVE  ApiInv'
<1>0. /\ UNCHANGED <<dbVars, docker>>
      /\ req[h] \in State /\ ReplyOK(req[h]) /\ req[h].at = "lookup"
  BY DEF Lookup, ApiInv, RequestOK
<1>1. ASSUME NEW patch \in Patches, req[h].job.id \in Ids, Aim(h, patch)
      PROVE  ApiInv'
  <2> DEFINE r == [req[h] EXCEPT
               !.at = IF patch.container_name = Unset THEN "write" ELSE "inspect",
               !.job = [op |-> "PATCH", id |-> req[h].job.id, patch |-> patch],
               !.target = rows[req[h].job.id].path_prefix]
  <2>1. req[h].job.op = "PATCH" /\ req[h].job.id \in 1..MaxRoutes
    BY <1>0 DEF ReplyOK, State, Job, Post, Patch, Del
  <2>2. req[h].job.id \in 1..seq /\ rows[req[h].job.id].path_prefix \in Prefixes
    BY <1>1 DEF ApiInv, TableOK, DbTypeOK, Row
  <2>3. r \in State
    BY <1>0, <2>1, <2>2 DEF State, Job
  <2>4. RequestOK(r, rows, seq)
    BY <1>0, <2>2, <2>3
    DEF RequestOK, State, PostOK, PatchOK, AimOK, ReplyOK, Ids
  <2>5. req' = [req EXCEPT ![h] = r]
    BY <1>1 DEF Aim
  <2> HIDE DEF r
  <2> QED  BY <1>0, <2>4, <2>5, MoveOK
<1>2. ASSUME NEW code \in Nat, Send(h, code) PROVE ApiInv'
  BY <1>0, <1>2, SendOK DEF ReplyOK
<1>3. PatchRefusals \subseteq Nat
  BY DEF PatchRefusals, PatchRefusal
<1> QED  BY <1>1, <1>2, <1>3 DEF Lookup

\* The address inspected is one of the container's.
LEMMA InspectOK ==
  ASSUME ApiInv, NEW h \in Handlers, Inspect(h)
  PROVE  ApiInv'
<1> DEFINE c == Wanted(req[h].job)
<1>0. /\ UNCHANGED <<dbVars, docker>>
      /\ RequestOK(req[h], rows, seq) /\ req[h].at = "inspect"
  BY DEF Inspect, ApiInv
<1>1. ASSUME docker[c] # Gone,
             req' = [req EXCEPT ![h].at = "write", ![h].ip = docker[c]]
      PROVE  ApiInv'
  <2> DEFINE r == [req[h] EXCEPT !.at = "write", !.ip = docker[c]]
  <2>1. c \in Containers
    BY <1>0, RoutesTyped, PatchesTyped
    DEF RequestOK, PostOK, PatchOK, ReplyOK, Wanted, NewRoute, RouteUpdate
  <2>2. docker[c] \in Pool[c] /\ docker[c] \in Addrs
    BY <1>1, <2>1 DEF ApiInv, DockerOK
  <2>3. r \in State
    BY <1>0, <2>2 DEF RequestOK, State
  <2>4. RequestOK(r, rows, seq)
    BY <1>0, <2>2, <2>3
    DEF RequestOK, State, PostOK, PatchOK, AimOK, ReplyOK, Wanted
  <2>5. req' = [req EXCEPT ![h] = r]
    BY <1>1
  <2> HIDE DEF r
  <2> QED  BY <1>0, <2>4, <2>5, MoveOK
<1>2. ASSUME NEW code \in Nat, Send(h, code) PROVE ApiInv'
  BY <1>0, <1>2, SendOK DEF RequestOK, ReplyOK
<1> QED  BY <1>1, <1>2 DEF Inspect

\* The thread of a statement that has committed.
LEMMA WroteOK ==
  ASSUME ApiInv, NEW h \in Handlers, req[h].at = "write",
         Wrote(h, TRUE, 409) \/ Wrote(h, TRUE, 500) \/ Wrote(h, FALSE, 500),
         DbStep, TableOK', UNCHANGED docker
  PROVE  ApiInv'
<1> USE DEF RequestOK, State, PostOK, PatchOK, AimOK, ReplyOK
<1>0. DockerOK' /\ RequestOK(req[h], rows, seq)
  BY DEF ApiInv, DockerOK
<1>1. CASE req' = [req EXCEPT ![h].at = "trigger", ![h].found = TRUE, ![h].wrote = "yes"]
  <2> DEFINE r == [req[h] EXCEPT !.at = "trigger", !.found = TRUE, !.wrote = "yes"]
  <2>1. req[h] \in State /\ ~req[h].failed
    BY <1>0
  <2>2. r \in State /\ r.at = "trigger" /\ r.found /\ ~r.failed /\ r.wrote = "yes"
    BY <2>1
  <2>3. req' = [req EXCEPT ![h] = r]
    BY <1>1
  <2> HIDE DEF r
  <2>4. RequestOK(r, rows', seq')
    BY <2>2
  <2> QED  BY <1>0, <2>3, <2>4, OthersOK DEF ApiInv
<1>2. ASSUME NEW error \in {409, 500}, Unread(h, error)
      PROVE  ApiInv'
  <2> DEFINE r == [Free EXCEPT !.wrote = "unread", !.failed = TRUE]
  <2>1. (error >= 400) = TRUE
    OBVIOUS
  <2>2. req' = [req EXCEPT ![h] = r]
    BY <1>2, <2>1, Zenon DEF Unread
  <2>3. RequestOK(r, rows', seq')
    BY DEF Free, Job
  <2> HIDE DEF r
  <2> QED  BY <1>0, <2>2, <2>3, OthersOK DEF ApiInv
<1> QED  BY <1>1, <1>2 DEF Wrote

\* The INSERT of a POST, its refusals and its lost read-back.
LEMMA PostWriteOK ==
  ASSUME ApiInv, NEW h \in Handlers, PostWrite(h)
  PROVE  ApiInv'
<1>0. /\ UNCHANGED docker /\ req[h].at = "write"
      /\ RequestOK(req[h], rows, seq) /\ TableOK
  BY DEF PostWrite, ApiInv
<1>1. CASE CreateRoute(req[h].job.new, req[h].ip) /\ Wrote(h, TRUE, 409)
  <2>1. req[h].job.new \in NewRoutes /\ req[h].ip \in Pool[req[h].job.new.container_name]
    BY <1>0 DEF PostWrite, RequestOK, PostOK
  <2>2. req[h].ip \in Addrs
    BY <2>1, RoutesTyped, ApiAssumption DEF NewRoute
  <2>3. TableOK' /\ DbStep
    BY <1>0, <1>1, <2>1, <2>2, CreateStores DEF DbStep
  <2> QED  BY <1>0, <1>1, <2>3, WroteOK
<1>2. CASE Send(h, 409) /\ UNCHANGED dbVars
  BY <1>0, <1>2, SendOK DEF RequestOK, ReplyOK
<1> QED  BY <1>1, <1>2 DEF PostWrite

\* A request whose statement has found no row.
LEMMA MissedOK ==
  ASSUME ApiInv, NEW h \in Handlers, req[h].at = "write", Goto(h, "trigger"),
         req[h].job.op = "PATCH", req[h].job.id \notin Ids,
         UNCHANGED <<dbVars, docker>>
  PROVE  ApiInv'
<1> DEFINE r == [req[h] EXCEPT !.at = "trigger"]
<1>1. RequestOK(r, rows, seq)
  BY DEF ApiInv, RequestOK, State, PostOK, PatchOK, AimOK, ReplyOK, Ids
<1>2. req' = [req EXCEPT ![h] = r]
  BY DEF Goto
<1> HIDE DEF r
<1> QED  BY <1>1, <1>2, MoveOK

\* The UPDATE of a PATCH: the row it hits is the one it looked up.
LEMMA PatchWriteOK ==
  ASSUME ApiInv, NEW h \in Handlers, PatchWrite(h)
  PROVE  ApiInv'
<1>0. /\ UNCHANGED docker /\ req[h].at = "write" /\ req[h].job.op = "PATCH"
      /\ RequestOK(req[h], rows, seq) /\ TableOK
  BY DEF PatchWrite, ApiInv
<1>1. CASE UpdateRoute(req[h].job.id, FullPatch(h)) /\ Wrote(h, TRUE, 500)
  <2>1. TableOK'
    BY <1>0, <1>1, FullPatchOK, UpdateStores DEF UpdateRoute
  <2>2. DbStep
    BY <1>0, <1>1, FullPatchOK DEF DbStep, UpdateRoute
  <2> QED  BY <1>0, <1>1, <2>1, <2>2, WroteOK
<1>2. CASE req[h].job.id \notin Ids /\ Goto(h, "trigger") /\ UNCHANGED dbVars
  BY <1>0, <1>2, MissedOK
<1>3. CASE Send(h, 500) /\ UNCHANGED dbVars
  BY <1>0, <1>3, SendOK DEF RequestOK, ReplyOK
<1> QED  BY <1>1, <1>2, <1>3 DEF PatchWrite

\* The DELETE, which no other request is confused by.
LEMMA DeleteWriteOK ==
  ASSUME ApiInv, NEW h \in Handlers, DeleteWrite(h)
  PROVE  ApiInv'
<1>0. /\ UNCHANGED docker /\ req[h].at = "write"
      /\ RequestOK(req[h], rows, seq) /\ TableOK
  BY DEF DeleteWrite, ApiInv
<1>1. CASE DeleteRoute(req[h].job.id) /\ Wrote(h, FALSE, 500)
  <2>1. TableOK' /\ DbStep
    BY <1>0, <1>1, DeleteStores DEF DeleteRoute, DbStep
  <2> QED  BY <1>0, <1>1, <2>1, WroteOK
<1>2. ASSUME NEW code \in {404, 500}, Send(h, code), UNCHANGED dbVars PROVE ApiInv'
  BY <1>0, <1>2, SendOK DEF RequestOK, ReplyOK
<1> QED  BY <1>1, <1>2 DEF DeleteWrite

\* A process that ends leaves the table.
LEMMA DieOK ==
  ASSUME ApiInv, Die, UNCHANGED <<dbVars, docker>>
  PROVE  ApiInv'
<1>1. TableOK' /\ DockerOK'
  BY TableKept DEF ApiInv, DockerOK
<1>2. Free \in State /\ RequestOK(Free, rows', seq')
  BY DEF Free, RequestOK, State, Job, PostOK, PatchOK, AimOK, ReplyOK
<1> QED  BY <1>1, <1>2 DEF Die, ApiInv

\* The steps after the statement, which only change the thread.
LEMMA AnswerOK ==
  ASSUME ApiInv, NEW h \in Handlers, Trigger(h) \/ Render(h)
  PROVE  ApiInv'
<1>0. /\ UNCHANGED <<dbVars, docker>> /\ req[h].at \in {"trigger", "render"}
      /\ RequestOK(req[h], rows, seq)
  BY DEF Trigger, Render, ApiInv
<1>1. CASE Goto(h, "render")
  <2> DEFINE r == [req[h] EXCEPT !.at = "render"]
  <2>1. RequestOK(r, rows, seq)
    BY <1>0 DEF RequestOK, State, PostOK, PatchOK, AimOK, ReplyOK
  <2>2. req' = [req EXCEPT ![h] = r]
    BY <1>1 DEF Goto
  <2> HIDE DEF r
  <2> QED  BY <1>0, <2>1, <2>2, MoveOK
<1>2. CASE Send(h, 200)
  BY <1>0, <1>2, SendOK
<1>3. CASE ~req[h].found /\ Send(h, 500)
  BY <1>0, <1>3, SendOK DEF RequestOK, ReplyOK
<1>4. CASE Die
  BY <1>0, <1>4, DieOK
<1> QED  BY <1>1, <1>2, <1>3, <1>4 DEF Trigger, Render

\* Every step preserves the invariant.
LEMMA StepOK == ApiInv /\ [Next]_vars => ApiInv'
<1> SUFFICES ASSUME ApiInv, [Next]_vars PROVE ApiInv'
  OBVIOUS
<1>1. ASSUME NEW h \in Handlers, Serve(h) PROVE ApiInv'
  BY <1>1, ArrivesOK, LookupOK, InspectOK, PostWriteOK, PatchWriteOK,
     DeleteWriteOK, AnswerOK DEF Serve
<1>2. CASE Crash
  BY <1>2, DieOK DEF Crash
<1>3. CASE DockerChanges
  <2>1. TableOK' /\ rows' = rows /\ seq' = seq
    BY <1>3, TableKept DEF DockerChanges, ApiInv, dbVars
  <2>2. DockerOK'
    BY <1>3, ApiAssumption DEF DockerChanges, ApiInv, DockerOK
  <2> QED  BY <1>3, <2>1, <2>2 DEF DockerChanges, ApiInv
<1>4. CASE UNCHANGED vars
  <2>1. TableOK' /\ rows' = rows /\ seq' = seq
    BY <1>4, TableKept DEF vars, ApiInv, dbVars
  <2> QED  BY <1>4, <2>1 DEF vars, ApiInv, DockerOK
<1> QED  BY <1>1, <1>2, <1>3, <1>4 DEF Next

\* Whatever a step does to the table, it does by one statement of class
\* Database.
LEMMA StatementsOnly ==
  ASSUME [Next]_vars
  PROVE  \/ \E new, ip : CreateRoute(new, ip)
         \/ \E id, patch : UpdateRoute(id, patch)
         \/ \E id : DeleteRoute(id)
         \/ UNCHANGED dbVars
<1>1. ASSUME NEW h \in Handlers, PostWrite(h) \/ PatchWrite(h) \/ DeleteWrite(h)
      PROVE  \/ \E new, ip : CreateRoute(new, ip)
             \/ \E id, patch : UpdateRoute(id, patch)
             \/ \E id : DeleteRoute(id)
             \/ UNCHANGED dbVars
  BY <1>1 DEF PostWrite, PatchWrite, DeleteWrite
<1>2. ASSUME NEW h \in Handlers,
             Arrives(h) \/ Lookup(h) \/ Inspect(h) \/ Trigger(h) \/ Render(h)
      PROVE  UNCHANGED dbVars
  BY <1>2 DEF Arrives, Lookup, Inspect, Trigger, Render
<1>3. CASE Crash \/ DockerChanges \/ UNCHANGED vars
  BY <1>3 DEF Crash, DockerChanges, vars
<1> QED  BY <1>1, <1>2, <1>3 DEF Next, Serve

-----------------------------------------------------------------------------
(* The properties *)

\* Every state of the API satisfies the invariant.
LEMMA ApiCorrect == Spec => []ApiInv
BY InitOK, StepOK, PTL DEF Spec

\* When a PATCH dereferences the empty optional, a DELETE has come between its
\* lookup and its statement; nothing else leads there.
THEOREM DerefExplained == Spec => []DerefOnlyOfDeleted
<1>1. ApiInv => DerefOnlyOfDeleted
  BY DEF ApiInv, RequestOK, AimOK, DerefOnlyOfDeleted, Ids
<1> QED  BY <1>1, ApiCorrect, PTL

\* An id means one route for all time, through any number of requests.
THEOREM IdsForever == Spec => IdsAreForever
<1>1. ApiInv /\ [Next]_vars => [Kept]_dbVars
  <2> SUFFICES ASSUME DbTypeOK, [Next]_vars PROVE Kept \/ UNCHANGED dbVars
    BY DEF ApiInv, TableOK
  <2> USE DEF DbTypeOK, Ids, Kept
  <2>1. ASSUME NEW new, NEW ip, CreateRoute(new, ip) PROVE Kept
    BY <2>1 DEF CreateRoute
  <2>2. ASSUME NEW id, NEW patch, UpdateRoute(id, patch) PROVE Kept
    BY <2>2 DEF UpdateRoute, Patched
  <2>3. ASSUME NEW id, DeleteRoute(id) PROVE Kept
    BY <2>3 DEF DeleteRoute
  <2> HIDE DEF Kept
  <2> QED  BY <2>1, <2>2, <2>3, StatementsOnly
<1> QED  BY <1>1, ApiCorrect, PTL DEF Spec, IdsAreForever

\* The table stays well formed, whatever bodies arrive (create_route,
\* update_route and the validation before them).
THEOREM TableTyped == Spec => []DbTypeOK
<1>1. ApiInv => DbTypeOK
  BY DEF ApiInv, TableOK
<1> QED  BY <1>1, ApiCorrect, PTL

\* No two routes share a path prefix, however many POSTs race for it.
THEOREM PrefixesUnique == Spec => []UniquePrefix
<1>1. ApiInv => UniquePrefix
  BY DEF ApiInv, TableOK
<1> QED  BY <1>1, ApiCorrect, PTL

\* A PATCH updates the route it looked up or none.
THEOREM PatchesAim == Spec => []PatchHitsSameRoute
<1>1. ApiInv => PatchHitsSameRoute
  BY DEF ApiInv, RequestOK, AimOK, PatchHitsSameRoute, Ids
<1> QED  BY <1>1, ApiCorrect, PTL

\* A row's address is always one of the container it names.
THEOREM AddressesMatch == Spec => []AddressOfContainer
<1>1. ApiInv => AddressOfContainer
  BY DEF ApiInv, TableOK
<1> QED  BY <1>1, ApiCorrect, PTL

\* An error reply is honest, the failed read-back of a committed row aside.
THEOREM ErrorsHonest == Spec => []ErrorMeansNoWrite
<1>1. ApiInv => ErrorMeansNoWrite
  BY DEF ApiInv, RequestOK, ReplyOK, ErrorMeansNoWrite
<1> QED  BY <1>1, ApiCorrect, PTL

\* The checks of PATCH let pass what the API shows of a well-formed row, and
\* with an address of the container it changes nothing but that.
LEMMA RowEchoed ==
  ASSUME NEW row \in Row, row.container_port \in 1..MaxPort, NEW ip \in Addrs
  PROVE  /\ PatchAccepts(Settable(row))
         /\ Patched(row, [UpdateOf(Settable(row)) EXCEPT !.last_seen_ip = ip])
              = [row EXCEPT !.last_seen_ip = ip]
<1> DEFINE fields == [container_name |-> Json("string", row.container_name),
                      container_port |-> Json("integer", row.container_port),
                      strip_prefix   |-> Json("boolean", row.strip_prefix),
                      enabled        |-> Json("boolean", row.enabled)]
           body == Settable(row)
<1>1. body.kind = "object" /\ body.fields = fields
  BY DEF Settable, Object
<1>2. DOMAIN fields = {"container_name", "container_port", "strip_prefix", "enabled"}
  OBVIOUS
<1>3. GetInt(fields["container_port"]) = row.container_port
  BY PortKept DEF GetInt, Json
<1>4. PatchAccepts(body)
  BY <1>1, <1>2, <1>3, WidthAssumption
  DEF PatchAccepts, contains, Typed, Json, PortOf, Row, is_valid_container_name,
      is_valid_port
<1>5. UpdateOf(body) = [container_name |-> row.container_name,
                        container_port |-> row.container_port,
                        strip_prefix |-> row.strip_prefix,
                        enabled |-> row.enabled, last_seen_ip |-> Unset]
  BY <1>1, <1>2, <1>3 DEF UpdateOf, ValueOf, PortOf, contains, Json
<1>6. [UpdateOf(body) EXCEPT !.last_seen_ip = ip]
        = [container_name |-> row.container_name,
           container_port |-> row.container_port,
           strip_prefix |-> row.strip_prefix,
           enabled |-> row.enabled, last_seen_ip |-> ip]
  BY <1>5
<1>7. Patched(row, [UpdateOf(body) EXCEPT !.last_seen_ip = ip])
        = [row EXCEPT !.last_seen_ip = ip]
  BY <1>6, UnsetAssumption DEF Patched, ValueOr, Row
<1> QED  BY <1>4, <1>7

\* What a client was shown passes the checks when it is sent back, and changes
\* at most the address, to one that docker gives for the container.
THEOREM EchoesKeepRoute == Spec => []EchoKeepsRoute
<1>1. ApiInv => EchoKeepsRoute
  <2> SUFFICES ASSUME ApiInv, NEW i \in Ids
               PROVE  /\ PatchAccepts(Settable(rows[i]))
                      /\ \A ip \in Pool[rows[i].container_name] :
                           Patched(rows[i], [UpdateOf(Settable(rows[i]))
                                               EXCEPT !.last_seen_ip = ip])
                             = [rows[i] EXCEPT !.last_seen_ip = ip]
    BY DEF EchoKeepsRoute
  <2>1. rows[i] \in Row /\ rows[i].container_port \in 1..MaxPort
        /\ rows[i].last_seen_ip \in Addrs
    BY DEF ApiInv, TableOK, DbTypeOK, Row
  <2>2. Pool[rows[i].container_name] \subseteq Addrs
    BY <2>1, ApiAssumption DEF Row
  <2> QED  BY <2>1, <2>2, RowEchoed
<1> QED  BY <1>1, ApiCorrect, PTL

-----------------------------------------------------------------------------
(* The contract with the worker *)

\* A step of one thread, as the worker sees it.
LEMMA MappedStep ==
  ASSUME ApiInv, NEW h \in Handlers, NEW r, req' = [req EXCEPT ![h] = r]
  PROVE  [g \in Handlers |-> Owes(req'[g])]
           = [[g \in Handlers |-> Owes(req[g])] EXCEPT ![h] = Owes(r)]
<1>1. \A g \in Handlers : req'[g] = IF g = h THEN r ELSE req[g]
  BY DEF ApiInv
<1> DEFINE seen == [g \in Handlers |-> Owes(req[g])]
           sees == [g \in Handlers |-> Owes(req'[g])]
<1>2. \A g \in Handlers : sees[g] = IF g = h THEN Owes(r) ELSE seen[g]
  BY <1>1
<1>3. [seen EXCEPT ![h] = Owes(r)]
        = [g \in Handlers |-> IF g = h THEN Owes(r) ELSE seen[g]]
  BY Zenon
<1> QED  BY <1>2, <1>3

\* A step that writes nothing and leaves no trigger out.
LEMMA QuietStep ==
  ASSUME ApiInv, NEW h \in Handlers, NEW r, req' = [req EXCEPT ![h] = r],
         UNCHANGED dbVars, Owes(req[h]) # "trigger",
         Owes(r) \in {"idle", "trigger"}
  PROVE  [Writer!Next]_(Writer!vars)
<1>1. Writer!WriteNothing(h)
  BY MappedStep DEF Writer!WriteNothing, Writer!dbVars, dbVars
<1> QED  BY <1>1 DEF Writer!Next

\* A reply that is not the one after the trigger.
LEMMA SendSeen ==
  ASSUME ApiInv, NEW h \in Handlers, NEW code, Send(h, code), UNCHANGED dbVars,
         req[h].at \in {"lookup", "inspect", "write", "render"}
  PROVE  [Writer!Next]_(Writer!vars)
<1>1. PICK r : r = [Free EXCEPT !.failed = code >= 400, !.wrote = req[h].wrote]
  OBVIOUS
<1>2. req' = [req EXCEPT ![h] = r]
  BY <1>1 DEF Send
<1>3. r.at = "idle" /\ r.wrote = req[h].wrote /\ req[h].wrote # "unread"
  BY <1>1 DEF ApiInv, RequestOK, ReplyOK, Free
<1> QED  BY <1>2, <1>3, QuietStep DEF Owes

\* To the contract the steps before the statement are no steps.
LEMMA ReadsSeen ==
  ASSUME ApiInv, NEW h \in Handlers, Arrives(h) \/ Lookup(h) \/ Inspect(h)
  PROVE  [Writer!Next]_(Writer!vars)
<1>1. ASSUME NEW r, req' = [req EXCEPT ![h] = r], UNCHANGED dbVars,
             req[h].at # "trigger", r.wrote = "no"
      PROVE  [Writer!Next]_(Writer!vars)
  BY <1>1, QuietStep DEF Owes
<1>2. CASE Arrives(h)
  <2>1. ASSUME NEW job, NEW l, Accept(h, job, l) PROVE [Writer!Next]_(Writer!vars)
    <3>1. [Free EXCEPT !.at = l, !.job = job].wrote = "no"
      BY DEF Free
    <3> QED  BY <1>1, <1>2, <2>1, <3>1 DEF Accept, Arrives
  <2>2. ASSUME NEW code, Refuse(h, code) PROVE [Writer!Next]_(Writer!vars)
    <3>1. [Free EXCEPT !.failed = code >= 400].wrote = "no"
      BY DEF Free
    <3> QED  BY <1>1, <1>2, <2>2, <3>1 DEF Refuse, Arrives
  <2> QED  BY <1>2, <2>1, <2>2 DEF Arrives
<1>3. CASE Lookup(h)
  <2>1. req[h] \in State /\ req[h].wrote = "no"
    BY <1>3 DEF Lookup, ApiInv, RequestOK, ReplyOK
  <2>2. ASSUME NEW patch, Aim(h, patch) PROVE [Writer!Next]_(Writer!vars)
    <3>1. PICK r : r = [req[h] EXCEPT
            !.at = IF patch.container_name = Unset THEN "write" ELSE "inspect",
            !.job = [op |-> "PATCH", id |-> req[h].job.id, patch |-> patch],
            !.target = rows[req[h].job.id].path_prefix]
      OBVIOUS
    <3>2. req' = [req EXCEPT ![h] = r]
      BY <2>2, <3>1 DEF Aim
    <3>3. r.wrote = "no"
      BY <2>1, <3>1 DEF State
    <3> QED  BY <1>1, <1>3, <3>2, <3>3 DEF Lookup
  <2> QED  BY <1>3, <2>2, SendSeen DEF Lookup
<1>4. CASE Inspect(h)
  <2>1. req[h] \in State /\ req[h].wrote = "no"
    BY <1>4 DEF Inspect, ApiInv, RequestOK, ReplyOK
  <2>2. ASSUME NEW ip, req' = [req EXCEPT ![h].at = "write", ![h].ip = ip]
        PROVE  [Writer!Next]_(Writer!vars)
    <3>1. PICK r : r = [req[h] EXCEPT !.at = "write", !.ip = ip]
      OBVIOUS
    <3>2. req' = [req EXCEPT ![h] = r]
      BY <2>2, <3>1
    <3>3. r.wrote = "no"
      BY <2>1, <3>1 DEF State
    <3> QED  BY <1>1, <1>4, <3>2, <3>3 DEF Inspect
  <2> QED  BY <1>4, <2>2, SendSeen DEF Inspect
<1> QED  BY <1>2, <1>3, <1>4

\* A statement that commits is a Write, or, if its row cannot be read back, a
\* WriteUnread.
LEMMA WroteSeen ==
  ASSUME ApiInv, NEW h \in Handlers, req[h].at = "write",
         \/ Writer!StoreRow /\ (Wrote(h, TRUE, 409) \/ Wrote(h, TRUE, 500))
         \/ (\E id \in Writer!Ids : Writer!DeleteRoute(id)) /\ Wrote(h, FALSE, 500)
  PROVE  [Writer!Next]_(Writer!vars)
<1>1. req[h] \in State /\ Owes(req[h]) = "idle"
  BY DEF ApiInv, RequestOK, ReplyOK, Owes
<1>2. CASE req' = [req EXCEPT ![h].at = "trigger", ![h].found = TRUE, ![h].wrote = "yes"]
  <2>1. PICK r : r = [req[h] EXCEPT !.at = "trigger", !.found = TRUE, !.wrote = "yes"]
    OBVIOUS
  <2>2. req' = [req EXCEPT ![h] = r]
    BY <1>2, <2>1
  <2>3. Owes(r) = "trigger"
    BY <1>1, <2>1 DEF State, Owes
  <2>4. Writer!Write(h)
    BY <1>1, <2>2, <2>3, MappedStep DEF Writer!Write
  <2> QED  BY <2>4 DEF Writer!Next
<1>3. ASSUME NEW error, Writer!StoreRow, Unread(h, error)
      PROVE  [Writer!Next]_(Writer!vars)
  <2>1. PICK r : r = [Free EXCEPT !.wrote = "unread", !.failed = error >= 400]
    OBVIOUS
  <2>2. req' = [req EXCEPT ![h] = r]
    BY <1>3, <2>1 DEF Unread
  <2>3. Owes(r) = "lost"
    BY <2>1 DEF Free, Owes
  <2>4. Writer!WriteUnread(h)
    BY <1>1, <1>3, <2>2, <2>3, MappedStep DEF Writer!WriteUnread
  <2> QED  BY <2>4 DEF Writer!Next
<1> QED  BY <1>2, <1>3 DEF Wrote

\* A statement is a Write, a WriteUnread or a WriteNothing of the contract.
LEMMA WritesSeen ==
  ASSUME ApiInv, NEW h \in Handlers, PostWrite(h) \/ PatchWrite(h) \/ DeleteWrite(h)
  PROVE  [Writer!Next]_(Writer!vars)
<1> USE DEF Writer!CreateRoute, CreateRoute, Writer!PrefixTaken, PrefixTaken,
            Writer!RowOf, RowOf, Writer!Ids, Ids
<1>0. req[h].at = "write" /\ RequestOK(req[h], rows, seq)
  BY DEF PostWrite, PatchWrite, DeleteWrite, ApiInv
<1>1. CASE PostWrite(h)
  <2>1. CASE CreateRoute(req[h].job.new, req[h].ip) /\ Wrote(h, TRUE, 409)
    <3>1. /\ req[h].job.new \in NewRoutes
          /\ req[h].ip \in Pool[req[h].job.new.container_name]
      BY <1>0, <1>1 DEF PostWrite, RequestOK, PostOK
    <3>2. req[h].ip \in Addrs
      BY <3>1, RoutesTyped, ApiAssumption DEF NewRoute
    <3>3. Writer!StoreRow
      BY <2>1, <3>1, <3>2 DEF Writer!StoreRow
    <3> QED  BY <1>0, <2>1, <3>3, WroteSeen
  <2> QED  BY <1>0, <1>1, <2>1, SendSeen DEF PostWrite
<1>2. CASE PatchWrite(h)
  <2>1. CASE UpdateRoute(req[h].job.id, FullPatch(h)) /\ Wrote(h, TRUE, 500)
    <3>1. req[h].job.patch \in Patches /\ req[h].ip \in Addrs \union {Unset}
      BY <1>0, <1>2 DEF PatchWrite, RequestOK, PatchOK, State
    <3>2. Writer!UpdateRoute(req[h].job.id, FullPatch(h)) /\ req[h].job.id \in Ids
      BY <2>1 DEF UpdateRoute, Writer!UpdateRoute, Patched, Writer!Patched,
                  ValueOr, Writer!ValueOr
    <3>3. Writer!StoreRow
      BY <3>1, <3>2 DEF Writer!StoreRow, FullPatch
    <3> QED  BY <1>0, <2>1, <3>3, WroteSeen
  <2>2. CASE Goto(h, "trigger") /\ UNCHANGED dbVars
    <3>1. PICK r : r = [req[h] EXCEPT !.at = "trigger"]
      OBVIOUS
    <3>2. req' = [req EXCEPT ![h] = r]
      BY <2>2, <3>1 DEF Goto
    <3>3. Owes(r) = "trigger" /\ Owes(req[h]) # "trigger"
      BY <1>0, <3>1 DEF RequestOK, State, Owes
    <3> QED  BY <2>2, <3>2, <3>3, QuietStep
  <2> QED  BY <1>0, <1>2, <2>1, <2>2, SendSeen DEF PatchWrite
<1>3. CASE DeleteWrite(h)
  <2>1. CASE DeleteRoute(req[h].job.id) /\ Wrote(h, FALSE, 500)
    <3>1. \E id \in Writer!Ids : Writer!DeleteRoute(id)
      BY <2>1 DEF DeleteRoute, Writer!DeleteRoute
    <3> QED  BY <1>0, <2>1, <3>1, WroteSeen
  <2> QED  BY <1>0, <1>3, <2>1, SendSeen DEF DeleteWrite
<1> QED  BY <1>1, <1>2, <1>3

\* The end of the process.
LEMMA DieSeen ==
  ASSUME Die, UNCHANGED dbVars PROVE [Writer!Next]_(Writer!vars)
<1>1. \A g \in Handlers : Owes(req'[g]) = "idle"
  BY DEF Die, Free, Owes
<1>2. Writer!Crash
  BY <1>1 DEF Writer!Crash, Writer!dbVars, dbVars
<1> QED  BY <1>2 DEF Writer!Next

\* The trigger is the contract's; rendering the answer is none of its steps.
LEMMA AnswerSeen ==
  ASSUME ApiInv, NEW h \in Handlers, Trigger(h) \/ Render(h)
  PROVE  [Writer!Next]_(Writer!vars)
<1>0. UNCHANGED dbVars /\ RequestOK(req[h], rows, seq)
  BY DEF Trigger, Render, ApiInv
<1>1. CASE Render(h)
  BY <1>0, <1>1, SendSeen, DieSeen DEF Render
<1>2. CASE Trigger(h)
  <2>1. PICK r : /\ req' = [req EXCEPT ![h] = r]
                 /\ r.at # "trigger" /\ r.wrote = req[h].wrote
    <3>1. CASE Goto(h, "render")
      <4>1. PICK r : r = [req[h] EXCEPT !.at = "render"]
        OBVIOUS
      <4>2. req' = [req EXCEPT ![h] = r]
        BY <3>1, <4>1 DEF Goto
      <4>3. r.at # "trigger" /\ r.wrote = req[h].wrote
        BY <1>0, <4>1 DEF RequestOK, State
      <4> QED  BY <4>2, <4>3
    <3>2. CASE Send(h, 200)
      <4>1. PICK r : r = [Free EXCEPT !.failed = 200 >= 400, !.wrote = req[h].wrote]
        OBVIOUS
      <4>2. req' = [req EXCEPT ![h] = r]
        BY <3>2, <4>1 DEF Send
      <4>3. r.at # "trigger" /\ r.wrote = req[h].wrote
        BY <4>1 DEF Free
      <4> QED  BY <4>2, <4>3
    <3> QED  BY <1>2, <3>1, <3>2 DEF Trigger
  <2>2. Owes(req[h]) = "trigger" /\ Owes(r) = "idle"
    BY <1>0, <1>2, <2>1 DEF Trigger, RequestOK, ReplyOK, Owes
  <2>3. Writer!Trigger(h)
    BY <1>0, <2>1, <2>2, MappedStep DEF Writer!Trigger, Writer!dbVars, dbVars
  <2> QED  BY <2>3 DEF Writer!Next
<1> QED  BY <1>1, <1>2

\* Every step of the API is one of RouteWriter's, or one it does not see.
LEMMA WriterStep == ApiInv /\ [Next]_vars => [Writer!Next]_(Writer!vars)
<1> SUFFICES ASSUME ApiInv, [Next]_vars PROVE [Writer!Next]_(Writer!vars)
  OBVIOUS
<1>1. ASSUME NEW h \in Handlers, Serve(h) PROVE [Writer!Next]_(Writer!vars)
  BY <1>1, ReadsSeen, WritesSeen, AnswerSeen DEF Serve
<1>2. CASE Crash
  BY <1>2, DieSeen DEF Crash
<1>3. CASE UNCHANGED <<dbVars, req>>
  BY <1>3 DEF Writer!vars, Writer!dbVars, dbVars
<1> QED  BY <1>1, <1>2, <1>3 DEF Next, DockerChanges, vars

\* The handlers implement RouteWriter: every statement that commits is
\* followed by a trigger before the thread does anything else.
THEOREM ContractKept == Spec => KeepsContract
<1>1. Init => Writer!Init
  BY DEF Init, DbInit, Writer!Init, Writer!DbInit, Free, Owes
<1> QED  BY <1>1, WriterStep, ApiCorrect, PTL DEF Spec, KeepsContract, Writer!Spec

=============================================================================
