------------------------------ MODULE AdminApi ------------------------------
(***************************************************************************)
(* The handlers of the admin API that write the table                      *)
(* (src/src/api/server.cpp): POST, PATCH and DELETE of /routes, each on a  *)
(* thread of the HTTP server's pool.  A handler takes the database's mutex *)
(* once per call and holds nothing in between, so a request is a sequence  *)
(* of steps that others interleave with; docker, which it asks about the   *)
(* target container, changes by itself.                                    *)
(***************************************************************************)
EXTENDS Validation

CONSTANTS Handlers,     \* threads of the HTTP server's pool
          PostBodies,   \* the bodies of POST requests
          PatchBodies,  \* the bodies of PATCH requests
          MaxRoutes,    \* bound on the ids handed out
          Pool,         \* the addresses docker may give to each container
          Gone,         \* docker knows no such container
          Faults        \* kinds of failure that may happen

FaultKinds == {"sqlite", "readback", "docker", "crash"}

ASSUME ApiAssumption == /\ MaxRoutes \in Nat
                        /\ Faults \subseteq FaultKinds
                        /\ Pool \in [Containers -> SUBSET Addrs]
                        /\ Gone \notin Addrs
                        /\ \A b \in PostBodies \union PatchBodies : WellFormed(b)

VARIABLES req,    \* what each thread does: see Free
          docker  \* the address of each container, or Gone

vars == <<dbVars, req, docker>>

\* at: the next step; job: the request; ip: container->primary_ip once
\* inspected; found: updated.has_value(); failed: the last reply has an error
\* status.  target and wrote are ghosts: the path prefix of the route a PATCH
\* looked up, and whether the request has changed the table and read it back.
Free == [at |-> "idle", job |-> [op |-> "none"], ip |-> Unset,
         found |-> FALSE, failed |-> FALSE, target |-> Unset, wrote |-> "no"]

\* What the bodies come to.
NewRoutes     == {RouteOf(b) : b \in {b \in PostBodies : PostAccepts(b)}}
PostRefusals  == {PostRefusal(b) : b \in {b \in PostBodies : ~PostAccepts(b)}}
Patches       == {UpdateOf(b) : b \in {b \in PatchBodies : PatchAccepts(b)}}
PatchRefusals == {PatchRefusal(b) : b \in {b \in PatchBodies : ~PatchAccepts(b)}}

Post(new) == [op |-> "POST", new |-> new]
Patch(id) == [op |-> "PATCH", id |-> id]
Del(id)   == [op |-> "DELETE", id |-> id]

\* The container a request names, which docker is asked about.
Wanted(job) == IF job.op = "POST" THEN job.new.container_name
               ELSE job.patch.container_name

-----------------------------------------------------------------------------
Init == /\ DbInit
        /\ req = [h \in Handlers |-> Free]
        /\ docker = [c \in Containers |-> Gone]

Goto(h, l) == req' = [req EXCEPT ![h].at = l]

\* The answer is sent and the thread is free; what it had on its stack is gone.
Send(h, code) == req' = [req EXCEPT ![h] = [Free EXCEPT !.failed = code >= 400,
                                                        !.wrote = req[h].wrote]]

Accept(h, job, l) == req' = [req EXCEPT ![h] = [Free EXCEPT !.at = l, !.job = job]]

Refuse(h, code) == req' = [req EXCEPT ![h] = [Free EXCEPT !.failed = code >= 400]]

\* POST parses and validates first; PATCH and DELETE read their id, and stoll
\* throws on one that does not fit 64 bits.
Arrives(h) ==
  /\ req[h].at = "idle"
  /\ \/ \E new \in NewRoutes : seq < MaxRoutes /\ Accept(h, Post(new), "inspect")
     \/ \E code \in PostRefusals : Refuse(h, code)
     \/ \E id \in 1..MaxRoutes : Accept(h, Patch(id), "lookup")
     \/ \E id \in 1..MaxRoutes : Accept(h, Del(id), "write")
     \/ Refuse(h, 500)
  /\ UNCHANGED <<dbVars, docker>>

\* Docker is asked whenever the body has a container_name, be it the one the
\* row has already.
Aim(h, patch) ==
  req' = [req EXCEPT
    ![h].at = IF patch.container_name = Unset THEN "write" ELSE "inspect",
    ![h].job = [op |-> "PATCH", id |-> req[h].job.id, patch |-> patch],
    ![h].target = rows[req[h].job.id].path_prefix]

\* PATCH: get_route, then the body.
Lookup(h) ==
  /\ req[h].at = "lookup"
  /\ \/ req[h].job.id \in Ids /\ \E patch \in Patches : Aim(h, patch)
     \/ req[h].job.id \in Ids /\ \E code \in PatchRefusals : Send(h, code)
     \/ req[h].job.id \notin Ids /\ Send(h, 404)
     \/ "sqlite" \in Faults /\ Send(h, 500)
  /\ UNCHANGED <<dbVars, docker>>

\* inspect_container: the container's address, nullopt, or an exception.
Inspect(h) ==
  /\ req[h].at = "inspect"
  /\ LET c == Wanted(req[h].job) IN
     \/ /\ docker[c] # Gone
        /\ req' = [req EXCEPT ![h].at = "write", ![h].ip = docker[c]]
     \/ docker[c] = Gone /\ Send(h, 422)
     \/ "docker" \in Faults /\ Send(h, 502)
  /\ UNCHANGED <<dbVars, docker>>

\* The row cannot be read back: an exception goes straight to an error reply.
Unread(h, error) ==
  /\ "readback" \in Faults
  /\ req' = [req EXCEPT ![h] = [Free EXCEPT !.wrote = "unread",
                                            !.failed = error >= 400]]

\* Mutant of Wrote: the handler answers without triggering the worker.
Wrote_Untriggered(h, readsBack, error) ==
  req' = [req EXCEPT ![h] = [Free EXCEPT !.wrote = "yes"]]

\* Mutant of Wrote: a POST that finds the container's address gone stale after
\* the INSERT is answered as a failure.
Wrote_ChecksLate(h, readsBack, error) ==
  IF readsBack /\ req[h].job.op = "POST" /\ docker[Wanted(req[h].job)] = Gone
  THEN req' = [req EXCEPT ![h] = [Free EXCEPT !.wrote = "yes", !.failed = TRUE]]
  ELSE req' = [req EXCEPT ![h].at = "trigger", ![h].found = TRUE, ![h].wrote = "yes"]

\* A statement has committed: on to the trigger.
Wrote(h, readsBack, error) ==
  \/ req' = [req EXCEPT ![h].at = "trigger", ![h].found = TRUE, ![h].wrote = "yes"]
  \/ readsBack /\ Unread(h, error)

\* POST: create_route; every exception becomes a 409.
PostWrite(h) ==
  /\ req[h].at = "write" /\ req[h].job.op = "POST"
  /\ \/ CreateRoute(req[h].job.new, req[h].ip) /\ Wrote(h, TRUE, 409)
     \/ /\ PrefixTaken(req[h].job.new.path_prefix) \/ "sqlite" \in Faults
        /\ Send(h, 409) /\ UNCHANGED dbVars
  /\ UNCHANGED docker

\* Mutant of FullPatch: last_seen_ip is left as it was.
FullPatch_KeepsAddress(h) == req[h].job.patch

\* The fields of the request and the address just inspected.
FullPatch(h) == [req[h].job.patch EXCEPT !.last_seen_ip = req[h].ip]

\* PATCH: update_route; nullopt if the row is gone, which the handler does not
\* look at.
PatchWrite(h) ==
  /\ req[h].at = "write" /\ req[h].job.op = "PATCH"
  /\ \/ UpdateRoute(req[h].job.id, FullPatch(h)) /\ Wrote(h, TRUE, 500)
     \/ req[h].job.id \notin Ids /\ Goto(h, "trigger") /\ UNCHANGED dbVars
     \/ "sqlite" \in Faults /\ Send(h, 500) /\ UNCHANGED dbVars
  /\ UNCHANGED docker

DeleteWrite(h) ==
  /\ req[h].at = "write" /\ req[h].job.op = "DELETE"
  /\ \/ DeleteRoute(req[h].job.id) /\ Wrote(h, FALSE, 500)
     \/ req[h].job.id \notin Ids /\ Send(h, 404) /\ UNCHANGED dbVars
     \/ "sqlite" \in Faults /\ Send(h, 500) /\ UNCHANGED dbVars
  /\ UNCHANGED docker

\* sync_worker_.trigger(), and the answer of POST and DELETE.
Trigger(h) ==
  /\ req[h].at = "trigger"
  /\ IF req[h].job.op = "PATCH" THEN Goto(h, "render") ELSE Send(h, 200)
  /\ UNCHANGED <<dbVars, docker>>

\* The end of the process: requests are cut off, the table stays.
Die == req' = [h \in Handlers |-> Free]

\* PATCH: route_to_json(*updated).  On an empty optional the behaviour is
\* undefined: a route made of whatever is on the stack is sent, rendering it
\* throws, or the process dies.
Render(h) ==
  /\ req[h].at = "render"
  /\ \/ Send(h, 200)
     \/ ~req[h].found /\ (Send(h, 500) \/ Die)
  /\ UNCHANGED <<dbVars, docker>>

Crash == "crash" \in Faults /\ Die /\ UNCHANGED <<dbVars, docker>>

\* A container is removed, created or restarted with another address.
DockerChanges == /\ \E c \in Containers : \E a \in Pool[c] \union {Gone} :
                       docker' = [docker EXCEPT ![c] = a]
                 /\ UNCHANGED <<dbVars, req>>

Serve(h) == \/ Arrives(h) \/ Lookup(h) \/ Inspect(h) \/ PostWrite(h)
            \/ PatchWrite(h) \/ DeleteWrite(h) \/ Trigger(h) \/ Render(h)

Next == (\E h \in Handlers : Serve(h)) \/ Crash \/ DockerChanges

Spec == Init /\ [][Next]_vars

-----------------------------------------------------------------------------
(* Properties *)

\* The id a PATCH has looked up never comes to mean another route while the
\* request is under way, whatever is deleted and created meanwhile (the
\* AUTOINCREMENT of the schema; update_route takes the id alone).
PatchHitsSameRoute ==
  \A h \in Handlers :
    req[h].at = "write" /\ req[h].job.op = "PATCH" /\ req[h].job.id \in Ids =>
      rows[req[h].job.id].path_prefix = req[h].target

\* last_seen_ip is an address of the container the same row names, through
\* all interleavings of creates and updates.
AddressOfContainer ==
  \A i \in Ids : rows[i].last_seen_ip \in Pool[rows[i].container_name]

\* Whatever the API has stored, by whichever conversion, passes the checks of
\* a PATCH that sends it back (value() of POST against the type tests of
\* PATCH), and such a PATCH leaves the route as it is but for the address:
\* container_name is among what it sends, so docker is asked, may make the
\* request fail with 422 or 502, and otherwise gives one of the container's
\* addresses, which replaces last_seen_ip.
EchoKeepsRoute ==
  \A i \in Ids :
    LET body == Settable(rows[i]) IN
    /\ PatchAccepts(body)
    /\ \A ip \in Pool[rows[i].container_name] :
         Patched(rows[i], [UpdateOf(body) EXCEPT !.last_seen_ip = ip])
           = [rows[i] EXCEPT !.last_seen_ip = ip]

\* An error reply means that the request has not changed the table, unless
\* the row it wrote could not be read back.
ErrorMeansNoWrite ==
  \A h \in Handlers : req[h].failed => req[h].wrote # "yes"

\* update_route's nullopt, "if no route with that id exists", is not
\* dereferenced.
NoEmptyDeref == \A h \in Handlers : req[h].at = "render" => req[h].found

\* The undefined behaviour has one cause: the route was there when the request
\* looked it up, and has been deleted since.
DerefOnlyOfDeleted ==
  \A h \in Handlers :
    req[h].at = "render" /\ ~req[h].found => req[h].job.id \in (1..seq) \ Ids

\* What a step adds to the table has an id beyond all those that were ever
\* handed out, and the rows it keeps keep their prefixes.
Kept == /\ seq <= seq'
        /\ \A i \in Ids' : \/ i > seq
                          \/ /\ i \in Ids
                             /\ rows'[i].path_prefix = rows[i].path_prefix

\* An id is not used twice, so a page, a log line or a request may hold on to
\* it (AUTOINCREMENT, and a PATCH that cannot set the prefix).
IdsAreForever == [][Kept]_dbVars

\* What a request looks like to the worker.
Owes(r) == IF r.at = "trigger" THEN "trigger"
           ELSE IF r.wrote = "unread" THEN "lost" ELSE "idle"

\* The handlers keep the contract SyncWorker relies on.
Writer == INSTANCE RouteWriter WITH hpc <- [h \in Handlers |-> Owes(req[h])]
KeepsContract == Writer!Spec

=============================================================================
