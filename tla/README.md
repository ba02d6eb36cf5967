# A specification of kingdom-proxy

kingdom-proxy is a small C++ daemon that keeps a table of routes (path prefix ->
docker container) in SQLite, exposes it through an HTTP admin API, and keeps an
nginx in another container configured by it: a background thread renders the
enabled routes into `kingdom-routes.conf` on a shared volume, and asks nginx,
through the docker socket, to test the file and to reload.

This directory holds TLA+ models of it, the TLC configurations that check them
on small instances, and machine-checked proofs of the main results for every
value of the constants.

    tlc -config MCSyncWorker_safety.cfg MCSyncWorker.tla     # one run
    tlapm SyncWorkerProofs.tla                               # the proofs

Contents: [parts](#1-the-parts-of-the-system), [what is hard](#2-what-is-hard-about-it),
[modules](#3-the-modules), [model and code](#4-how-the-models-correspond-to-the-code),
[runs](#5-what-the-runs-check), [fairness](#6-fairness), [proofs](#7-what-is-proved),
[findings](#8-where-the-code-and-its-documents-disagree), [limits](#9-what-is-not-modelled).

## 1. The parts of the system

Paths are relative to the repository. "C++" is everything under `src/`.

| part | state | operations | talks to |
|---|---|---|---|
| **Route table**: `src/db/database.*`, `src/model/route.hpp` | table `routes` (ids by AUTOINCREMENT, `path_prefix` UNIQUE), one connection, one mutex | `create_route`, `list_routes`, `list_enabled_routes`, `get_route`, `update_route`, `delete_route`; each is atomic under the mutex | called by the HTTP threads and the sync thread |
| **Sync worker**: `src/worker/sync_worker.*` | `running_` (atomic), `wake_requested_` (under `cv_mutex_`), `status_` (under `status_mutex_`), a thread | `start`, `stop`, `trigger`, `status`; `run` and `sync_once` on its thread | reads the table, calls NginxController; woken by handlers and by its interval |
| **NginxController**: `src/nginx/nginx_controller.*` | none | `apply`: write, then reload; turns every failure into an `ApplyResult` | ConfigGenerator, DockerClient |
| **ConfigGenerator**: `src/nginx/config_generator.*` | the file and its `.tmp` | `render` (pure), `write` | the volume nginx reads |
| **DockerClient**: `src/docker/docker_client.*` | none (one connection per request, 30 s timeouts) | `list_containers`, `inspect_container`, `connect_network`, `exec`, `reload_nginx` | the docker daemon |
| **Admin API**: `src/api/server.*` | the HTTP server and its thread pool | `GET /healthz`, `/status`, `/config`, `/containers`, `/routes`; `POST`, `PATCH`, `DELETE /routes`; `POST /containers/{name}/attach-network` | table, docker, `SyncWorker::trigger` and `status` |
| **Life cycle**: `src/main.cpp` | global server pointer | start-up, SIGINT/SIGTERM, shutdown order | all of the above |
| **nginx** (external): `nginx/*`, `Dockerfile.nginx` | the configuration in use, its master process | start, SIGHUP, `nginx -t` | reads the file; restarted by docker |
| **Dashboard**: `web/src` | React state (status, routes, containers) | polls every 5 s, creates, edits and deletes routes | the admin API |
| **Logger, environment**: `src/util` | logger level and mutex | `log`, `env_*` | everyone |
| **todo-app**: `examples/todo-app` | a JSON array in memory | CRUD | none: a demo upstream |
| **Deployment**: compose files, Dockerfiles, scripts | none | restart policies, volumes, health checks | assumptions of the models |

How they interact. A write request takes the table's mutex once per call
(`get_route`, later `update_route`), asks docker in between, and then calls
`trigger()`, which sets `wake_requested_` and notifies the condition variable.
The worker wakes up by a notification, by its interval, or for no reason; clears
the flag; reads all enabled routes in one statement; writes and renames the file;
runs `nginx -t` and `nginx -s reload` by `docker exec`; and records the outcome
in `status_`, which `/status` shows and the dashboard polls. nginx handles the
signal later, in its own time.

What makes each part correct:

* **Table**: ids never come to mean another route; prefixes are unique; an update
  changes the named fields only.
* **Sync worker**: no wake-up is lost; every commit is synchronised or its failure
  is on display; an ok in the status is true until the next file is put in place; failed
  syncs are made up for; `stop()` returns.
* **Publication as a whole**: whatever crashes, nginx always serves some committed
  table, whole, and never goes back to an older one; once things calm down, it
  serves the last one.
* **Admin API**: a handler that changed the table triggers the worker before it
  answers; an error reply means that nothing changed; the address stored with a
  route is one of the container the route names; a route that disappears half way
  through a request is answered by a 404.
* **Routing** (what `render` writes, as nginx reads it): the longest enabled prefix gets
  a request, with the path its `strip_prefix` asks for; the admin API is never shadowed;
  nobody is redirected in a circle; every table the API accepts can be loaded.
* **Dashboard**: it ends up showing what is there; a create attaches its container
  first; no button stays disabled.
* **Validation**: what POST stores, by whichever conversion, passes the checks of PATCH;
  nothing out of range gets into the table.
* **Life cycle**: a signal while the server serves ends the process; no thread uses an
  object of `main` that is gone, and neither does the handler of the first signal.

## 2. What is hard about it

The list of hazards, each at its line and with the properties that cover it, is in
`PROJECT.json`. In short:

1. *Wake-ups.* Two flags, one of them an atomic outside the mutex, a condition
   variable with a deadline, spurious wake-ups, a thread that may be anywhere when
   it is triggered or stopped (`sync_worker.cpp:29-63`).
2. *Stale reads.* The routes are read under the mutex and then written, tested and
   reloaded for up to minutes without it, while the table moves on.
3. *A pipeline through two processes.* The file, the test, the signal and nginx's
   own reading of the file are four moments; the process may die between any two of
   them, docker may time out after the signal was sent, the volume may be full, and a
   file that fails its test stays in place.
4. *Handlers interleave* with each other around their calls to docker.
5. *Failures after a commit*: the row is written, reading it back fails, and the
   handler takes its error path.
6. *Life cycle*: a signal handler that logs (a mutex) and stops the server through a
   global pointer, on any thread, before, while and after the server runs; threads that
   hold references to locals of `main`.
7. *Conversions*: a JSON integer of 64 bits becomes an `int`, a float or a Boolean
   becomes a port in POST and not in PATCH, `stoll` throws.

## 3. The modules

| module | models | proved in |
|---|---|---|
| `Database` | the table, one action per writing method | `DatabaseProofs` |
| `Nginx` | the volume, the file, the nginx process, reloads nobody waits for | `SyncWorkerProofs` |
| `Publication` | abstract: nginx adopts committed tables in order | `SyncWorkerProofs` |
| `SyncWorker` (`EXTENDS Database, Nginx`) | composition: worker, `NginxController::apply`, main thread, writing handlers, crashes | `SyncWorkerProofs` |
| `RouteWriter` (`EXTENDS Database`) | abstract: what a writing handler owes the worker | `AdminApiProofs` |
| `Validation` (`EXTENDS Database`) | the bodies POST and PATCH accept, their conversions and refusals | `AdminApiProofs` |
| `AdminApi` (`EXTENDS Validation`) | the three writing handlers step by step, with docker | `AdminApiProofs` |
| `Locations` | pure: `render`, the static locations, nginx's choice of a location, and what the answers ought to be | `LocationsProofs` |
| `Routing` (`EXTENDS Database, Locations`) | the routes as they come and go, and a browser that follows redirects meanwhile | `RoutingProofs` |
| `FrontDoor` (`EXTENDS SyncWorker, Locations`) | composition: the whole way from a row of the table to the answer a client gets | `FrontDoorProofs` |
| `Dashboard` | the React page against the API: refreshes in flight, actions, `/config`, `/containers`, attach-network | `DashboardProofs` |
| `Lifecycle` | `main`, its objects, its threads, the logger's mutex and the signal handler on any thread | `LifecycleProofs` |
| `MCSyncWorker`, `MCAdminApi`, `MCRouting` | instances for TLC | |

The order is by importance: the publication pipeline is what the program is for,
then the handlers that feed it, then the pure part (rendering), then the dashboard, then
start and stop in detail. What could still be added is in section 9.

How they compose. `SyncWorker` and `AdminApi` both extend `Database`, and so share
its actions. `SyncWorker` sees a handler as what it does to the table and the
worker (commit, set the flag, notify); `AdminApi` shows how a handler gets there.
`RouteWriter` is the seam: `AdminApi` is shown to implement it by refinement
(`KeepsContract`), and its steps are the requests of `SyncWorker` (`Create`,
`Update`, `Delete`, `CommitNothing`, then the trigger). The one way of a handler
that does not keep the contract, a row that cannot be read back, is in both models
as the fault `"readback"`.

`SyncWorker` carries the enabled routes of each commit (`log`) without looking inside;
`Locations` says what nginx does with them. `FrontDoor` puts the two together: what a
client is answered in any state of the synchronisation (`AnswersAsListed`). `Nginx!Valid`
only asks whether a route has the path of a static exact location; that this is the rule of
`Locations`, that no two locations may be the same, is the lemma `ValidIsLoadable` of
`FrontDoorProofs`, about the two models of one program and not about the code. `Routing` leaves
the synchronisation out, to take more routes and paths at a time than `FrontDoor` can.
`Lifecycle` looks inside what `SyncWorker` treats as `Boot`, `Terminate`, `StopRunning`
to `Join` and `Halt`: which objects exist at each of them, who logs, and where a signal
may land; in return a sync and a request are one step each there.
`Dashboard` sees the table as its number of commits and the worker as the two things
`/config` shows of it; that the worker catches up is `Convergence` of `SyncWorker`.

`SyncWorker` implements `Publication` (`InCommitOrder`): `published` is mapped to
the version of the table in nginx's configuration in use, `served` to its routes.

## 4. How the models correspond to the code

The map in `PROJECT.json` names the lines behind each definition. What is
abstracted:

* **The table** is a function from ids to rows and the AUTOINCREMENT counter.
  Timestamps are left out. `update_route`'s SELECT, UPDATE, SELECT are one step, for
  the mutex is held throughout.
* **Files** are `[ver, cut]`: the commit they were rendered from, and whether all
  of it reached the disk ("none" cut, cut in the "middle" of a block, or "empty").
  `log` is a history variable: `log[n]` is what `list_enabled_routes` returns after commit
  `n-1`, a function from ids to rows; `log[1]` is the empty table. What `render` makes of
  such a list is `Conf` of `Locations`, one record per location, not its text.
* **`nginx -t`** accepts a file that is not cut in the middle and does not repeat an
  exact location of `kp-locations.conf` (`/healthz`, `/_proxy`): `StaticExact`.
* **`cv_.wait_for(lock, interval, predicate)`** is `Wait` (evaluate the predicate
  with the mutex held; go on and clear the flag, or sleep, in one step), `Tick`
  (the deadline), `SpuriousWakeup`, and the waker's `Notify`, which sends a sleeper
  back to `Wait` and does nothing to anyone else. Between `SetWake` and `Notify` the
  mutex is free, so these are two steps; so are `StopRunning`, `StopWake` and
  `StopNotify`.
* **`sync_once`** is `ReadRoutes, OpenFile, FillFile, RenameFile, TestConfig,
  Reload, Record`, each with its failures. Exceptions and error returns lead to
  `Record` with `result = FALSE`, as the `catch` blocks and early returns do.
* **`docker exec`** of a test or a reload may fail before it did anything, or be
  reported as failed although docker carries it out (timeout, missing exit code, death
  of the caller): then, or at any later time (`GiveUp`, `LateSignal`), when another
  file, tested or not, may be in place.
* **Shutdown**: `Terminate` (SIGTERM while serving), `ListenReturns` when the pool
  has drained, then `stop()` and `Join`. A failed bind goes straight to `stop()`,
  through `~SyncWorker`.
* **Crash** ends the process at any step; memory is lost, the table, the files and
  nginx stay. nginx may stop by itself, losing a pending signal, and is restarted
  with whatever file is in place - if it is valid.
* **Requests** (`SyncWorker`): `Arrive` takes a request from the socket while the server
  serves; the busy handler commits, or commits nothing (`CommitNothing`: a refusal, or a
  PATCH of a route that has gone), even if the socket has been closed since, and
  `ListenReturns` waits for it.
* **Handlers** (`AdminApi`) are one step per call that takes a lock or leaves the
  process: arrival, look-up, inspection, write, trigger, rendering of the answer. `*updated` of an empty optional is undefined behaviour, modelled as
  a choice: an answer with garbage, an exception (500), or the end of the process. A request id that does not fit 64 bits (`stoll`) is
  refused with a 500 before anything else.
* **Bodies** (`Validation`) are not JSON, JSON but no object, or objects whose fields are
  pairs of a JSON type and a value. `json.value(f, default)` of POST converts any number
  or Boolean and throws on another type (a 500, as nothing catches it in the handler);
  PATCH asks for the type first (a 422). `get<int>()` of a 64-bit integer is taken
  modulo the width of an int; a float is its integral part and is assumed to fit (its
  conversion is undefined otherwise).
* **The process** (`Lifecycle`): each thread has a position; `Moves` is a step that
  changes nothing else. Every log call is `Lock` and `Unlock` of one mutex. A signal puts
  the handler on top of any thread that exists; that thread goes on when the handler
  has logged and called `stop()`. There is one kind of signal (SIGTERM), so a handler is
  not interrupted on its own thread, but handlers run on several threads at once. Before
  `std::signal` a signal ends the process or, for the first process of a container, does
  nothing. `stop()` closes a socket that listens and does nothing before; g_api_server is
  never reset, so a handler may use a destroyed server (the ghost `dangled`). That
  allocation and formatting in a signal handler are undefined behaviour in themselves
  is not modelled.
* **Paths** (`Locations`) are sequences of what stands between their slashes; a trailing
  slash is an empty last element. A location is `[owner, match, path, act]`, so that two
  routes that would write the same location are two elements of the configuration and
  `Loadable` can see the clash. `Segments` is what may stand between two slashes, and
  `Nothing` the empty one. Requests are normalised (no `.`, `..` or double
  slashes), as nginx matches them; the dashboard's directories other than the root are
  left out. Nobody owns a regular expression location, so `^~` has nothing to stop.
* **A refresh** (`Dashboard`) is a chain of steps: the server reads the status, then the
  routes; the answer arrives and is shown; the server lists containers; that answer
  arrives. The page polls whatever is under way, and every action ends with a refresh
  of its own, so answers may overtake each other. A request may fail before or after it
  took effect. `user[k]` is the `busy` or `submitting` flag of a component with what it
  is busy with; a create decides by the list shown when it is submitted.
* **Containers** (`Dashboard`) are in any state when the page is opened, on kingdom-net or
  not. A change takes one to any other state: it starts, stops, goes, or is created again,
  with the network (its own compose file names it) or without, and anyone may connect or
  disconnect it. The ghost `era` counts how often each was taken off the network; a list
  that is read carries the eras of that moment, so that the properties can tell a list
  that was wrong from one that has become so.

## 5. What the runs check

| run | question | instance |
|---|---|---|
| `sync_safety` | Do the worker's promises hold, down to the answers of the front door, in every interleaving of two handlers, start, stop, crashes and up to two failures of any kind but a read-back or an empty file? | `/a` and `/healthz`, 4 requests, 2 interchangeable handlers, 2 commits, 2 faults |
| `sync_liveness` | Does nginx end up with the table whatever fails (read-backs and empty files included)? Is every write picked up by its trigger alone, as long as nothing fails? Does `stop()` return? | 1 handler, 2 commits, 1 fault of any kind |
| `sync_short_write` | Is a partial file never put in place? **No** (finding 2) | 1 commit, 1 short write |
| `sync_read_back` | Does every write trigger a sync? **No** (finding 3) | 1 commit, 1 read-back failure |
| `api` | Do the three handlers keep the table consistent through their interleavings, docker changing and failing under them, for bodies of every kind; do they keep `RouteWriter`; is an error reply honest; is an id one route's for good? | 2 handlers, 2 prefixes, 2 containers, 3 ids, an int of 4 bits and ports up to 2 |
| `api_patch_deleted` | Is an empty optional never dereferenced? **No** (finding 1) | the same, 1 id |
| `routing` | Does nginx, with what `render` writes, route as the table says - and only what it should? | 8 prefixes (nested, similar, reserved, static, a file of the dashboard, ending in a slash), 2 routes at a time, 17 requests |
| `routing_loadable` | Is every accepted table a valid configuration? **No** (finding 4) | 1 route |
| `dashboard` | Does the page end up right, whatever overtakes or fails; are creates in order; do actions end? | 1 write, 1 container in any state at first that changes once, 1 failure; a poll and an action's refresh in flight |
| `dashboard_unlisted` | Is the container of a created route on the network, unless it was taken off again? **No** (finding 5) | the same, no failure |
| `lifecycle` | Does a signal end the process, on whatever thread it lands; does anything use an object that is gone? | a pool of 2, 2 signals, the database and the socket may fail to open |
| `lifecycle_early` | Does every signal that is handled stop the server? **No** (finding 6) | a pool of 1, 1 signal, no failure |

The properties:

* `NoLostWakeup`: the worker never sleeps on a true predicate unless a
  `notify_all` is still to come. Needs all of: the flag set before the notification,
  under the mutex, and `stop` setting it too.
* `DirtyIsSignalled`: if the table differs from what the worker read last, then
  the flag is set, or a trigger is on its way, or the worker is about to read, or the
  failure of its last read is on display. It is what "every write is synchronised"
  means at each moment, and it depends on the flag being cleared *before* the read.
* `StatusIsHonest`: from the end of a good sync until the next one renames its file into
  place, `last_sync_ok` is true of the file that is there: it is the whole rendering of what
  that sync read, nginx accepts it, and nginx uses it or has the signal to load it. While
  the next file is tested, reloaded and recorded, `/status` still shows the outcome of the
  sync before; then the file in place may be one that nginx refuses, and the property says
  nothing.
* `QuiescentInSync`: when the worker sleeps after a good sync, nobody is about to
  wake it and nginx has handled its signals, nginx routes exactly by the table.
* `AnswersAsListed` is the same seen by a client: every request is answered as the rows of
  the table ask for. It joins the worker's promise to the meaning of a configuration.
* `NobodyJoinsASleeper`: when `stop()` joins the worker, the worker does not sleep and
  cannot go back to sleep.
* `InCommitOrder`: refinement of `Publication`.
* `Convergence`, `CleanWritesArePickedUp`, `StopTerminates`: see section 6.
* `UniquePrefix`, `PatchHitsSameRoute`, `AddressOfContainer`, `KeepsContract`: the admin
  API. `ErrorMeansNoWrite` has one exception, in the property: a row that was written
  and could not be read back (finding 3). `EchoKeepsRoute` relates the two ways a body is
  read: what the API shows of any route it has stored passes the checks of PATCH. As the
  `container_name` is in it, docker is asked: the request may still be answered with a 422 or
  502, and if not, all it changes is `last_seen_ip`, to an address of that container.
  `DerefOnlyOfDeleted` says when finding 1 strikes, and only then: the route was there at the
  look-up and has been deleted since. `IdsAreForever` is what makes it safe for a page or
  a request to hold on to an id: it never comes to mean another route or prefix.
* `RequestsReachTheirRoute` compares nginx's way (an exact and a prefix location per
  route, longest match, rewrite) with a definition on the table alone (longest enabled
  prefix at or above the path). `AdminNeverShadowed` needs the reservation of everything
  under `/_proxy`, for a longer prefix would win. `AtMostOneRedirect` holds over any
  reload between the two requests of a browser.
* `AttachedBeforeCreate`, `ShowsWhatIs`, `BusyEnds`: the dashboard. A create for a container
  the list showed is sent for one that is on the network. The list may be older than the
  host: a container that was taken off the network since it was read, or since the form had
  it attached, is excepted, and the route is then created unattached (`README.md:326-330`
  says that such a container needs Attach again). An older answer may overwrite a newer one;
  `ShowsWhatIs` says that polling makes up for it.
* `UsesLiveObjects` needs `listen` to join the pool, and `stop()` the worker, on each of
  the ways out of `main`. `FirstSignalIsSafe` says that it takes a second signal, during
  the shutdown, or a failed `listen`, for the handler to use a destroyed server.
  `StopIsHeeded` is the liveness of the whole shutdown: through the accept loop, the pool's
  last requests, the worker's last sync, and every log call. Its one exception is in the
  property: a signal that lands on a thread inside the logger waits for that very thread.
* `NeverPartial`, `WritesArePickedUp`, `NoEmptyDeref`, `AlwaysLoadable`,
  `CreatedIsReachable`, `SignalsStop`: what comments and tests of the repository say, and
  the code does not do.

The bounds, and why they are enough. Two commits are needed for a write that falls
into the sync of another, and for order to mean anything; with a sync per commit and
one more by the timer this covers three generations of the file (the placeholder, the
first, the second). Two faults allow a failure and a second one during its repair: a
crash after a failed rename, nginx stopped while an untested file is in place. Two
handlers cover two triggers racing, and a trigger racing with `stop`. One ordinary
prefix and `/healthz` give tables nginx accepts, one it refuses, and the way out by
deleting or disabling the route; the four requests are the root, the prefix, and paths
below it (the relations of paths to each other are the subject of `routing`). The handlers
of `sync_safety` are interchangeable, as no property names one; `sync_liveness` uses no
symmetry. `Cuts` leaves out `"empty"` in `sync_safety`, for an
empty file passes every test and breaks `StatusIsHonest` and `InCommitOrder`
(finding 2); `sync_liveness` has it. In the API runs three ids allow a delete, a
create that could reuse its id, and one more; the handlers and the prefixes are
interchangeable, hence the symmetry. The port range and the width of an int are scaled down together: what matters is that
several 64-bit integers, negative ones among them, come to the same port and others to
none. `sync_liveness` has one handler and one fault:
what a second fault would leave behind is a state from which the same argument runs
again, and a liveness check of that size takes minutes instead of seconds.

In `routing` two routes are enough for every relation a pair of routes can have
(nested, equal, unrelated, one refused); nginx compares locations two at a time.
`dashboard` needs one write and two refreshes for an answer to be overtaken, and one
change of a container for a list to be stale, or for an attachment to be undone between the
two requests of a create: the container may be anything when the page is opened. `lifecycle` needs two signals for one to
arrive during the shutdown the other has started, and two threads of the pool for one
to work while the other is interrupted.

Deadlock is checked in every run: none of the modelled systems may stop for good.

Every property of a passing run has a mutant of the code (listed in
`PROJECT.json`, defined beside what it changes: a file written in place, a `nginx -t` that
is not looked at, a flag cleared after the sync, ids reused, a forgotten
notification) under which TLC finds it violated.

## 6. Fairness

`Fairness` asks for weak fairness of: the worker's own steps; the trigger of a handler
that has committed; the main thread, including the restart of the process (`restart:
unless-stopped` in the compose files); and nginx handling a signal or being restarted
(the same policy). All of them are threads or processes that can run and are
scheduled. Nothing makes anyone send a request or a SIGTERM, and no failure has to
happen.

`FairSpec` leaves the tick without fairness, so a result under it does not count on the
interval: `CleanWritesArePickedUp` says that triggers alone suffice while nothing fails.
`Convergence` has the strong fairness of `Tick` (`Deadline`) as its premise. It has to be
strong: spurious wake-ups and notifications take the worker out of its sleep and back, so
the tick is not continuously enabled. It is justified because `wait_for` with a predicate
fixes an absolute deadline when it is called: wake-ups that find the predicate false do
not put it off. Nothing makes docker carry out a reload whose caller is gone.

In `Dashboard`, `Fairness` is: the page's interval fires (`setInterval`, cleared only
when the page goes away), every request is answered or fails (both ends have timeouts),
and the worker catches up.

In `Lifecycle`, `main`, the worker and a request that is being worked on are weakly fair.
The logger's mutex is taken and released by everyone over and over, so a thread that
waits for it, in its own code or in the handler, gets it by strong fairness: mutexes
are not specified to be fair, but no scheduler starves one waiter forever. No request has
to arrive and no signal has to be sent.

## 7. What is proved

For all values of the constants, under the assumptions named in the modules
(`UnsetAssumption`: the unset value is no value of a column; `CutsAssumption`;
`BoundsAssumption`, `ApiAssumption`, `LifecycleAssumption`: the bounds are naturals and the
faults known kinds; `InputsAssumption`: requests carry routes and updates of the right
type; `WidthAssumption`: an int holds every port, with room for a sign; `PathAssumption`,
`RoutingAssumption`: prefixes and requests are paths; `FrontDoorAssumption`: prefixes have
been through the checks of POST, and the static locations are those of the file). Every invariant a passing run checks is proved:

| module | theorem | says | extra assumption |
|---|---|---|---|
| `SyncWorkerProofs` | `TypeCorrect` | `Spec => []TypeOK` | |
| | `WakeupsArrive` | `Spec => []NoLostWakeup` | |
| | `StopNeverJoinsASleeper` | `Spec => []NobodyJoinsASleeper` | |
| | `WritesAreSignalled` | `Spec => []DirtyIsSignalled` | no read-back failure |
| | `VersionsInOrder` | `Spec => []OrderInv` | |
| | `PipelineCorrect` | `Spec => []PipelineInv` | |
| | `OnlyEmptyDeceives` | `Spec => [](StatusIsHonest \/ Emptied)` | |
| | `OnlyShortWritesTear` | `Spec => []NeverPartial` | no short write |
| | `StatusHonest` | `Spec => []StatusIsHonest` | no empty short write |
| | `QuiescentCorrect` | `Spec => []QuiescentInSync` | both |
| | `PublicationCorrect` | `Spec => InCommitOrder` | no empty short write |
| `FrontDoorProofs` | `AnswersCorrect` | `Spec => []AnswersAsListed` | no empty short write, no read-back failure |
| | `OneCommitAnswers` | `Spec => []AnswersByOneCommit` | |
| `AdminApiProofs` | `TableTyped`, `PrefixesUnique` | `Spec => []DbTypeOK`, `[]UniquePrefix` | |
| | `PatchesAim` | `Spec => []PatchHitsSameRoute` | |
| | `AddressesMatch` | `Spec => []AddressOfContainer` | |
| | `DerefExplained`, `IdsForever` | `Spec => []DerefOnlyOfDeleted`, `IdsAreForever` | |
| | `ErrorsHonest` | `Spec => []ErrorMeansNoWrite` | |
| | `EchoesKeepRoute` | `Spec => []EchoKeepsRoute` | |
| | `ContractKept` | `Spec => KeepsContract` | |
| `RoutingProofs` | `RoutesReached` | `Spec => []RequestsReachTheirRoute` | |
| | `AdminServed` | `Spec => []AdminNeverShadowed` | |
| | `RefusalsExplained` | `Spec => []RefusedExactly` | |
| | `RedirectsEnd` | `Spec => []AtMostOneRedirect` | |
| | `OnlyHealthzRefused` | `Spec => []AlwaysLoadable` | nobody asks for `/healthz` |
| `DashboardProofs` | `CreatesAttached` | `Spec => []AttachedBeforeCreate` | |
| `LifecycleProofs` | `ObjectsOutliveUsers` | `Spec => []UsesLiveObjects` | |
| | `SignalSafe` | `Spec => []FirstSignalIsSafe` | |

The extra assumptions are real: TLC finds the counterexamples without them, and they are
findings 2, 3 and 4. Read the other way round, `OnlyShortWritesTear`, `OnlyEmptyDeceives`,
`OnlyHealthzRefused` and `DerefExplained` say that each of these findings has the one cause
named, so that mending it is enough. With no bound on the commits, the failures, the handlers,
the routes, the paths or the signals, these theorems say what the runs cannot.

The argument. `TypeOK` is inductive; the lemmas of `DatabaseProofs` show that each
statement preserves the table's type and the uniqueness of prefixes. `NoLostWakeup`
and `DirtyIsSignalled` are inductive given the types. `StatusIsHonest` and
`InCommitOrder` are not: nothing in them says where the file in place comes from.
Two invariants do.

* `OrderInv`: `live.ver <= file.ver <= Latest`; while a file is being made,
  the commit it is made from is no older than the one in place (there is only one
  writer, and it reads before it writes); and the temporary file to be renamed is
  of that commit. It holds through every crash: a restarted worker reads again.
* `PipelineInv`: what each step of a sync has established when the next is reached:
  at `"test"` the file in place is the one just written; at `"reload"` it is valid; and
  after a good result nginx uses it or has the signal, until the next file takes its place.
  And nginx never runs on a configuration it would refuse. None of it needs an assumption
  on what fails.

The step from there to `StatusIsHonest` is that a valid file is whole or empty, which is
`OnlyEmptyDeceives` (about the same states as `StatusIsHonest`: not those in which the next
file is being tested, reloaded and recorded); that nothing is empty (`NotEmptied`), or not cut at all (`NotCut`), if
no write fails that way, are two more invariants, of the temporary file and the one in place
(`CutStep`).

`PublicationStep` then maps each step: a commit to `Commit`, nginx's `HandleHup` and
`NginxStart` to `Adopt` (by `OrderInv` the version does not decrease) or to a
stutter when the file is refused, and everything else to a stutter.

*The end of the thread.* `StopInv`: `running_` stays cleared from `stop()` on, so a worker
that has been sent back to its predicate by the last notification finds it true.

*The front door.* `TableInv`: the last entry of the log is the enabled part of the table,
every entry has distinct prefixes (`UniquePrefix` at the time of the commit), and the first
is empty. With the types every entry is then `Good` and `Distinct` in the sense of
`LocationsProofs`, whichever commit a file or nginx is at, and `AnswerIntended` applies to
what nginx has loaded. `OneCommitAnswers` is the unconditional half: at every moment, after
any failures, all requests are answered by the enabled routes of one commit (the first,
empty one, for an emptied file). With `OrderInv` and `DirtyIsSignalled` that commit is the
last one when all is quiet, which is `AnswersCorrect`. `Collisions` (two locations of a
configuration are the same only if a route repeats a static exact one) gives
`RefusalsExplained` in `RoutingProofs`, and `ValidIsLoadable` here.

*The admin API.* `ApiInv` says of each request what it carries: the fields POST has
validated, the id a PATCH has looked up with the ghost of the prefix it meant, the address
just inspected with the container it belongs to, and whether it has written. The table's
half is typed rows, unique prefixes, ports in range and addresses of the right container;
each statement preserves it by the lemmas of `DatabaseProofs`. `PatchesAim` rests on the
counter: the id is at most `seq`, so a row made later has another one; that an id which is
gone stays gone gives `DerefExplained`, and `StatementsOnly` (nothing but the three statements
changes the table) gives `IdsForever`. `EchoesKeepRoute`
needs that a port in range survives its conversion, which is where the width of an int
comes in, and that docker's addresses are none the update would take for unset. `ContractKept` maps each step of a handler to one of `RouteWriter` or to a
stutter; the two modules define the table's statements once.

*Routing.* `Good(table)` is what POST requires of prefixes (no empty segment, not under
`/_proxy`), `Distinct` that they differ. For such a table, `AnswerIntended` shows that nginx's
two-level choice over the two locations of each route is the longest enabled prefix: the
only exact location of a path is the one of its owner, a prefix location matches exactly
the paths below its stem, and two locations of the same length that match one path are
the same. That a longest one exists is `LargestExists`, by well-foundedness of strict
inclusion rather than by induction over data. `AdminAnswer` is the same for the static
locations, which no `Good` prefix can beat. `RoutingInv` adds that a browser that was
redirected stands at a path that ends in a slash, and `SlashStays` that such a path is
never redirected, by any table: hence `RedirectsEnd` across reloads.

*The dashboard.* `DashInv`: what is shown of a container was right when it was read (`Right`):
one shown on the network still is, unless its era is over. That holds of the list on the
page, of answers on their way, and of what the form goes by, which is past its attachment
only if its target is on the network in that sense. `StaysRight` carries it over every
change of the host: a container that leaves the network starts another era (`Later`), and
an attachment only adds to the network.

*The life cycle.* `LifeInv` states, by the position of `main`, which objects and which
threads exist, and, for the signals, that a socket is closed only by a handler that has
run. With one signal that handler is over when `main` gets past `serve`, so no handler is
left to meet the destroyed server.

Only model-checked: the liveness properties (`Convergence`, `CleanWritesArePickedUp`,
`StopTerminates`, `ShowsWhatIs`, `BusyEnds`, `StopIsHeeded`), as fairness and `ENABLED` are
beyond this prover. The violations are TLC's by nature. That the steps `SyncWorker` gives
its handlers are all of `RouteWriter`'s is by reading: the two are a page apart.

## 8. Where the code and its documents disagree

1. *PATCH of a route deleted meanwhile* (`src/api/server.cpp:350`). `update_route`
   returns `std::nullopt` "if no route with that id exists" (`src/db/database.hpp:35-36`);
   the handler, which looked the route up earlier and may since have asked docker for
   seconds, dereferences it unseen. Run `api_patch_deleted`: look-up, DELETE by
   another thread, `update_route`, trigger, `*updated`.
2. *Short writes* (`src/nginx/config_generator.cpp:123`). `write()` renames "so nginx
   never observes a partially-written config" (`config_generator.hpp:22-24`), but
   never looks at the stream after writing. On a full volume a cut file is renamed
   into place. Cut in the middle, it fails `nginx -t` and is reported, but a restart of
   nginx fails until the next good sync; empty, it passes, the status says ok, and
   nginx serves no route at all until the next sync. Run `sync_short_write`.
3. *Reading a row back* (`src/db/database.cpp:148,220`). `create_route` and
   `update_route` commit, then SELECT the row; if that throws, the handler answers
   409 or 500 and skips `trigger()`. "Every write triggers an immediate background
   sync" (`README.md:402`) fails for it; the interval makes up for it
   (`sync_liveness` has this failure). Run `sync_read_back`.

4. *`/healthz`* (`src/api/server.cpp:218`). Validated prefixes are "fine to interpolate
   directly into the generated config" (`config_generator.cpp:40-42`), but a route for
   `/healthz` repeats a location of `kp-locations.conf:9`: `nginx -t` fails, and no
   change of any route takes effect until that one is disabled or deleted. Run
   `routing_loadable`. (In `SyncWorker` the same prefix is the reason why
   `Convergence` is conditional.)
5. *Attach before create* (`web/src/App.tsx:48`). "If the target container isn't on
   kingdom-net yet, attach it first" holds for containers the page has listed; for one
   that it has not (stopped, started since, or the list never loaded) the route is
   created unattached. Run `dashboard_unlisted`.
6. *Early signals* (`src/main.cpp:57`). The handlers are installed before `listen()` runs.
   A SIGTERM in between is logged as "shutting down" (`src/main.cpp:21`), calls `stop()` on
   a server that does not run yet, and is forgotten: `listen()` then serves until the
   process is killed, although it "blocks until stop() is called"
   (`src/api/server.hpp:29`). Run `lifecycle_early`.

More met on the way, without a run of their own: a route for `/index.html` takes the
internal redirect from `/` to the index file, so that the dashboard is no longer at the root
(`Intended` in `Locations` says so); "nginx in sync" (`StatusBar.tsx:8`) is shown above routes
that were written since the sync it is about; `container_port` is validated after
`get<int>()` has truncated it, so that 4294967376 is stored as 80 (`Validation`, `ToInt`);
PATCH asks docker and refreshes `last_seen_ip` whenever `container_name` is in the body
(`server.cpp:330`), and not "only when the target container is actually changing"
(`server.cpp:325-328`, `README.md:398-400`): the dashboard's Save always sends it
(`RouteRow.tsx:37`), so changing only the port fails while the container is gone (`Aim` and
`Inspect` in `AdminApi`); `/status` keeps saying ok of the sync before while the next file,
which nginx may refuse, is already in place and tested (`StatusIsHonest` leaves that out);
a signal that lands on a thread inside `Logger::log` hangs that thread, and the shutdown with
it (`SelfDeadlock` in `Lifecycle`); and a second signal during the shutdown may use a server
that is gone (`FirstSignalIsSafe` says when).

## 9. What is not modelled

* `GET /routes`, `/status` and `/healthz`: they read what the models have.
  `find_by_path_prefix` is a read only the tests make. Timestamps, `last_error` and
  `sync_count` are shown and never decide anything.
* `demux_stream` and the HTTP client under `DockerClient`: they produce the text of an
  error, or an outcome the models already choose from. Which refusals docker answers
  with a 403 (`connect_network` takes it for "already attached") is docker's.
* Wording, layout and input fields of the dashboard.
* The logger beyond its mutex, and the environment helpers: reads of `getenv` at start.
* What a signal handler must not do by the C++ standard (allocate, format, lock): only
  the lock is modelled.
* SIGINT and SIGTERM at once on one thread, where one handler interrupts the other.
* The todo application of `examples`: a demo upstream that is no part of the proxy.
* TLS, compose files, images and scripts: no logic. Their restart policies and the
  shared volume are assumptions above.
* Other writers of the volume or of the SQLite file, and disk corruption: the
  deployment has one process for each.
