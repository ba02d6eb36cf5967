---------------------------- MODULE MCSyncWorker ----------------------------
(***************************************************************************)
(* FrontDoor for TLC: an ordinary prefix, requests at it and below it, one *)
(* that kp-locations.conf serves already, and the updates that take a      *)
(* route in and out of the rendering.                                      *)
(***************************************************************************)
EXTENDS FrontDoor, TLC

MCSegments == {"", "a", "b", "healthz", "index.html", "_proxy"}

OnePrefix == {<<"a">>}
Refused   == {<<"a">>, <<"healthz">>}

MCRequests == {<<"">>, <<"a">>, <<"a", "b">>, <<"a", "b", "">>}

MCFiles == {<<"index.html">>}

MCStaticExact == {<<"healthz">>, Admin}

Route(p, c) == [path_prefix |-> p, container_name |-> c,
                container_port |-> 80, strip_prefix |-> TRUE]

MCNewRoutes == {Route(p, c) : p \in Prefixes, c \in Containers}

SetsEnabled(b) == [container_name |-> Unset, container_port |-> Unset,
                   strip_prefix |-> Unset, enabled |-> b,
                   last_seen_ip |-> Unset]

MCPatches == {SetsEnabled(b) : b \in BOOLEAN}

\* The threads of the pool are alike, and no property tells them apart.
Symmetry == Permutations(Handlers)

=============================================================================
