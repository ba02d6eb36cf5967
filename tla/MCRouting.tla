----------------------------- MODULE MCRouting -----------------------------
(***************************************************************************)
(* Routing for TLC: nested prefixes, prefixes that POST has to refuse, one *)
(* that kp-locations.conf serves itself, one that is a file of the         *)
(* dashboard, and requests at, below and beside each of them.              *)
(***************************************************************************)
EXTENDS Routing

MCSegments == {"", "a", "ab", "b", "healthz", "index.html", "x", "_proxy"}

MCPrefixes == {<<"a">>, <<"a", "b">>, <<"ab">>, <<"a", "">>, <<"healthz">>,
               <<"index.html">>, <<"_proxy">>, <<"_proxy", "a">>}

\* Nested prefixes lead to different containers.
MCNewRoutes ==
  {[path_prefix |-> p, container_name |-> IF Len(p) = 1 THEN "c1" ELSE "c2",
    container_port |-> 80, strip_prefix |-> b] : p \in Prefixes, b \in BOOLEAN}

Sets(field, value) ==
  [[container_name |-> Unset, container_port |-> Unset, strip_prefix |-> Unset,
    enabled |-> Unset, last_seen_ip |-> Unset] EXCEPT ![field] = value]

MCPatches == {Sets("enabled", FALSE), Sets("container_name", "c2")}

MCRequests ==
  {<<"">>, <<"healthz">>, <<"index.html">>, <<"index.html", "">>, <<"x">>,
   <<"_proxy">>, <<"_proxy", "">>, <<"_proxy", "a">>, <<"_proxy", "a", "x">>,
   <<"a">>, <<"a", "">>, <<"a", "x">>, <<"a", "b">>, <<"a", "b", "">>,
   <<"a", "b", "x", "">>, <<"ab">>, <<"ab", "b">>}

MCFiles == {<<"index.html">>}

=============================================================================
