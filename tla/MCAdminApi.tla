----------------------------- MODULE MCAdminApi -----------------------------
(***************************************************************************)
(* AdminApi for TLC: two prefixes, two containers, bodies with every kind  *)
(* of mistake, and the kinds of PATCH the code tells apart.  The width of  *)
(* an int is scaled down with the largest port.                            *)
(***************************************************************************)
EXTENDS AdminApi, TLC

CONSTANTS c1, c2, ip1, ip2,
          junk  \* a string that is no name and no prefix

MCPool == [c \in Containers |-> IF c = c1 THEN {ip1} ELSE {ip2}]

Strings(set) == {Json("string", s) : s \in set}
Null == Json("null", Unset)

\* 2 is the largest port; 18 and -14 are 2 after their conversion, 9 is -7.
Integers_ == {Json("integer", n) : n \in {-14, 0, 2, 3, 9, 18}}
PortValues == Integers_ \union {Json("float", 2), Json("string", junk), Null}

\* The fields of an object, some of them possibly missing.
Without(fields, names) == [f \in DOMAIN fields \ names |-> fields[f]]

MCPostBodies ==
  {Garbage, NoObject} \union
  {Object(Without([path_prefix |-> p, container_name |-> c,
                   container_port |-> n, strip_prefix |-> b], missing)) :
     p \in Strings(Prefixes \union Reserved \union {junk}) \union {Null},
     c \in Strings({c1, junk}), n \in PortValues,
     b \in {Json("boolean", TRUE), Json("integer", 1)},
     missing \in {{}, {"strip_prefix"}, {"container_port"}, {"container_name"}}}

MCPatchBodies ==
  {Garbage, NoObject, Object([f \in {} |-> {}]),
   Object([path_prefix |-> Json("string", junk), enabled |-> Json("boolean", TRUE)]),
   Object([container_name |-> Json("string", junk)]),
   Object([container_name |-> Json("string", c2)]),
   Object([enabled |-> Json("boolean", FALSE)]),
   Object([strip_prefix |-> Null])} \union
  {Object([container_port |-> n]) : n \in PortValues}

\* Handlers and prefixes are interchangeable.
Symmetry == Permutations(Handlers) \union Permutations(Prefixes)

=============================================================================
