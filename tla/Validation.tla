----------------------------- MODULE Validation -----------------------------
(***************************************************************************)
(* The bodies POST and PATCH of /routes accept and what becomes of their   *)
(* fields (src/src/api/server.cpp).  The two handlers read a field in      *)
(* different ways: POST converts it by nlohmann's value(), which takes     *)
(* any number or Boolean for an int, PATCH looks at its type first.        *)
(***************************************************************************)
EXTENDS Database

CONSTANTS Reserved,  \* valid path prefixes that are /_proxy or under it
          MaxPort,   \* 65535
          IntRange   \* the number of values an int has, 2^32

ASSUME WidthAssumption == /\ IntRange \in Nat \ {0} /\ MaxPort \in Nat
                          /\ 2 * MaxPort < IntRange /\ 1..MaxPort \subseteq Ports
                          /\ Reserved \intersect Prefixes = {}
                          /\ Unset \notin Prefixes \union Reserved

\* A body is not JSON ("garbage"), JSON but no object ("other"), or an object
\* with some fields.  Each field is a pair of a JSON type and a value; that of
\* a "float" is its integral part, which has to fit an int (its conversion is
\* undefined otherwise).  Unset stands for the empty default of a string.
Object(fields) == [kind |-> "object", fields |-> fields]
Garbage        == [kind |-> "garbage", fields |-> [f \in {} |-> {}]]
NoObject       == [kind |-> "other", fields |-> [f \in {} |-> {}]]
Json(type, v)  == <<type, v>>

\* A number has an integral value, a Boolean a Boolean one.
WellFormed(body) ==
  \A f \in DOMAIN body.fields :
    /\ body.fields[f][1] \in {"integer", "float"} => body.fields[f][2] \in Int
    /\ body.fields[f][1] = "boolean" => body.fields[f][2] \in BOOLEAN

contains(body, f) == f \in DOMAIN body.fields

\* What is there for f has one of the types, if anything is.
Typed(body, f, types) == contains(body, f) => body.fields[f][1] \in types

\* json.value(f, default), once the type fits.
ValueOf(body, f, default) ==
  IF contains(body, f) THEN body.fields[f][2] ELSE default

-----------------------------------------------------------------------------
is_valid_path_prefix(p)    == p \in Prefixes \union Reserved
is_reserved_path_prefix(p) == p \in Reserved
is_valid_container_name(c) == c \in Containers
is_valid_port(n)           == n > 0 /\ n <= MaxPort

\* Conversion of a 64-bit integer to int: modulo its range, as C++20 has it.
ToInt(n) == LET m == n % IntRange
            IN  IF 2 * m < IntRange THEN m ELSE m - IntRange

\* get<int>() of any arithmetic value.
GetInt(json) == IF json[1] = "boolean" THEN (IF json[2] THEN 1 ELSE 0)
                ELSE ToInt(json[2])

PortOf(body, default) == IF contains(body, "container_port")
                         THEN GetInt(body.fields["container_port"])
                         ELSE default

-----------------------------------------------------------------------------
(* POST *)
\* value() throws on anything but an object and on a field of another type;
\* nothing catches that before the exception handler.
Mistyped(body) ==
  \/ body.kind = "other"
  \/ ~Typed(body, "path_prefix", {"string"})
  \/ ~Typed(body, "container_name", {"string"})
  \/ ~Typed(body, "container_port", {"integer", "float", "boolean"})
  \/ ~Typed(body, "strip_prefix", {"boolean"})

RouteOf(body) == [path_prefix    |-> ValueOf(body, "path_prefix", Unset),
                  container_name |-> ValueOf(body, "container_name", Unset),
                  container_port |-> PortOf(body, 0),
                  strip_prefix   |-> ValueOf(body, "strip_prefix", TRUE)]

\* Mutant of ValidRoute: the port is not looked at.
ValidRoute_AnyPort(new) ==
  /\ is_valid_path_prefix(new.path_prefix)
  /\ ~is_reserved_path_prefix(new.path_prefix)
  /\ is_valid_container_name(new.container_name)

ValidRoute(new) == /\ is_valid_path_prefix(new.path_prefix)
                   /\ ~is_reserved_path_prefix(new.path_prefix)
                   /\ is_valid_container_name(new.container_name)
                   /\ is_valid_port(new.container_port)

PostAccepts(body) == /\ body.kind # "garbage" /\ ~Mistyped(body)
                     /\ ValidRoute(RouteOf(body))

PostRefusal(body) == CASE body.kind = "garbage" -> 400
                       [] body.kind # "garbage" /\ Mistyped(body) -> 500
                       [] OTHER -> 422

-----------------------------------------------------------------------------
(* PATCH *)
UpdateOf(body) ==
  [container_name |-> ValueOf(body, "container_name", Unset),
   container_port |-> PortOf(body, Unset),
   strip_prefix   |-> ValueOf(body, "strip_prefix", Unset),
   enabled        |-> ValueOf(body, "enabled", Unset),
   last_seen_ip   |-> Unset]

\* Nothing here throws: contains() is false on what is no object.
PatchAccepts(body) ==
  /\ body.kind # "garbage" /\ ~contains(body, "path_prefix")
  /\ Typed(body, "container_name", {"string"})
  /\ Typed(body, "container_port", {"integer"})
  /\ Typed(body, "strip_prefix", {"boolean"}) /\ Typed(body, "enabled", {"boolean"})
  /\ contains(body, "container_name") =>
       is_valid_container_name(body.fields["container_name"][2])
  /\ contains(body, "container_port") => is_valid_port(PortOf(body, 0))
  /\ \E f \in {"container_name", "container_port", "strip_prefix", "enabled"} :
       contains(body, f)

PatchRefusal(body) == IF body.kind = "garbage" THEN 400 ELSE 422

\* What route_to_json shows of a row and PATCH lets a client set.
Settable(row) ==
  Object([container_name |-> Json("string", row.container_name),
          container_port |-> Json("integer", row.container_port),
          strip_prefix   |-> Json("boolean", row.strip_prefix),
          enabled        |-> Json("boolean", row.enabled)])

=============================================================================
