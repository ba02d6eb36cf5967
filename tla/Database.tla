------------------------------ MODULE Database ------------------------------
(***************************************************************************)
(* The routes table (src/src/db/database.cpp, src/src/model/route.hpp).    *)
(*                                                                         *)
(* Every public method of class Database takes the object's mutex for its  *)
(* whole body, so each one is a single atomic action here.  The table is a *)
(* partial function from row ids to rows plus the AUTOINCREMENT counter    *)
(* SQLite keeps in sqlite_sequence.  Timestamps are left out.              *)
(***************************************************************************)
EXTENDS Integers

CONSTANTS Prefixes,    \* path prefixes a row may have
          Containers,  \* container names
          Ports,       \* container ports
          Addrs,       \* addresses docker reports for containers
          Unset        \* std::nullopt in a RouteUpdate

ASSUME UnsetAssumption ==
  /\ Unset \notin Containers
  /\ Unset \notin Ports
  /\ Unset \notin Addrs
  /\ Unset \notin BOOLEAN

VARIABLES rows,  \* the table: id -> Row
          seq    \* the largest id ever handed out

dbVars == <<rows, seq>>

-----------------------------------------------------------------------------
Row == [path_prefix : Prefixes, container_name : Containers,
        container_port : Ports, strip_prefix : BOOLEAN,
        enabled : BOOLEAN, last_seen_ip : Addrs]

NewRoute == [path_prefix : Prefixes, container_name : Containers,
             container_port : Ports, strip_prefix : BOOLEAN]

RouteUpdate == [container_name : Containers \union {Unset},
                container_port : Ports \union {Unset},
                strip_prefix   : BOOLEAN \union {Unset},
                enabled        : BOOLEAN \union {Unset},
                last_seen_ip   : Addrs \union {Unset}]

Ids == DOMAIN rows

\* Mutant of ValueOr: the optional is bound as it is, an unset one included.
ValueOr_Unchecked(opt, current) == opt

\* std::optional::value_or, which update_route applies to every field.
ValueOr(opt, current) == IF opt = Unset THEN current ELSE opt

\* Mutant of PrefixTaken: the column without its UNIQUE constraint.
PrefixTaken_Never(p) == FALSE

PrefixTaken(p) == \E i \in Ids : rows[i].path_prefix = p

\* The row an INSERT stores: the schema's default makes it enabled.
RowOf(new, ip) ==
  [path_prefix |-> new.path_prefix, container_name |-> new.container_name,
   container_port |-> new.container_port, strip_prefix |-> new.strip_prefix,
   enabled |-> TRUE, last_seen_ip |-> ip]

Patched(row, patch) ==
  [path_prefix    |-> row.path_prefix,
   container_name |-> ValueOr(patch.container_name, row.container_name),
   container_port |-> ValueOr(patch.container_port, row.container_port),
   strip_prefix   |-> ValueOr(patch.strip_prefix, row.strip_prefix),
   enabled        |-> ValueOr(patch.enabled, row.enabled),
   last_seen_ip   |-> ValueOr(patch.last_seen_ip, row.last_seen_ip)]

-----------------------------------------------------------------------------
\* init_schema on a fresh volume.
DbInit == /\ rows = [i \in {} |-> {}]
          /\ seq = 0

\* Mutant of CreateRoute: the key without AUTOINCREMENT, which hands out the
\* successor of the largest id in the table.
CreateRoute_ReusesIds(new, ip) ==
  LET id == CHOOSE n \in 1..(seq + 1) :
              /\ \A i \in Ids : i < n
              /\ n = 1 \/ n - 1 \in Ids
  IN /\ ~PrefixTaken(new.path_prefix)
     /\ seq' = seq + 1
     /\ rows' = [i \in Ids \union {id} |->
                   IF i = id THEN RowOf(new, ip) ELSE rows[i]]

\* create_route: the INSERT, refused by the UNIQUE constraint on path_prefix.
CreateRoute(new, ip) ==
  /\ ~PrefixTaken(new.path_prefix)
  /\ seq' = seq + 1
  /\ rows' = [i \in Ids \union {seq + 1} |->
                IF i = seq + 1 THEN RowOf(new, ip) ELSE rows[i]]

\* update_route on an existing row: SELECT, UPDATE and SELECT under one lock.
UpdateRoute(id, patch) ==
  /\ id \in Ids
  /\ rows' = [rows EXCEPT ![id] = Patched(rows[id], patch)]
  /\ UNCHANGED seq

\* set_enabled, which only the tests call.
SetEnabled(id, b) ==
  /\ id \in Ids
  /\ rows' = [rows EXCEPT ![id].enabled = b]
  /\ UNCHANGED seq

DeleteRoute(id) ==
  /\ id \in Ids
  /\ rows' = [i \in Ids \ {id} |-> rows[i]]
  /\ UNCHANGED seq

EnabledIds(table) == {i \in DOMAIN table : table[i].enabled}

\* list_enabled_routes: the rows that are to be rendered.
list_enabled_routes(table) == [i \in EnabledIds(table) |-> table[i]]

-----------------------------------------------------------------------------
\* The table maps ids that were handed out to rows.
DbTypeOK == /\ seq \in Nat
            /\ Ids \subseteq 1..seq
            /\ rows \in [Ids -> Row]

\* No two routes have the same path prefix (UNIQUE in the schema): two of
\* them would render two nginx locations of the same name.
UniquePrefix ==
  \A i, j \in Ids : rows[i].path_prefix = rows[j].path_prefix => i = j

=============================================================================
