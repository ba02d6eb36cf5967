--------------------------- MODULE DatabaseProofs ---------------------------
(***************************************************************************)
(* What each statement of class Database preserves, for every table and    *)
(* every value of the constants.                                           *)
(***************************************************************************)
EXTENDS Database, TLAPS

\* create_route keeps the table well formed: the new id is fresh because the
\* AUTOINCREMENT counter bounds all ids.
LEMMA CreateTyped ==
  ASSUME DbTypeOK, NEW new \in NewRoute, NEW ip \in Addrs, CreateRoute(new, ip)
  PROVE  DbTypeOK'
<1>1. RowOf(new, ip) \in Row
  BY DEF RowOf, Row, NewRoute
<1>2. seq' \in Nat /\ Ids \union {seq + 1} \subseteq 1..seq'
  BY DEF CreateRoute, DbTypeOK
<1>3. Ids' = Ids \union {seq + 1}
  BY DEF CreateRoute, Ids
<1>4. rows' \in [Ids' -> Row]
  BY <1>1, <1>3 DEF CreateRoute, DbTypeOK, Ids
<1> QED  BY <1>2, <1>3, <1>4 DEF DbTypeOK

\* update_route writes a well-formed row: value_or keeps every column in its
\* domain.
LEMMA PatchedTyped ==
  ASSUME NEW row \in Row, NEW patch \in RouteUpdate
  PROVE  Patched(row, patch) \in Row
BY UnsetAssumption DEF Patched, ValueOr, Row, RouteUpdate

\* update_route keeps the table well formed.
LEMMA UpdateTyped ==
  ASSUME DbTypeOK, NEW id, NEW patch \in RouteUpdate, UpdateRoute(id, patch)
  PROVE  DbTypeOK'
<1>1. id \in Ids /\ rows[id] \in Row
  BY DEF UpdateRoute, DbTypeOK
<1>2. Patched(rows[id], patch) \in Row
  BY <1>1, PatchedTyped
<1>3. Ids' = Ids /\ seq' = seq
  BY DEF UpdateRoute, Ids
<1>4. rows' \in [Ids -> Row]
  BY <1>1, <1>2 DEF UpdateRoute, DbTypeOK
<1> QED  BY <1>3, <1>4 DEF DbTypeOK

\* set_enabled changes one row, and is update_route with nothing but the
\* enabled field: whatever holds of updates holds of it.
LEMMA SetEnabledIsUpdate ==
  ASSUME DbTypeOK, NEW id, NEW b \in BOOLEAN, SetEnabled(id, b)
  PROVE  UpdateRoute(id, [container_name |-> Unset, container_port |-> Unset,
                          strip_prefix |-> Unset, enabled |-> b,
                          last_seen_ip |-> Unset])
<1> DEFINE patch == [container_name |-> Unset, container_port |-> Unset,
                     strip_prefix |-> Unset, enabled |-> b,
                     last_seen_ip |-> Unset]
<1>1. id \in Ids /\ rows[id] \in Row
  BY DEF SetEnabled, DbTypeOK
<1>2. b # Unset
  BY UnsetAssumption
<1>3. Patched(rows[id], patch) = [rows[id] EXCEPT !.enabled = b]
  BY <1>1, <1>2 DEF Patched, ValueOr, Row
<1>4. [rows EXCEPT ![id] = Patched(rows[id], patch)]
        = [rows EXCEPT ![id].enabled = b]
  BY <1>3
<1> QED  BY <1>1, <1>4 DEF SetEnabled, UpdateRoute

\* delete_route keeps the table well formed.
LEMMA DeleteTyped ==
  ASSUME DbTypeOK, NEW id, DeleteRoute(id)
  PROVE  DbTypeOK'
<1>1. Ids' = Ids \ {id} /\ seq' = seq
  BY DEF DeleteRoute, Ids
<1>2. rows' \in [Ids' -> Row]
  BY <1>1 DEF DeleteRoute, DbTypeOK, Ids
<1> QED  BY <1>1, <1>2 DEF DbTypeOK

-----------------------------------------------------------------------------
\* create_route keeps path prefixes unique: the schema's UNIQUE constraint
\* refuses the one insert that could repeat a prefix.
LEMMA CreateUnique ==
  ASSUME DbTypeOK, UniquePrefix, NEW new, NEW ip, CreateRoute(new, ip)
  PROVE  UniquePrefix'
<1>1. Ids' = Ids \union {seq + 1}
  BY DEF CreateRoute, Ids
<1>2. \A i \in Ids : i # seq + 1
  BY DEF DbTypeOK
<1>3. \A i \in Ids : rows'[i] = rows[i]
  BY <1>2 DEF CreateRoute
<1>4. rows'[seq + 1].path_prefix = new.path_prefix
  BY DEF CreateRoute, RowOf
<1>5. \A i \in Ids : rows[i].path_prefix # new.path_prefix
  BY DEF CreateRoute, PrefixTaken
<1> QED  BY <1>1, <1>3, <1>4, <1>5 DEF UniquePrefix

\* update_route cannot break uniqueness: path_prefix is not among the fields
\* it writes.
LEMMA UpdateUnique ==
  ASSUME DbTypeOK, UniquePrefix, NEW id, NEW patch, UpdateRoute(id, patch)
  PROVE  UniquePrefix'
<1>1. Ids' = Ids
  BY DEF UpdateRoute, Ids
<1>2. \A i \in Ids : rows'[i].path_prefix = rows[i].path_prefix
  BY DEF UpdateRoute, Patched, DbTypeOK
<1> QED  BY <1>1, <1>2 DEF UniquePrefix

\* delete_route only removes a row.
LEMMA DeleteUnique ==
  ASSUME UniquePrefix, NEW id, DeleteRoute(id)
  PROVE  UniquePrefix'
BY DEF DeleteRoute, UniquePrefix, Ids

=============================================================================
