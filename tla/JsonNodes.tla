----------------------------- MODULE JsonNodes -----------------------------
(***************************************************************************)
(* Jackson's JsonNode as the mappers of both channels use it.  An object   *)
(* is a record with the keys that have a value; `nulls`, if it is there,   *)
(* is the set of those with a JSON null, which has() sees and a read with  *)
(* a default does not.  A text that does not parse is Malformed.           *)
(***************************************************************************)
Malformed == [malformed |-> TRUE]

NonNull(node, key) == key \in DOMAIN node
Nulls(node) == IF NonNull(node, "nulls") THEN node.nulls ELSE {}

\* has(), and the keys for which it is true.
Has(node, key) == NonNull(node, key) \/ key \in Nulls(node)
Keys(node) == (DOMAIN node \ {"nulls"}) \cup Nulls(node)

Path(node, key, default) == IF NonNull(node, key) THEN node[key] ELSE default

Parses(text) == ~NonNull(text, "malformed")

\* A missing node has no keys.
NoNode == [k \in {} |-> 0]
=============================================================================
