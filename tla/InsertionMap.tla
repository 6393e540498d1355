---------------------------- MODULE InsertionMap ----------------------------
(***************************************************************************)
(* The JavaScript Map, as the gateway's in-memory caches use it: a finite  *)
(* partial function that also remembers the order in which its keys were   *)
(* inserted.  keys().next() yields the key that was inserted first;        *)
(* set() on a key that is already there replaces the value and keeps the   *)
(* key's place; delete() followed by set() moves the key to the end.       *)
(*                                                                         *)
(* A map is a function from its keys to records: val is the stored value,  *)
(* older the set of keys that were inserted before this one and are still  *)
(* there.  The order is thus total when the map is WellOrdered, and no     *)
(* counter of insertions is needed.                                        *)
(***************************************************************************)
EXTENDS Integers, FiniteSets

EmptyMap == [k \in {} |-> k]

Size(m) == Cardinality(DOMAIN m)

\* The map without the keys of S.
Without(m, S) ==
    [k \in DOMAIN m \ S |-> [m[k] EXCEPT !.older = @ \ S]]

\* map.set(k, v): a new key goes to the end, an old one keeps its place.
Put(m, k, v) ==
    [j \in DOMAIN m \cup {k} |->
        IF j # k THEN m[j]
        ELSE [val   |-> v,
              older |-> IF k \in DOMAIN m THEN m[k].older ELSE DOMAIN m]]

\* map.keys().next(): the first key, as a set that is empty for an empty map.
Oldest(m) == {k \in DOMAIN m : m[k].older = {}}

\* A map from keys in K to values in V.
IsMapOver(m, K, V) ==
    /\ m = [k \in DOMAIN m |-> m[k]]
    /\ DOMAIN m \subseteq K
    /\ \A k \in DOMAIN m : m[k] \in [val : V, older : SUBSET DOMAIN m]

\* older is a strict total order on the keys.
WellOrdered(m) ==
    /\ \A k \in DOMAIN m : k \notin m[k].older
    /\ \A j, k \in DOMAIN m :
          j # k => (j \in m[k].older <=> k \notin m[j].older)
    /\ \A j, k \in DOMAIN m :
          j \in m[k].older => m[j].older \subseteq m[k].older
=============================================================================
