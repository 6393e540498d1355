------------------------------ MODULE MemoryKv ------------------------------
(***************************************************************************)
(* The operations of MemoryKvStore on its entries, a Map from keys to      *)
(* [value, expiresAt].  Each method body runs without yielding, so each    *)
(* operation is one step of whoever uses it; t is Date.now() in that step. *)
(* An entry written without a TTL expires at Forever (Infinity).           *)
(***************************************************************************)
EXTENDS InsertionMap

CONSTANTS Null,      \* JavaScript's null: there is no such value
          Forever,   \* Infinity, the expiry of an entry without a TTL
          Capacity   \* maxEntries

ASSUME CapacityAssumption == Capacity \in Nat \ {0}
ASSUME ForeverAssumption == Forever \notin Int

\* Mutant of ExpiryAfter: the sign of the TTL is wrong.
ExpiryBefore(t, ttl) == IF ttl = Forever THEN Forever ELSE t - ttl

ExpiryAfter(t, ttl) == IF ttl = Forever THEN Forever ELSE t + ttl

\* Mutant of IsExpired: nothing expires.
NeverExpired(entry, t) == FALSE

IsExpired(entry, t) == entry.expiresAt # Forever /\ t > entry.expiresAt

ExpiredKeys(entries, t) == {k \in DOMAIN entries : IsExpired(entries[k].val, t)}

\* lookup(key): what it returns ...
Lookup(entries, k, t) ==
    IF k \notin DOMAIN entries \/ IsExpired(entries[k].val, t)
    THEN Null ELSE entries[k].val.value

\* ... and what it leaves: an expired entry is deleted on the way.
AfterLookup(entries, k, t) ==
    Without(entries, {k} \cap ExpiredKeys(entries, t))

\* The n oldest entries.
Eldest(entries, n) == {k \in DOMAIN entries : Cardinality(entries[k].older) < n}

\* Mutants of EvictIfFull: the limit is off by one; the oldest entries go
\* although expired ones are there.
EvictIfOverfull(entries, t) ==
    IF Size(entries) <= Capacity THEN entries
    ELSE LET live == Without(entries, ExpiredKeys(entries, t))
         IN  Without(live, Eldest(live, Size(live) - Capacity + 1))
EvictOldest(entries, t) ==
    IF Size(entries) < Capacity THEN entries
    ELSE Without(entries, Eldest(entries, Size(entries) - Capacity + 1))

\* evictIfFull: the expired entries first, then the oldest until there is room for one.
EvictIfFull(entries, t) ==
    IF Size(entries) < Capacity THEN entries
    ELSE LET live == Without(entries, ExpiredKeys(entries, t))
         IN  Without(live, Eldest(live, Size(live) - Capacity + 1))

\* write(key, value, ttl): the key always moves to the end of the Map.
Write(entries, k, value, ttl, t) ==
    Put(EvictIfFull(Without(entries, {k}), t), k,
        [value |-> value, expiresAt |-> ExpiryAfter(t, ttl)])

\* The map that the five methods leave behind.
AfterGet(entries, k, t) == AfterLookup(entries, k, t)
AfterSet(entries, k, value, ttl, t) == Write(entries, k, value, ttl, t)
AfterSetIfAbsent(entries, k, value, ttl, t) ==
    IF Lookup(entries, k, t) # Null THEN AfterLookup(entries, k, t)
    ELSE Write(AfterLookup(entries, k, t), k, value, ttl, t)
\* Mutant of AfterDelete: a read where the value should be read and removed.
AfterPeek(entries, k) == entries

AfterDelete(entries, k) == Without(entries, {k})
=============================================================================
