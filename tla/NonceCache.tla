----------------------------- MODULE NonceCache -----------------------------
(***************************************************************************)
(* The cache of ReplayProtectionService and what assertFresh does with it, *)
(* as operators, so that other modules can run assertFresh inside a step.  *)
(* A cache is a Map from nonces to the time when they expire; t is the     *)
(* value of Date.now() in the call.                                        *)
(***************************************************************************)
EXTENDS InsertionMap

CONSTANTS MaxSkew,      \* REQUEST_MAX_SKEW_MS
          MaxEntries    \* REPLAY_CACHE_MAX_ENTRIES

ASSUME LimitsAssumption ==
    /\ MaxSkew \in Nat \ {0}
    /\ MaxEntries \in Nat \ {0}

Distance(a, b) == IF a < b THEN b - a ELSE a - b

Expired(cache, t) == {n \in DOMAIN cache : cache[n].val <= t}

SweepDue(cache) == 2 * Size(cache) >= MaxEntries

\* Mutant of Sweep: clears the whole cache instead of its expired part.
SweepClears(cache, t) == IF SweepDue(cache) THEN EmptyMap ELSE cache

Sweep(cache, t) ==
    IF SweepDue(cache) THEN Without(cache, Expired(cache, t)) ELSE cache

\* Mutant of Known: has() instead of comparing the expiry.
KnownForever(cache, n, t) == n \in DOMAIN cache

Known(cache, n, t) == n \in DOMAIN cache /\ cache[n].val > t

\* Mutants of Bounded: the limit is off by one; the newest entry is evicted.
BoundedLate(cache) ==
    IF Size(cache) > MaxEntries + 1 THEN Without(cache, Oldest(cache)) ELSE cache
BoundedNewest(cache) ==
    IF Size(cache) > MaxEntries
    THEN Without(cache, {k \in DOMAIN cache : \A j \in DOMAIN cache : k \notin cache[j].older})
    ELSE cache

\* At most one entry is evicted, by insertion order and whether it expired or not.
Bounded(cache) ==
    IF Size(cache) > MaxEntries THEN Without(cache, Oldest(cache)) ELSE cache

\* Mutant of Remember: the sign of the skew is wrong.
RememberBackwards(cache, n, t) == Bounded(Put(cache, n, t - MaxSkew))

Remember(cache, n, t) == Bounded(Put(cache, n, t + MaxSkew))

InWindow(ts, t) == Distance(t, ts) <= MaxSkew
=============================================================================
