--------------------------- MODULE MemoryKvStore ---------------------------
(***************************************************************************)
(* MemoryKvStore, the in-process implementation of the KvStore port, with  *)
(* one action per method.  MaxNow bounds the clock.                        *)
(***************************************************************************)
EXTENDS MemoryKv

CONSTANTS Keys, Values, TTLs, MaxNow

ASSUME TTLAssumption == TTLs \subseteq Nat \cup {Forever}
ASSUME NullAssumption == Null \notin Values \cup Keys
ASSUME MaxNowAssumption == MaxNow \in Nat

VARIABLES entries, now, result

vars == <<entries, now, result>>

Returned(k, v) == [key |-> k, value |-> v]
Truth(b) == IF b THEN "true" ELSE "false"

Get(k) ==
    /\ result' = Returned(k, Lookup(entries, k, now))
    /\ entries' = AfterGet(entries, k, now)
    /\ UNCHANGED now

Set(k, v, ttl) ==
    /\ result' = Returned(k, "stored")
    /\ entries' = AfterSet(entries, k, v, ttl, now)
    /\ UNCHANGED now

SetIfAbsent(k, v, ttl) ==
    /\ result' = Returned(k, Truth(Lookup(entries, k, now) = Null))
    /\ entries' = AfterSetIfAbsent(entries, k, v, ttl, now)
    /\ UNCHANGED now

GetDelete(k) ==
    /\ result' = Returned(k, Lookup(entries, k, now))
    /\ entries' = AfterDelete(entries, k)
    /\ UNCHANGED now

\* Unlike the others, delete does not look at the expiry.
Delete(k) ==
    /\ result' = Returned(k, Truth(k \in DOMAIN entries))
    /\ entries' = AfterDelete(entries, k)
    /\ UNCHANGED now

Tick ==
    /\ now < MaxNow
    /\ now' = now + 1
    /\ result' = Returned(Null, Null)
    /\ UNCHANGED entries

Init ==
    /\ entries = EmptyMap
    /\ now = 0
    /\ result = Returned(Null, Null)

Next ==
    \/ Tick
    \/ \E k \in Keys :
          \/ Get(k)
          \/ GetDelete(k)
          \/ Delete(k)
          \/ \E v \in Values, ttl \in TTLs : Set(k, v, ttl) \/ SetIfAbsent(k, v, ttl)

Spec == Init /\ [][Next]_vars

-----------------------------------------------------------------------------
(* Properties.                                                             *)

\* Types of the variables; the entries form a well-ordered Map.
TypeOK ==
    /\ IsMapOver(entries, Keys, [value : Values, expiresAt : Nat \cup {Forever}])
    /\ WellOrdered(entries)
    /\ now \in Nat

\* The heap that unauthenticated challenge requests can claim is bounded: the
\* store never holds more than maxEntries entries, expired ones included.
StoreBounded == Size(entries) <= Capacity

\* The entries as a user of the port sees them.
Visible ==
    [k \in DOMAIN entries \ ExpiredKeys(entries, now) |-> entries[k].val]

Port == INSTANCE KvStore WITH kv <- Visible

\* The in-process store keeps the promise of the port: every method has the
\* effect and the answer that the port allows, whatever expired entries linger
\* in the Map, and an unexpired entry is only lost to a write that finds
\* Capacity other unexpired entries.
ImplementsPort == Port!Spec
=============================================================================
