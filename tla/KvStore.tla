------------------------------ MODULE KvStore ------------------------------
(***************************************************************************)
(* What the KvStore port promises its users: a map from keys to values     *)
(* whose entries disappear when their TTL is over, and whose operations    *)
(* are atomic.  The in-process implementation is bounded: a write into a   *)
(* store that already holds Capacity other entries may cost one of them.   *)
(***************************************************************************)
EXTENDS Integers, FiniteSets

CONSTANTS Keys, Values, TTLs, Null, Forever, Capacity, MaxNow

VARIABLES kv,      \* key -> [value, expiresAt], the entries that have not expired
          now,
          result   \* what the last operation returned

kvars == <<kv, now, result>>

Returned(k, v) == [key |-> k, value |-> v]
Truth(b) == IF b THEN "true" ELSE "false"
Nothing == Returned(Null, Null)

Value(k) == IF k \in DOMAIN kv THEN kv[k].value ELSE Null

Entry(v, ttl) ==
    [value |-> v, expiresAt |-> IF ttl = Forever THEN Forever ELSE now + ttl]

\* The store after writing an entry under k and losing the entries of F.
Stored(k, entry, F) ==
    [j \in (DOMAIN kv \ F) \cup {k} |-> IF j = k THEN entry ELSE kv[j]]

\* The entries that a write under k may cost.
Losses(k) ==
    LET others == DOMAIN kv \ {k}
    IN  {{}} \cup (IF Cardinality(others) < Capacity THEN {} ELSE {{j} : j \in others})

Remaining(S) == [j \in DOMAIN kv \ S |-> kv[j]]

Get(k) ==
    /\ result' = Returned(k, Value(k))
    /\ UNCHANGED <<kv, now>>

Set(k, v, ttl) ==
    /\ \E F \in Losses(k) : kv' = Stored(k, Entry(v, ttl), F)
    /\ result' = Returned(k, "stored")
    /\ UNCHANGED now

SetIfAbsent(k, v, ttl) ==
    \/ /\ Value(k) # Null
       /\ result' = Returned(k, Truth(FALSE))
       /\ UNCHANGED <<kv, now>>
    \/ /\ Value(k) = Null
       /\ \E F \in Losses(k) : kv' = Stored(k, Entry(v, ttl), F)
       /\ result' = Returned(k, Truth(TRUE))
       /\ UNCHANGED now

GetDelete(k) ==
    /\ kv' = Remaining({k})
    /\ result' = Returned(k, Value(k))
    /\ UNCHANGED now

\* The port leaves open what delete says of an entry that has expired.
Delete(k) ==
    /\ kv' = Remaining({k})
    /\ \E answer \in BOOLEAN :
          /\ k \in DOMAIN kv => answer
          /\ result' = Returned(k, Truth(answer))
    /\ UNCHANGED now

Tick ==
    /\ now < MaxNow
    /\ now' = now + 1
    /\ kv' = Remaining({j \in DOMAIN kv :
                           kv[j].expiresAt # Forever /\ now' > kv[j].expiresAt})
    /\ result' = Nothing

Init ==
    /\ kv = [k \in {} |-> k]
    /\ now = 0
    /\ result = Nothing

Next ==
    \/ Tick
    \/ \E k \in Keys :
          \/ Get(k)
          \/ GetDelete(k)
          \/ Delete(k)
          \/ \E v \in Values, ttl \in TTLs : Set(k, v, ttl) \/ SetIfAbsent(k, v, ttl)

Spec == Init /\ [][Next]_kvars
=============================================================================
