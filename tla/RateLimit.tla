----------------------------- MODULE RateLimit -----------------------------
(***************************************************************************)
(* RateLimitGuard of one gateway process: a fixed-window counter per       *)
(* client key (clientIpKey of the peer's address), a shared overflow       *)
(* counter once the table is full, and a sweep of expired windows that     *)
(* runs at most once per TTL.  canActivate has no await: one call is one   *)
(* step.  MaxNow bounds the clock; Date.now() is taken to be monotonic.    *)
(*                                                                         *)
(* History variables: told[k] is the end of the window that the guard last *)
(* announced (X-RateLimit-Reset) for counter k, recent[c][a] the number of *)
(* requests of client c let through a ticks ago.                           *)
(***************************************************************************)
EXTENDS Integers, FiniteSets

CONSTANTS Clients,
          Overflow,    \* the key '\u0000rate-limit-overflow'
          TTL,         \* THROTTLE_TTL_MS
          Limit,       \* THROTTLE_LIMIT
          MaxEntries,  \* THROTTLE_MAX_ENTRIES
          MaxNow

ASSUME LimitsAssumption ==
    /\ TTL \in Nat \ {0}
    /\ Limit \in Nat \ {0}
    /\ MaxEntries \in Nat \ {0}
    /\ MaxNow \in Nat
ASSUME OverflowAssumption == Overflow \notin Clients

VARIABLES hits,         \* key -> [count, resetAt]
          nextSweepAt,
          now,          \* Date.now()
          answer,       \* what the last step's call did: code and key
          told, recent

history == <<told, recent>>
vars == <<hits, nextSweepAt, now, answer, history>>

Keys == Clients \cup {Overflow}
Ages == 0 .. TTL - 1
Idle == [code |-> "none", key |-> Overflow]

-----------------------------------------------------------------------------

\* Mutant of Dead: the sweep clears the table.
DeadAll(table, t) == DOMAIN table

Dead(table, t) == {k \in DOMAIN table : table[k].resetAt <= t}

\* Mutant of SweepDue: only a full table is swept.
SweepDueWhenFull == now >= nextSweepAt /\ Cardinality(DOMAIN hits) >= MaxEntries

SweepDue == now >= nextSweepAt

Swept == [k \in DOMAIN hits \ (IF SweepDue THEN Dead(hits, now) ELSE {}) |-> hits[k]]

\* Mutant of ChargedKey: no room is kept for the overflow counter.
ChargedKeyUnreserved(table, c) ==
    IF c \notin DOMAIN table /\ Cardinality(DOMAIN table) >= MaxEntries
    THEN Overflow ELSE c

\* The counter that client c is charged on: its own, or the overflow counter
\* when it has none and there is no room for one more.
ChargedKey(table, c) ==
    IF c \notin DOMAIN table /\ Cardinality(DOMAIN table) >= MaxEntries - 1
    THEN Overflow ELSE c

\* Mutants of Charged: a new window is not charged with its first request; a
\* running window is not charged with the later ones.
ChargedLate(table, k) ==
    IF k \notin DOMAIN table \/ table[k].resetAt <= now
    THEN [count |-> 0, resetAt |-> now + TTL]
    ELSE [table[k] EXCEPT !.count = IF @ > Limit THEN @ ELSE @ + 1]
ChargedOnce(table, k) ==
    IF k \notin DOMAIN table \/ table[k].resetAt <= now
    THEN [count |-> 1, resetAt |-> now + TTL]
    ELSE table[k]

\* The counter after this request: a missing or finished window starts anew.
\* A refused request counts too, but counts beyond Limit + 1 all mean the same.
Charged(table, k) ==
    IF k \notin DOMAIN table \/ table[k].resetAt <= now
    THEN [count |-> 1, resetAt |-> now + TTL]
    ELSE [table[k] EXCEPT !.count = IF @ > Limit THEN @ ELSE @ + 1]

Charge(table, k, entry) ==
    [j \in DOMAIN table \cup {k} |-> IF j = k THEN entry ELSE table[j]]

\* The part of canActivate that is the same whatever it answers.
Count(k, entry) ==
    /\ hits' = Charge(Swept, k, entry)
    /\ nextSweepAt' = IF SweepDue THEN now + TTL ELSE nextSweepAt
    /\ told' = [told EXCEPT ![k] = entry.resetAt]

Allow(c) ==
    LET k == ChargedKey(Swept, c)
        entry == Charged(Swept, k)
    IN  /\ entry.count <= Limit
        /\ Count(k, entry)
        /\ answer' = [code |-> "allowed", key |-> k]
        /\ recent' = [recent EXCEPT ![c][0] = @ + 1]
        /\ UNCHANGED now

\* 429 with Retry-After.
Refuse(c) ==
    LET k == ChargedKey(Swept, c)
        entry == Charged(Swept, k)
    IN  /\ entry.count > Limit
        /\ Count(k, entry)
        /\ answer' = [code |-> "limited", key |-> k]
        /\ UNCHANGED <<now, recent>>

\* A route marked @SkipRateLimit (/health, /public-key).
Exempt(c) ==
    /\ answer' = [code |-> "exempt", key |-> c]
    /\ UNCHANGED <<hits, nextSweepAt, now, history>>

CanActivate(c) == Allow(c) \/ Refuse(c) \/ Exempt(c)

Tick ==
    /\ now < MaxNow
    /\ now' = now + 1
    /\ answer' = Idle
    /\ recent' = [c \in Clients |-> [a \in Ages |->
                     IF a = 0 THEN 0 ELSE recent[c][a - 1]]]
    /\ UNCHANGED <<hits, nextSweepAt, told>>

Init ==
    /\ hits = [k \in {} |-> k]
    /\ nextSweepAt = 0
    /\ now = 0
    /\ answer = Idle
    /\ told = [k \in Keys |-> 0]
    /\ recent = [c \in Clients |-> [a \in Ages |-> 0]]

Next == Tick \/ \E c \in Clients : CanActivate(c)

Spec == Init /\ [][Next]_vars

-----------------------------------------------------------------------------
(* Properties.                                                             *)

\* Types of all variables; a counter is at most one above the limit here.
TypeOK ==
    /\ hits = [k \in DOMAIN hits |-> hits[k]]
    /\ DOMAIN hits \subseteq Keys
    /\ \A k \in DOMAIN hits : hits[k] \in [count : 1 .. Limit + 1, resetAt : Nat]
    /\ nextSweepAt \in Nat
    /\ now \in Nat
    /\ answer \in [code : {"none", "allowed", "limited", "exempt"}, key : Keys]
    /\ told \in [Keys -> Nat]
    /\ recent \in [Clients -> [Ages -> Nat]]

\* The table holds at most THROTTLE_MAX_ENTRIES counters, the overflow counter
\* included, whatever the addresses of the clients are.
EntriesBounded == Cardinality(DOMAIN hits) <= MaxEntries

\* A window that was announced is not forgotten, restarted or moved before its
\* end, by a sweep or by other clients filling the table.
WindowKept ==
    \A k \in Keys : now < told[k] =>
        k \in DOMAIN hits /\ hits[k].resetAt = told[k]

\* A finished window occupies the table, and thereby keeps new clients on the
\* overflow counter, for less than one TTL of the calls that follow it.
FinishedWindowsGoWithinTTL ==
    answer.code \in {"allowed", "limited"} =>
        \A k \in DOMAIN hits : now < hits[k].resetAt + TTL

SlidingCount(c) ==
    LET sum[a \in Ages] == recent[c][a] + IF a = 0 THEN 0 ELSE sum[a - 1]
    IN  sum[TTL - 1]

\* Over any interval of TTL, whatever its alignment with the windows, a client
\* gets fewer than three times the limit through: a window on either side of a
\* reset of the overflow counter, and one more when a sweep lets it move to a
\* counter of its own.  One less, as the request that opened the first of the
\* windows is older than the interval.
SlidingBound == \A c \in Clients : SlidingCount(c) < 3 * Limit
=============================================================================
