-------------------------- MODULE ReplayProtection --------------------------
(***************************************************************************)
(* ReplayProtectionService of one gateway process: the cache of nonces     *)
(* that makes a non-idempotent request usable once.  assertFresh runs to   *)
(* completion without an await, so one call is one step; what interleaves  *)
(* is the order of the calls and the clock.                                *)
(*                                                                         *)
(* A payload is its nonce and its timestamp.  Every nonce that fails the   *)
(* format check is BadNonce, every timestamp that parseTimestamp cannot    *)
(* read is BadTimestamp.  MaxNow bounds the clock.                         *)
(*                                                                         *)
(* History variables (never read by the code): lastUse and since say when  *)
(* a nonce was last accepted and how many acceptances followed.            *)
(***************************************************************************)
EXTENDS NonceCache

CONSTANTS Nonces, Timestamps, BadNonce, BadTimestamp,
          MaxNow

ASSUME ClockAssumption == MaxNow \in Nat
ASSUME PayloadAssumption ==
    /\ BadNonce \notin Nonces
    /\ BadTimestamp \notin Timestamps
    /\ Timestamps \subseteq Int

VARIABLES required,  \* REQUIRE_REQUEST_NONCE, fixed at construction
          seen,      \* nonce -> expiresAt, in insertion order
          now,       \* Date.now()
          reply,     \* the answer to the call made in the last step
          lastUse, since

history == <<lastUse, since>>
vars == <<required, seen, now, reply, history>>

Payload == [nonce : Nonces \cup {BadNonce},
            ts    : Timestamps \cup {BadTimestamp}]

NotUsed == -1
Codes == {"none", "accepted", "skipped", "REQUEST_NONCE_INVALID",
          "REQUEST_TIMESTAMP_INVALID", "REQUEST_EXPIRED", "REQUEST_REPLAYED"}
Answer(code, n) == [code |-> code, nonce |-> n]

-----------------------------------------------------------------------------
(* assertFresh: one action for each way the call can end.                  *)

Skip(p) ==
    /\ ~required
    /\ reply' = Answer("skipped", p.nonce)
    /\ UNCHANGED <<required, seen, now, history>>

RejectNonce(p) ==
    /\ required
    /\ p.nonce = BadNonce
    /\ reply' = Answer("REQUEST_NONCE_INVALID", p.nonce)
    /\ UNCHANGED <<required, seen, now, history>>

RejectTimestamp(p) ==
    /\ required
    /\ p.nonce # BadNonce
    /\ p.ts = BadTimestamp
    /\ reply' = Answer("REQUEST_TIMESTAMP_INVALID", p.nonce)
    /\ UNCHANGED <<required, seen, now, history>>

WellFormed(p) == required /\ p.nonce # BadNonce /\ p.ts # BadTimestamp

RejectExpired(p) ==
    /\ WellFormed(p)
    /\ ~InWindow(p.ts, now)
    /\ reply' = Answer("REQUEST_EXPIRED", p.nonce)
    /\ UNCHANGED <<required, seen, now, history>>

RejectReplayed(p) ==
    /\ WellFormed(p)
    /\ InWindow(p.ts, now)
    /\ LET swept == Sweep(seen, now)
       IN  /\ Known(swept, p.nonce, now)
           /\ seen' = swept
    /\ reply' = Answer("REQUEST_REPLAYED", p.nonce)
    /\ UNCHANGED <<required, now, history>>

\* The counter stops where it no longer tells anything apart.
Bump(c) == IF 2 * c <= MaxEntries THEN c + 1 ELSE c

Accept(p) ==
    /\ WellFormed(p)
    /\ InWindow(p.ts, now)
    /\ LET swept == Sweep(seen, now)
       IN  /\ ~Known(swept, p.nonce, now)
           /\ seen' = Remember(swept, p.nonce, now)
    /\ reply' = Answer("accepted", p.nonce)
    /\ lastUse' = [lastUse EXCEPT ![p.nonce] = now]
    /\ since' = [n \in Nonces |-> IF n = p.nonce THEN 0 ELSE Bump(since[n])]
    /\ UNCHANGED <<required, now>>

AssertFresh(p) ==
    \/ Skip(p)
    \/ RejectNonce(p)
    \/ RejectTimestamp(p)
    \/ RejectExpired(p)
    \/ RejectReplayed(p)
    \/ Accept(p)

Tick ==
    /\ now < MaxNow
    /\ now' = now + 1
    /\ reply' = Answer("none", BadNonce)
    /\ UNCHANGED <<required, seen, history>>

Init ==
    /\ required \in BOOLEAN
    /\ seen = EmptyMap
    /\ now = 0
    /\ reply = Answer("none", BadNonce)
    /\ lastUse = [n \in Nonces |-> NotUsed]
    /\ since = [n \in Nonces |-> 0]

Next == Tick \/ \E p \in Payload : AssertFresh(p)

Spec == Init /\ [][Next]_vars

-----------------------------------------------------------------------------
(* Properties.                                                             *)

\* Types of all variables; the cache is a well-ordered map of expiry times.
TypeOK ==
    /\ required \in BOOLEAN
    /\ IsMapOver(seen, Nonces, Nat)
    /\ WellOrdered(seen)
    /\ now \in Nat
    /\ reply \in [code : Codes, nonce : Nonces \cup {BadNonce}]
    /\ lastUse \in [Nonces -> Nat \cup {NotUsed}]
    /\ since \in [Nonces -> Nat]

\* assertFresh never leaves more than REPLAY_CACHE_MAX_ENTRIES nonces behind,
\* although each call evicts at most one entry and sweeps only a half-full cache.
CacheBounded == Size(seen) <= MaxEntries

Protected(n) == lastUse[n] # NotUsed /\ now < lastUse[n] + MaxSkew

\* A nonce stays in the cache, with the expiry of its last use, until that use
\* expires, unless more than half the cache's capacity of other nonces was
\* accepted after it.  Not "unless a full cache of them": a nonce that is used
\* again keeps its old place in the Map, so it can be evicted before older uses.
RememberedUnlessBurst ==
    \A n \in Nonces :
        Protected(n) /\ 2 * since[n] <= MaxEntries
            => n \in DOMAIN seen /\ seen[n].val = lastUse[n] + MaxSkew

\* No false alarm: REQUEST_REPLAYED is only ever said of a nonce that was
\* accepted less than MaxSkew ago; stale cache entries and sweeps that were
\* not due never make the service refuse a nonce that is free again.
NoFalseReplay ==
    reply.code = "REQUEST_REPLAYED" => Protected(reply.nonce)

\* A nonce is accepted a second time inside MaxSkew of its last acceptance
\* only after a burst of other nonces pushed it out of the cache.
NoEarlyReuse ==
    [][reply' # reply /\ reply'.code = "accepted" =>
          LET n == reply'.nonce IN Protected(n) => 2 * since[n] > MaxEntries]_vars
=============================================================================
