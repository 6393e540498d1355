----------------------- MODULE ReplayProtectionProofs -----------------------
(* Theorems about ReplayProtection, for every set of nonces (finite or     *)
(* not), every skew and every cache size.                                  *)
EXTENDS ReplayProtection, InsertionMapProofs

CacheOK(c) == IsMapOver(c, Nonces, Nat) /\ WellOrdered(c) /\ IsFiniteSet(DOMAIN c)

\* The entries of cache c that were inserted after nonce n.
Younger(c, n) == {k \in DOMAIN c : n \in c[k].older}

\* b is what is left of c when some entries are removed.
Shrunk(b, c) ==
    /\ DOMAIN b \subseteq DOMAIN c
    /\ \A n \in DOMAIN b : b[n].val = c[n].val /\ Younger(b, n) \subseteq Younger(c, n)

-----------------------------------------------------------------------------
(* The cache operations.                                                   *)

LEMMA WithoutCache ==
    ASSUME NEW c, CacheOK(c), NEW S
    PROVE  /\ CacheOK(Without(c, S))
           /\ Shrunk(Without(c, S), c)
           /\ DOMAIN Without(c, S) = DOMAIN c \ S
           /\ Size(Without(c, S)) \in Nat
           /\ Size(c) \in Nat
           /\ Size(Without(c, S)) <= Size(c)
<1> DEFINE w == Without(c, S)
<1>1. /\ DOMAIN w = DOMAIN c \ S
      /\ \A k \in DOMAIN c \ S :
            /\ w[k].val = c[k].val
            /\ w[k].older = c[k].older \ S
      /\ IsMapOver(w, Nonces, Nat)
  BY WithoutFacts, Zenon DEF CacheOK
<1>2. WellOrdered(w)
  BY WithoutOrdered, Zenon DEF CacheOK
<1>3. /\ IsFiniteSet(DOMAIN w)
      /\ Size(w) \in Nat
      /\ Size(c) \in Nat
      /\ Size(w) <= Size(c)
  BY WithoutSize, Zenon DEF CacheOK
<1> HIDE DEF w
<1>4. Shrunk(w, c)
  BY <1>1 DEF Shrunk, Younger
<1>5. CacheOK(w)
  BY <1>1, <1>2, <1>3 DEF CacheOK
<1> QED
  BY <1>1, <1>3, <1>4, <1>5 DEF w

\* A sweep removes nothing that is still valid, and leaves an expired entry
\* behind only when it was not due.
LEMMA SweepCache ==
    ASSUME NEW c, CacheOK(c), NEW t \in Nat
    PROVE  /\ CacheOK(Sweep(c, t))
           /\ Shrunk(Sweep(c, t), c)
           /\ Size(Sweep(c, t)) \in Nat
           /\ Size(c) \in Nat
           /\ Size(Sweep(c, t)) <= Size(c)
           /\ \A n \in DOMAIN c : c[n].val > t => n \in DOMAIN Sweep(c, t)
           /\ \A n \in DOMAIN Sweep(c, t) : c[n].val <= t =>
                 Sweep(c, t) = c /\ 2 * Size(c) < MaxEntries
<1> DEFINE S == Expired(c, t)
<1>1. /\ CacheOK(Without(c, S))
      /\ Shrunk(Without(c, S), c)
      /\ DOMAIN Without(c, S) = DOMAIN c \ S
      /\ Size(Without(c, S)) \in Nat
      /\ Size(c) \in Nat
      /\ Size(Without(c, S)) <= Size(c)
  BY WithoutCache, Zenon
<1>2. \A n \in DOMAIN c : c[n].val \in Nat
  BY DEF CacheOK, IsMapOver
<1>3. \A n \in DOMAIN c : n \in S <=> ~(c[n].val > t)
  BY <1>2 DEF Expired
<1>4. Shrunk(c, c)
  BY DEF Shrunk
<1>5. CASE SweepDue(c)
  <2>1. Sweep(c, t) = Without(c, S)
    BY <1>5 DEF Sweep
  <2>2. \A n \in DOMAIN Without(c, S) : ~(c[n].val <= t)
    BY <1>1, <1>2, <1>3
  <2> HIDE DEF S
  <2> QED
    BY <1>1, <1>3, <2>1, <2>2
<1>6. CASE ~SweepDue(c)
  <2>1. Sweep(c, t) = c
    BY <1>6 DEF Sweep
  <2>2. 2 * Size(c) < MaxEntries
    BY <1>1, <1>6, LimitsAssumption DEF SweepDue
  <2> QED
    BY <1>1, <1>4, <2>1, <2>2
<1> QED
  BY <1>5, <1>6

LEMMA PutCache ==
    ASSUME NEW c, CacheOK(c), NEW m \in Nonces, NEW v \in Nat
    PROVE  /\ CacheOK(Put(c, m, v))
           /\ DOMAIN Put(c, m, v) = DOMAIN c \cup {m}
           /\ Put(c, m, v)[m].val = v
           /\ \A n \in DOMAIN c \ {m} : Put(c, m, v)[n].val = c[n].val
           /\ \A n \in DOMAIN c : Younger(Put(c, m, v), n) \subseteq Younger(c, n) \cup {m}
           /\ Size(c) \in Nat
           /\ Size(Put(c, m, v)) \in Nat
           /\ Size(Put(c, m, v)) <= Size(c) + 1
<1> DEFINE p == Put(c, m, v)
<1>1. /\ DOMAIN p = DOMAIN c \cup {m}
      /\ p[m].val = v
      /\ p[m].older = (IF m \in DOMAIN c THEN c[m].older ELSE DOMAIN c)
      /\ \A j \in DOMAIN c \ {m} : p[j] = c[j]
      /\ IsMapOver(p, Nonces, Nat)
  BY PutFacts, Zenon DEF CacheOK
<1>2. WellOrdered(p)
  BY PutOrdered, Zenon DEF CacheOK
<1> HIDE DEF p
<1>3. IsFiniteSet(DOMAIN p) /\ Size(p) \in Nat /\ Size(p) <= Size(c) + 1
  <2>1. IsFiniteSet(DOMAIN c)
    BY DEF CacheOK
  <2>2. /\ IsFiniteSet(DOMAIN c \cup {m})
        /\ Cardinality(DOMAIN c \cup {m}) \in Nat
        /\ Cardinality(DOMAIN c \cup {m}) <= Cardinality(DOMAIN c) + 1
    BY <2>1, AddOne
  <2> QED
    BY <1>1, <2>2 DEF Size
<1>4. Size(c) \in Nat
  BY FS_CardinalityType DEF CacheOK, Size
<1>5. CacheOK(p)
  BY <1>1, <1>2, <1>3 DEF CacheOK
<1>6. \A n \in DOMAIN c : Younger(p, n) \subseteq Younger(c, n) \cup {m}
  BY <1>1 DEF Younger
<1> QED
  BY <1>1, <1>3, <1>4, <1>5, <1>6 DEF p

\* A new nonce goes to the end of the cache; an old one leaves its size alone.
LEMMA PutNew ==
    ASSUME NEW c, CacheOK(c), NEW m \in Nonces, NEW v \in Nat, m \notin DOMAIN c
    PROVE  Younger(Put(c, m, v), m) = {}
BY DEF Younger, CacheOK, IsMapOver, Put

LEMMA PutOld ==
    ASSUME NEW c, CacheOK(c), NEW m \in Nonces, NEW v \in Nat, m \in DOMAIN c
    PROVE  Size(Put(c, m, v)) = Size(c)
<1>1. DOMAIN Put(c, m, v) = DOMAIN c
  BY DEF Put
<1> QED
  BY <1>1 DEF Size

\* The eviction brings a cache that is one too large back to the limit; what
\* it removes has all the other entries behind it.
LEMMA BoundedCache ==
    ASSUME NEW c, CacheOK(c), Size(c) <= MaxEntries + 1
    PROVE  /\ CacheOK(Bounded(c))
           /\ Shrunk(Bounded(c), c)
           /\ Size(Bounded(c)) \in Nat
           /\ Size(Bounded(c)) <= Size(c)
           /\ Size(Bounded(c)) <= MaxEntries
           /\ \A n \in DOMAIN c \ DOMAIN Bounded(c) :
                 /\ Size(c) = MaxEntries + 1
                 /\ IsFiniteSet(Younger(c, n))
                 /\ Cardinality(Younger(c, n)) = MaxEntries
<1>1. Size(c) \in Nat
  BY FS_CardinalityType DEF CacheOK, Size
<1>2. CASE Size(c) > MaxEntries
  <2> DEFINE w == Without(c, Oldest(c))
  <2>1. Bounded(c) = w
    BY <1>2 DEF Bounded
  <2>2. /\ CacheOK(w)
        /\ Shrunk(w, c)
        /\ DOMAIN w = DOMAIN c \ Oldest(c)
        /\ Size(w) \in Nat
        /\ Size(c) \in Nat
        /\ Size(w) <= Size(c)
    BY WithoutCache, Zenon
  <2>3. Size(c) = MaxEntries + 1
    BY <1>1, <1>2, LimitsAssumption
  <2>4. DOMAIN c # {}
    BY <2>3, FS_EmptySet, LimitsAssumption DEF Size
  <2>5. Size(w) = Size(c) - 1
    BY <2>4, DropOldestSize, Zenon DEF CacheOK
  <2>6. ASSUME NEW n \in Oldest(c)
        PROVE  /\ IsFiniteSet(Younger(c, n))
               /\ Cardinality(Younger(c, n)) = MaxEntries
    <3>1. Younger(c, n) = DOMAIN c \ {n}
      BY <2>6 DEF Oldest, Younger, CacheOK, WellOrdered
    <3>2. n \in DOMAIN c /\ IsFiniteSet(DOMAIN c)
      BY <2>6 DEF Oldest, CacheOK
    <3> QED
      BY <2>3, <3>1, <3>2, FS_RemoveElement, LimitsAssumption DEF Size
  <2> HIDE DEF w
  <2>7. \A n \in DOMAIN c \ DOMAIN w : n \in Oldest(c)
    BY <2>2
  <2> QED
    BY <2>1, <2>2, <2>3, <2>5, <2>6, <2>7, LimitsAssumption
<1>3. CASE ~(Size(c) > MaxEntries)
  <2>1. Bounded(c) = c
    BY <1>3 DEF Bounded
  <2>2. Shrunk(c, c)
    BY DEF Shrunk
  <2> QED
    BY <1>1, <1>3, <2>1, <2>2, LimitsAssumption
<1> QED
  BY <1>2, <1>3

-----------------------------------------------------------------------------
(* How near to its eviction a nonce is, after k later acceptances.         *)

\* Either at most k entries were inserted after n, or n kept an old place in a
\* cache that was less than half full then and has at most k more entries now.
Near(c, n, k) ==
    \/ Cardinality(Younger(c, n)) <= k
    \/ 2 * Size(c) < MaxEntries + 2 * k

LEMMA YoungerFinite ==
    ASSUME NEW c, CacheOK(c), NEW n
    PROVE  /\ IsFiniteSet(Younger(c, n)) /\ Cardinality(Younger(c, n)) \in Nat
           /\ Size(c) \in Nat
<1>1. Younger(c, n) \in SUBSET DOMAIN c
  BY DEF Younger
<1> QED
  BY <1>1, FS_Subset, FS_CardinalityType DEF CacheOK, Size

LEMMA NearShrunk ==
    ASSUME NEW b, CacheOK(b), NEW c, CacheOK(c), Shrunk(b, c), Size(b) <= Size(c),
           NEW n \in DOMAIN b, NEW k \in Nat, Near(c, n, k)
    PROVE  Near(b, n, k)
<1>1. Younger(b, n) \in SUBSET Younger(c, n)
  BY DEF Shrunk
<1>2. /\ IsFiniteSet(Younger(c, n)) /\ Cardinality(Younger(c, n)) \in Nat
      /\ Size(c) \in Nat
  BY YoungerFinite
<1>3. Cardinality(Younger(b, n)) \in Nat /\ Size(b) \in Nat
  BY YoungerFinite
<1>4. Cardinality(Younger(b, n)) <= Cardinality(Younger(c, n))
  BY <1>1, <1>2, FS_Subset
<1> QED
  BY <1>2, <1>3, <1>4, LimitsAssumption DEF Near

LEMMA NearPut ==
    ASSUME NEW c, CacheOK(c), NEW m \in Nonces, NEW v \in Nat,
           NEW n \in DOMAIN c, NEW k \in Nat, Near(c, n, k)
    PROVE  Near(Put(c, m, v), n, k + 1)
<1> DEFINE p == Put(c, m, v)
<1>1. /\ CacheOK(p)
      /\ DOMAIN p = DOMAIN c \cup {m}
      /\ p[m].val = v
      /\ \A i \in DOMAIN c \ {m} : p[i].val = c[i].val
      /\ \A i \in DOMAIN c : Younger(p, i) \subseteq Younger(c, i) \cup {m}
      /\ Size(c) \in Nat
      /\ Size(p) \in Nat
      /\ Size(p) <= Size(c) + 1
  BY PutCache, Zenon
<1> HIDE DEF p
<1>2. IsFiniteSet(Younger(c, n)) /\ Cardinality(Younger(c, n)) \in Nat
  BY YoungerFinite
<1>3. Cardinality(Younger(p, n)) \in Nat /\ Size(p) \in Nat
  BY <1>1, YoungerFinite
<1>4. Cardinality(Younger(p, n)) <= Cardinality(Younger(c, n)) + 1
  <2>1. /\ IsFiniteSet(Younger(c, n) \cup {m})
        /\ Cardinality(Younger(c, n) \cup {m}) \in Nat
        /\ Cardinality(Younger(c, n) \cup {m}) <= Cardinality(Younger(c, n)) + 1
    BY <1>2, AddOne
  <2>2. Cardinality(Younger(p, n)) <= Cardinality(Younger(c, n) \cup {m})
    BY <1>1, <2>1, FS_Subset
  <2> QED
    BY <1>2, <1>3, <2>1, <2>2
<1>5. Near(p, n, k + 1)
  BY <1>1, <1>2, <1>3, <1>4, LimitsAssumption DEF Near
<1> QED
  BY <1>5 DEF p

LEMMA NearKept ==
    ASSUME NEW c, CacheOK(c), Size(c) <= MaxEntries + 1,
           NEW n \in DOMAIN c, NEW k \in Nat, Near(c, n, k), 2 * k <= MaxEntries
    PROVE  n \in DOMAIN Bounded(c) /\ Near(Bounded(c), n, k)
<1> DEFINE b == Bounded(c)
<1>1. /\ CacheOK(b)
      /\ Shrunk(b, c)
      /\ Size(b) <= Size(c)
      /\ \A i \in DOMAIN c \ DOMAIN b :
            Size(c) = MaxEntries + 1 /\ Cardinality(Younger(c, i)) = MaxEntries
  BY BoundedCache
<1> HIDE DEF b
<1>2. Cardinality(Younger(c, n)) \in Nat /\ Size(c) \in Nat
  BY YoungerFinite
<1>3. n \in DOMAIN b
  <2> SUFFICES ASSUME n \notin DOMAIN b
               PROVE  FALSE
    OBVIOUS
  <2>1. Size(c) = MaxEntries + 1 /\ Cardinality(Younger(c, n)) = MaxEntries
    BY <1>1
  <2> QED
    BY <1>2, <2>1, LimitsAssumption DEF Near
<1>4. Near(b, n, k)
  BY <1>1, <1>3, NearShrunk
<1> QED
  BY <1>3, <1>4 DEF b

-----------------------------------------------------------------------------
(* The inductive invariant.                                                *)

\* A cache entry is the expiry of the last use of its nonce.
EntriesTrue ==
    \A n \in DOMAIN seen :
        lastUse[n] # NotUsed /\ seen[n].val = lastUse[n] + MaxSkew

\* A nonce that must be remembered is in the cache, far enough from eviction.
FarFromEviction ==
    \A n \in Nonces :
        Protected(n) /\ 2 * since[n] <= MaxEntries
            => n \in DOMAIN seen /\ Near(seen, n, since[n])

IInv ==
    /\ TypeOK
    /\ IsFiniteSet(DOMAIN seen)
    /\ CacheBounded
    /\ EntriesTrue
    /\ FarFromEviction
    /\ NoFalseReplay

LEMMA IInvInit == Init => IInv
<1> SUFFICES ASSUME Init
             PROVE  IInv
  OBVIOUS
<1>1. IsMapOver(seen, Nonces, Nat) /\ WellOrdered(seen) /\ DOMAIN seen = {}
  BY DEF Init, EmptyMap, IsMapOver, WellOrdered
<1>2. IsFiniteSet(DOMAIN seen) /\ Size(seen) = 0
  BY <1>1, FS_EmptySet DEF Size
<1>3. reply \in [code : Codes, nonce : Nonces \cup {BadNonce}]
  BY DEF Init, Answer, Codes
<1>4. TypeOK
  BY <1>1, <1>3 DEF Init, TypeOK, NotUsed
<1>5. EntriesTrue /\ FarFromEviction
  BY <1>1 DEF Init, EntriesTrue, FarFromEviction, Protected, NotUsed
<1>6. CacheBounded
  BY <1>2, LimitsAssumption DEF CacheBounded
<1>7. NoFalseReplay
  BY DEF Init, NoFalseReplay, Answer
<1> QED
  BY <1>2, <1>4, <1>5, <1>6, <1>7 DEF IInv

\* A call that leaves the cache alone, or the clock.
LEMMA TickStep ==
    ASSUME IInv, Tick
    PROVE  IInv'
<1>1. /\ UNCHANGED <<required, seen, lastUse, since>>
      /\ now' = now + 1
      /\ reply' = Answer("none", BadNonce)
  BY DEF Tick, history
<1>2. TypeOK'
  BY <1>1 DEF IInv, TypeOK, Answer, Codes
<1>3. IsFiniteSet(DOMAIN seen)' /\ CacheBounded' /\ EntriesTrue'
  BY <1>1 DEF IInv, CacheBounded, EntriesTrue
<1>4. FarFromEviction'
  <2>1. \A n \in Nonces : Protected(n)' => Protected(n)
    BY <1>1, LimitsAssumption DEF IInv, TypeOK, Protected, NotUsed
  <2> QED
    BY <1>1, <2>1 DEF IInv, FarFromEviction, Near, Younger
<1>5. NoFalseReplay'
  BY <1>1 DEF NoFalseReplay, Answer
<1> QED
  BY <1>2, <1>3, <1>4, <1>5 DEF IInv

LEMMA RefusalStep ==
    ASSUME IInv, NEW n \in Nonces \cup {BadNonce}, NEW code \in Codes,
           code # "REQUEST_REPLAYED", reply' = Answer(code, n),
           UNCHANGED <<required, seen, now, history>>
    PROVE  IInv'
<1>1. UNCHANGED <<required, seen, now, lastUse, since>>
  BY DEF history
<1>2. TypeOK'
  BY <1>1 DEF IInv, TypeOK, Answer
<1>3. IsFiniteSet(DOMAIN seen)' /\ CacheBounded' /\ EntriesTrue' /\ FarFromEviction'
  BY <1>1 DEF IInv, CacheBounded, EntriesTrue, FarFromEviction, Protected, Near, Younger
<1>4. NoFalseReplay'
  BY DEF NoFalseReplay, Answer
<1> QED
  BY <1>2, <1>3, <1>4 DEF IInv

\* The cache after the sweep of a call, in a state of the invariant.
LEMMA SweptSeen ==
    ASSUME IInv
    PROVE  /\ CacheOK(seen)
           /\ CacheOK(Sweep(seen, now))
           /\ Shrunk(Sweep(seen, now), seen)
           /\ Size(Sweep(seen, now)) \in Nat
           /\ Size(seen) \in Nat
           /\ Size(Sweep(seen, now)) <= Size(seen)
           /\ \A n \in DOMAIN seen : seen[n].val > now => n \in DOMAIN Sweep(seen, now)
           /\ \A n \in DOMAIN Sweep(seen, now) : seen[n].val <= now =>
                 Sweep(seen, now) = seen /\ 2 * Size(seen) < MaxEntries
<1>1. CacheOK(seen) /\ now \in Nat
  BY DEF IInv, TypeOK, CacheOK
<1>2. /\ CacheOK(Sweep(seen, now))
      /\ Shrunk(Sweep(seen, now), seen)
      /\ Size(Sweep(seen, now)) \in Nat
      /\ Size(seen) \in Nat
      /\ Size(Sweep(seen, now)) <= Size(seen)
      /\ \A n \in DOMAIN seen : seen[n].val > now => n \in DOMAIN Sweep(seen, now)
      /\ \A n \in DOMAIN Sweep(seen, now) : seen[n].val <= now =>
            Sweep(seen, now) = seen /\ 2 * Size(seen) < MaxEntries
  BY <1>1, SweepCache, Zenon
<1> QED
  BY <1>1, <1>2

LEMMA ReplayedStep ==
    ASSUME IInv, NEW p \in Payload, RejectReplayed(p)
    PROVE  IInv'
<1> DEFINE c == Sweep(seen, now)
<1>1. /\ seen' = c
      /\ Known(c, p.nonce, now)
      /\ reply' = Answer("REQUEST_REPLAYED", p.nonce)
      /\ UNCHANGED <<required, now, lastUse, since>>
  BY DEF RejectReplayed, history
<1>2. /\ CacheOK(seen) /\ CacheOK(c)
      /\ Shrunk(c, seen)
      /\ Size(c) \in Nat /\ Size(seen) \in Nat /\ Size(c) <= Size(seen)
      /\ \A n \in DOMAIN seen : seen[n].val > now => n \in DOMAIN c
  BY SweptSeen
<1> HIDE DEF c
<1>3. p.nonce \in Nonces
  BY <1>1, <1>2 DEF Known, CacheOK, IsMapOver
<1>4. TypeOK'
  BY <1>1, <1>2, <1>3 DEF IInv, TypeOK, CacheOK, Answer, Codes
<1>5. IsFiniteSet(DOMAIN seen)' /\ CacheBounded'
  BY <1>1, <1>2, LimitsAssumption DEF IInv, CacheBounded, CacheOK
<1>6. EntriesTrue'
  BY <1>1, <1>2 DEF IInv, EntriesTrue, Shrunk
<1>7. FarFromEviction'
  <2> SUFFICES ASSUME NEW n \in Nonces, Protected(n), 2 * since[n] <= MaxEntries
               PROVE  n \in DOMAIN c /\ Near(c, n, since[n])
    BY <1>1 DEF FarFromEviction, Protected, Near, Younger
  <2>1. n \in DOMAIN seen /\ Near(seen, n, since[n]) /\ since[n] \in Nat
    BY DEF IInv, FarFromEviction, TypeOK
  <2>2. seen[n].val > now
    BY <2>1, LimitsAssumption DEF IInv, EntriesTrue, Protected, TypeOK, NotUsed
  <2>3. n \in DOMAIN c
    BY <1>2, <2>1, <2>2
  <2> QED
    BY <1>2, <2>1, <2>3, NearShrunk
<1>8. NoFalseReplay'
  <2>1. /\ p.nonce \in DOMAIN seen
        /\ seen[p.nonce].val > now
        /\ lastUse[p.nonce] # NotUsed
        /\ seen[p.nonce].val = lastUse[p.nonce] + MaxSkew
    BY <1>1, <1>2 DEF Known, Shrunk, IInv, EntriesTrue
  <2> QED
    BY <1>1, <1>3, <2>1, LimitsAssumption DEF NoFalseReplay, Protected, Answer, IInv, TypeOK, NotUsed
<1> QED
  BY <1>4, <1>5, <1>6, <1>7, <1>8 DEF IInv

\* An accepted nonce is remembered, and pushes the others at most one place
\* nearer to their eviction.
LEMMA AcceptStep ==
    ASSUME IInv, NEW p \in Payload, Accept(p)
    PROVE  IInv'
<1> DEFINE m == p.nonce
           c == Sweep(seen, now)
           q == Put(c, m, now + MaxSkew)
<1>1. /\ m \in Nonces
      /\ ~Known(c, m, now)
      /\ seen' = Bounded(q)
      /\ reply' = Answer("accepted", m)
      /\ lastUse' = [lastUse EXCEPT ![m] = now]
      /\ since' = [n \in Nonces |-> IF n = m THEN 0 ELSE Bump(since[n])]
      /\ UNCHANGED <<required, now>>
  BY DEF Accept, WellFormed, Remember, Payload
<1>2. /\ CacheOK(seen) /\ CacheOK(c)
      /\ Shrunk(c, seen)
      /\ Size(c) \in Nat /\ Size(seen) \in Nat /\ Size(c) <= Size(seen)
      /\ \A n \in DOMAIN seen : seen[n].val > now => n \in DOMAIN c
      /\ \A n \in DOMAIN c : seen[n].val <= now => c = seen /\ 2 * Size(seen) < MaxEntries
  BY SweptSeen
<1>3. /\ now \in Nat
      /\ lastUse \in [Nonces -> Nat \cup {NotUsed}]
      /\ since \in [Nonces -> Nat]
      /\ now + MaxSkew \in Nat
      /\ Size(seen) <= MaxEntries
  BY LimitsAssumption DEF IInv, TypeOK, CacheBounded
<1> HIDE DEF m, c
<1>4. /\ CacheOK(q)
      /\ DOMAIN q = DOMAIN c \cup {m}
      /\ q[m].val = now + MaxSkew
      /\ \A n \in DOMAIN c \ {m} : q[n].val = c[n].val
      /\ \A n \in DOMAIN c : Younger(q, n) \subseteq Younger(c, n) \cup {m}
      /\ Size(c) \in Nat
      /\ Size(q) \in Nat
      /\ Size(q) <= Size(c) + 1
  <2>1. CacheOK(c) /\ m \in Nonces /\ now + MaxSkew \in Nat
    BY <1>1, <1>2, <1>3
  <2> QED
    BY <2>1, PutCache, Zenon
<1>5. Near(q, m, 0)
  <2>1. CASE m \in DOMAIN c
    <3>1. c[m].val = seen[m].val /\ m \in DOMAIN seen
      BY <1>2, <2>1 DEF Shrunk
    <3>2. seen[m].val \in Nat
      BY <1>2, <3>1 DEF CacheOK, IsMapOver
    <3>3. seen[m].val <= now
      BY <1>1, <1>3, <2>1, <3>1, <3>2 DEF Known
    <3>4. c = seen /\ 2 * Size(seen) < MaxEntries
      BY <1>2, <2>1, <3>3
    <3>5. Size(q) = Size(c)
      BY <1>1, <1>2, <1>3, <2>1, PutOld
    <3> QED
      BY <3>4, <3>5, <1>2, LimitsAssumption DEF Near
  <2>2. CASE m \notin DOMAIN c
    <3>1. Younger(q, m) = {}
      BY <1>1, <1>2, <1>3, <2>2, PutNew
    <3> QED
      BY <3>1, FS_EmptySet DEF Near
  <2> QED
    BY <2>1, <2>2
<1> HIDE DEF q
<1>6. Size(q) <= MaxEntries + 1
  BY <1>2, <1>3, <1>4, LimitsAssumption
<1>7. /\ CacheOK(seen')
      /\ Shrunk(seen', q)
      /\ Size(seen') \in Nat
      /\ Size(seen') <= MaxEntries
  BY <1>1, <1>4, <1>6, BoundedCache
<1>8. TypeOK'
  <2>1. lastUse' \in [Nonces -> Nat \cup {NotUsed}]
    BY <1>1, <1>3
  <2>2. \A n \in Nonces : Bump(since[n]) \in Nat
    BY <1>3, LimitsAssumption DEF Bump
  <2>3. since' \in [Nonces -> Nat]
    BY <1>1, <2>2
  <2>4. reply' \in [code : Codes, nonce : Nonces \cup {BadNonce}]
    BY <1>1 DEF Answer, Codes
  <2>5. required' \in BOOLEAN /\ now' \in Nat
    BY <1>1, <1>3 DEF IInv, TypeOK
  <2>6. IsMapOver(seen', Nonces, Nat) /\ WellOrdered(seen')
    BY <1>7 DEF CacheOK
  <2> QED
    BY <2>1, <2>3, <2>4, <2>5, <2>6 DEF TypeOK
<1>9. IsFiniteSet(DOMAIN seen)' /\ CacheBounded'
  BY <1>7 DEF CacheOK, CacheBounded
<1>10. EntriesTrue'
  <2> SUFFICES ASSUME NEW n \in DOMAIN seen'
               PROVE  lastUse'[n] # NotUsed /\ seen'[n].val = lastUse'[n] + MaxSkew
    BY DEF EntriesTrue
  <2>1. n \in DOMAIN q /\ seen'[n].val = q[n].val
    BY <1>7 DEF Shrunk
  <2>2. CASE n = m
    BY <1>1, <1>3, <1>4, <2>1, <2>2 DEF NotUsed
  <2>3. CASE n # m
    <3>1. n \in DOMAIN c /\ q[n].val = c[n].val
      BY <1>4, <2>1, <2>3
    <3>2. n \in DOMAIN seen /\ c[n].val = seen[n].val
      BY <1>2, <3>1 DEF Shrunk
    <3>3. lastUse'[n] = lastUse[n]
      BY <1>1, <1>2, <1>3, <2>3, <3>2 DEF CacheOK, IsMapOver
    <3> QED
      BY <2>1, <3>1, <3>2, <3>3 DEF IInv, EntriesTrue
  <2> QED
    BY <2>2, <2>3
<1>11. FarFromEviction'
  <2> SUFFICES ASSUME NEW n \in Nonces, Protected(n)', 2 * since'[n] <= MaxEntries
               PROVE  n \in DOMAIN seen' /\ Near(seen', n, since'[n])
    BY DEF FarFromEviction, Near, Younger
  <2>1. CASE n = m
    <3>1. since'[n] = 0
      BY <1>1, <2>1
    <3> QED
      BY <1>1, <1>4, <1>5, <1>6, <2>1, <3>1, NearKept, LimitsAssumption
  <2>2. CASE n # m
    <3>1. lastUse'[n] = lastUse[n] /\ since'[n] = Bump(since[n]) /\ since[n] \in Nat
      BY <1>1, <1>3, <2>2
    <3>2. Protected(n)
      BY <1>1, <3>1 DEF Protected
    <3>3. since'[n] = since[n] + 1 /\ 2 * since[n] <= MaxEntries
      BY <3>1, LimitsAssumption DEF Bump
    <3>4. n \in DOMAIN seen /\ Near(seen, n, since[n])
      BY <3>2, <3>3 DEF IInv, FarFromEviction
    <3>5. seen[n].val > now
      BY <1>3, <3>2, <3>4, LimitsAssumption DEF IInv, EntriesTrue, Protected
    <3>6. n \in DOMAIN c
      BY <1>2, <3>4, <3>5
    <3>7. Near(c, n, since[n])
      BY <1>2, <3>1, <3>4, <3>6, NearShrunk
    <3>8. Near(q, n, since[n] + 1)
      BY <1>1, <1>2, <1>3, <3>1, <3>6, <3>7, NearPut DEF q
    <3>9. n \in DOMAIN q /\ since[n] + 1 \in Nat
      BY <1>4, <3>1, <3>6
    <3> QED
      BY <1>1, <1>4, <1>6, <3>3, <3>8, <3>9, NearKept
  <2> QED
    BY <2>1, <2>2
<1>12. NoFalseReplay'
  BY <1>1 DEF NoFalseReplay, Answer
<1> QED
  BY <1>8, <1>9, <1>10, <1>11, <1>12 DEF IInv

LEMMA IInvNext == IInv /\ [Next]_vars => IInv'
<1> SUFFICES ASSUME IInv, [Next]_vars
             PROVE  IInv'
  OBVIOUS
<1>1. CASE UNCHANGED vars
  BY <1>1 DEF vars, history, IInv, TypeOK, CacheBounded, EntriesTrue,
              FarFromEviction, Protected, Near, Younger, NoFalseReplay
<1>2. CASE Tick
  BY <1>2, TickStep
<1>3. ASSUME NEW p \in Payload, AssertFresh(p)
      PROVE  IInv'
  <2>1. p.nonce \in Nonces \cup {BadNonce}
    BY DEF Payload
  <2>2. CASE Skip(p)
    BY <2>1, <2>2, RefusalStep DEF Skip, Codes
  <2>3. CASE RejectNonce(p)
    BY <2>1, <2>3, RefusalStep DEF RejectNonce, Codes
  <2>4. CASE RejectTimestamp(p)
    BY <2>1, <2>4, RefusalStep DEF RejectTimestamp, Codes
  <2>5. CASE RejectExpired(p)
    BY <2>1, <2>5, RefusalStep DEF RejectExpired, Codes
  <2>6. CASE RejectReplayed(p)
    BY <2>6, ReplayedStep
  <2>7. CASE Accept(p)
    BY <2>7, AcceptStep
  <2> QED
    BY <1>3, <2>2, <2>3, <2>4, <2>5, <2>6, <2>7 DEF AssertFresh
<1> QED
  BY <1>1, <1>2, <1>3 DEF Next

LEMMA IInvAlways == Spec => []IInv
BY IInvInit, IInvNext, PTL DEF Spec

-----------------------------------------------------------------------------
(* The theorems.                                                           *)

\* Every variable keeps its type; in particular the cache stays a well-ordered
\* map of expiry times through every sweep, overwrite and eviction.
THEOREM TypeCorrect == Spec => []TypeOK
<1>1. IInv => TypeOK
  BY DEF IInv
<1> QED
  BY <1>1, IInvAlways, PTL

\* One eviction per call is enough: the cache never outgrows
\* REPLAY_CACHE_MAX_ENTRIES, whatever the sweeps leave behind.
THEOREM CacheStaysBounded == Spec => []CacheBounded
<1>1. IInv => CacheBounded
  BY DEF IInv
<1> QED
  BY <1>1, IInvAlways, PTL

\* assertFresh forgets a nonce before its use expires only after accepting
\* more than half the cache's capacity of other nonces.
THEOREM Remembered == Spec => []RememberedUnlessBurst
<1>1. IInv => RememberedUnlessBurst
  <2> SUFFICES ASSUME IInv, NEW n \in Nonces, Protected(n), 2 * since[n] <= MaxEntries
               PROVE  n \in DOMAIN seen /\ seen[n].val = lastUse[n] + MaxSkew
    BY DEF RememberedUnlessBurst
  <2> QED
    BY DEF IInv, FarFromEviction, EntriesTrue
<1> QED
  BY <1>1, IInvAlways, PTL

\* assertFresh answers REQUEST_REPLAYED only for a nonce whose last use has
\* not expired.
THEOREM NoFalseAlarm == Spec => []NoFalseReplay
<1>1. IInv => NoFalseReplay
  BY DEF IInv
<1> QED
  BY <1>1, IInvAlways, PTL

\* assertFresh accepts a nonce again before its last use expired only after a
\* burst of more than half the cache's capacity of other nonces.
THEOREM ReuseNeedsBurst == Spec => NoEarlyReuse
<1> DEFINE Early ==
        reply' # reply /\ reply'.code = "accepted" =>
            LET n == reply'.nonce IN Protected(n) => 2 * since[n] > MaxEntries
<1>1. ASSUME IInv, Next, reply' # reply, reply'.code = "accepted",
             Protected(reply'.nonce)
      PROVE  2 * since[reply'.nonce] > MaxEntries
  <2>1. PICK p \in Payload : Accept(p)
    BY <1>1 DEF Next, Tick, AssertFresh, Skip, RejectNonce, RejectTimestamp,
                RejectExpired, RejectReplayed, Answer
  <2>2. /\ reply'.nonce = p.nonce
        /\ p.nonce \in Nonces
        /\ ~Known(Sweep(seen, now), p.nonce, now)
    BY <2>1 DEF Accept, WellFormed, Payload, Answer
  <2> DEFINE n == p.nonce
  <2>3. SUFFICES ASSUME 2 * since[n] <= MaxEntries
                 PROVE  FALSE
    BY <1>1, <2>2, LimitsAssumption DEF IInv, TypeOK
  <2>4. n \in DOMAIN seen /\ seen[n].val = lastUse[n] + MaxSkew /\ lastUse[n] # NotUsed
    BY <1>1, <2>2, <2>3 DEF IInv, FarFromEviction, EntriesTrue
  <2>5. seen[n].val > now
    BY <1>1, <2>2, <2>4, LimitsAssumption DEF IInv, TypeOK, Protected
  <2>6. /\ CacheOK(seen) /\ CacheOK(Sweep(seen, now))
        /\ Shrunk(Sweep(seen, now), seen)
        /\ \A k \in DOMAIN seen : seen[k].val > now => k \in DOMAIN Sweep(seen, now)
    BY <1>1, SweptSeen
  <2> QED
    BY <2>2, <2>4, <2>5, <2>6 DEF Known, Shrunk
<1>2. IInv /\ [Next]_vars => [Early]_vars
  BY <1>1
<1> QED
  BY <1>2, IInvAlways, PTL DEF Spec, NoEarlyReuse
=============================================================================
