------------------------ MODULE MemoryKvStoreProofs ------------------------
(* Theorems about MemoryKvStore, for every set of keys, values and times   *)
(* to live, and every capacity: its bound, and that it implements KvStore. *)
EXTENDS MemoryKvStore, InsertionMapProofs

Stored == [value : Values, expiresAt : Nat \cup {Forever}]

MapOK(m) == IsMapOver(m, Keys, Stored) /\ WellOrdered(m) /\ IsFiniteSet(DOMAIN m)

\* What is visible in a map at a time.
Seen(m, t) == [k \in DOMAIN m \ ExpiredKeys(m, t) |-> m[k].val]

\* The same without some keys.
SeenBut(m, t, S) == [k \in DOMAIN Seen(m, t) \ S |-> Seen(m, t)[k]]

-----------------------------------------------------------------------------
(* The operations on the map.                                              *)

LEMMA StoredTypes ==
    ASSUME NEW m, MapOK(m), NEW k \in DOMAIN m
    PROVE  /\ k \in Keys
           /\ m[k].val \in Stored
           /\ m[k].val.value \in Values
           /\ m[k].val.expiresAt \in Nat \cup {Forever}
BY DEF MapOK, IsMapOver, Stored

\* Removing keys.
LEMMA RemoveFacts ==
    ASSUME NEW m, MapOK(m), NEW S
    PROVE  /\ MapOK(Without(m, S))
           /\ DOMAIN Without(m, S) = DOMAIN m \ S
           /\ \A k \in DOMAIN m \ S : Without(m, S)[k].val = m[k].val
           /\ Size(Without(m, S)) \in Nat /\ Size(m) \in Nat
           /\ Size(Without(m, S)) <= Size(m)
<1>1. /\ DOMAIN Without(m, S) = DOMAIN m \ S
      /\ \A k \in DOMAIN m \ S :
            /\ Without(m, S)[k].val = m[k].val
            /\ Without(m, S)[k].older = m[k].older \ S
      /\ IsMapOver(Without(m, S), Keys, Stored)
  BY WithoutFacts, Zenon DEF MapOK
<1>2. WellOrdered(Without(m, S))
  BY WithoutOrdered, Zenon DEF MapOK
<1>3. /\ IsFiniteSet(DOMAIN Without(m, S))
      /\ Size(Without(m, S)) \in Nat /\ Size(m) \in Nat
      /\ Size(Without(m, S)) <= Size(m)
  BY WithoutSize, Zenon DEF MapOK
<1> QED
  BY <1>1, <1>2, <1>3, Zenon DEF MapOK

\* A map that lost nothing visible, or some of it.
LEMMA RemoveSeen ==
    ASSUME NEW m, MapOK(m), NEW S, NEW t
    PROVE  Seen(Without(m, S), t) = SeenBut(m, t, S)
<1> DEFINE w == Without(m, S)
<1>1. DOMAIN w = DOMAIN m \ S /\ \A k \in DOMAIN m \ S : w[k].val = m[k].val
  BY RemoveFacts
<1> HIDE DEF w
<1>2. ExpiredKeys(w, t) = ExpiredKeys(m, t) \ S
  BY <1>1 DEF ExpiredKeys
<1>3. DOMAIN w \ ExpiredKeys(w, t) = (DOMAIN m \ ExpiredKeys(m, t)) \ S
  BY <1>1, <1>2
<1>4. Seen(w, t) = SeenBut(m, t, S)
  BY <1>1, <1>3 DEF Seen, SeenBut
<1> QED
  BY <1>4 DEF w

\* The entries that have expired can go unseen.
LEMMA ExpiredUnseen ==
    ASSUME NEW m, MapOK(m), NEW t, NEW S \in SUBSET ExpiredKeys(m, t)
    PROVE  Seen(Without(m, S), t) = Seen(m, t)
<1>1. DOMAIN Seen(m, t) \ S = DOMAIN Seen(m, t)
  BY DEF Seen
<1>2. SeenBut(m, t, S) = Seen(m, t)
  BY <1>1 DEF SeenBut, Seen
<1> QED
  BY <1>2, RemoveSeen, Zenon

\* The entry with fewer than one older is the oldest; none has fewer than zero.
LEMMA EldestFacts ==
    ASSUME NEW m, MapOK(m), NEW n \in Int, n <= 1
    PROVE  /\ n <= 0 => Eldest(m, n) = {}
           /\ n = 1 => Eldest(m, n) = Oldest(m)
<1>1. ASSUME NEW k \in DOMAIN m
      PROVE  /\ Cardinality(m[k].older) \in Nat
             /\ Cardinality(m[k].older) = 0 <=> m[k].older = {}
  <2>1. m[k].older \in SUBSET DOMAIN m /\ IsFiniteSet(DOMAIN m)
    BY DEF MapOK, IsMapOver
  <2>2. IsFiniteSet(m[k].older)
    BY <2>1, FS_Subset
  <2> QED
    BY <2>2, FS_CardinalityType, FS_EmptySet
<1> QED
  BY <1>1 DEF Eldest, Oldest

\* What is visible in e is what is visible in m, but for one entry of at least
\* Capacity ones.
Spared(e, m, t) ==
    \/ Seen(e, t) = Seen(m, t)
    \/ /\ ~(Cardinality(DOMAIN Seen(m, t)) < Capacity)
       /\ \E j \in DOMAIN Seen(m, t) : Seen(e, t) = SeenBut(m, t, {j})

\* Making room in a map that holds no more than it may: the expired entries go
\* and, only if Capacity others are there, one of these.
LEMMA EvictFacts ==
    ASSUME NEW m, MapOK(m), Size(m) <= Capacity, NEW t
    PROVE  /\ MapOK(EvictIfFull(m, t))
           /\ Size(EvictIfFull(m, t)) < Capacity
           /\ Spared(EvictIfFull(m, t), m, t)
<1> DEFINE X == ExpiredKeys(m, t)
           live == Without(m, X)
           n == Size(live) - Capacity + 1
<1>1. Capacity \in Nat \ {0}
  BY CapacityAssumption
<1>2. /\ MapOK(live)
      /\ DOMAIN live = DOMAIN m \ X
      /\ Size(live) \in Nat /\ Size(m) \in Nat
      /\ Size(live) <= Size(m)
  BY RemoveFacts, Zenon
<1>3. DOMAIN Seen(m, t) = DOMAIN live
  BY <1>2 DEF Seen
<1>4. CASE Size(m) < Capacity
  <2>1. EvictIfFull(m, t) = m
    BY <1>4 DEF EvictIfFull
  <2> QED
    BY <1>4, <2>1, Zenon DEF Spared
<1>5. CASE ~(Size(m) < Capacity)
  <2> DEFINE e == Without(live, Eldest(live, n))
  <2>1. EvictIfFull(m, t) = e
    BY <1>5 DEF EvictIfFull
  <2>2. Seen(live, t) = Seen(m, t)
    BY ExpiredUnseen
  <2> HIDE DEF live
  <2>3. n \in Int /\ n <= 1 /\ (Size(live) < Capacity <=> n <= 0)
    BY <1>1, <1>2
  <2> HIDE DEF n
  <2>4. MapOK(e) /\ Size(e) \in Nat /\ Size(e) <= Size(live)
    BY <1>2, RemoveFacts, Zenon
  <2>5. Seen(e, t) = SeenBut(m, t, Eldest(live, n))
    <3>1. Seen(e, t) = SeenBut(live, t, Eldest(live, n))
      BY <1>2, RemoveSeen, Zenon
    <3> QED
      BY <2>2, <3>1, Zenon DEF SeenBut
  <2>6. Size(e) < Capacity /\ Spared(e, m, t)
    <3>1. CASE Size(live) < Capacity
      <4>1. Eldest(live, n) = {}
        BY <1>2, <2>3, <3>1, EldestFacts
      <4>2. Seen(e, t) = Seen(m, t)
        <5>1. SeenBut(m, t, {}) = Seen(m, t)
          BY DEF SeenBut, Seen
        <5> QED
          BY <2>5, <4>1, <5>1, Zenon
      <4>3. Size(e) < Capacity
        BY <1>1, <1>2, <2>4, <3>1
      <4> QED
        BY <4>2, <4>3, Zenon DEF Spared
    <3>2. CASE ~(Size(live) < Capacity)
      <4>1. n = 1
        BY <1>1, <1>2, <2>3, <3>2 DEF n
      <4>2. Eldest(live, n) = Oldest(live)
        BY <1>2, <2>3, <4>1, EldestFacts
      <4>3. DOMAIN live # {}
        BY <1>1, <1>2, <3>2, FS_EmptySet DEF Size
      <4>4. IsMapOver(live, Keys, Stored) /\ WellOrdered(live) /\ IsFiniteSet(DOMAIN live)
        BY <1>2 DEF MapOK
      <4>5. PICK j \in DOMAIN live : Oldest(live) = {j}
        <5>1. Oldest(live) # {}
          BY <4>3, <4>4, OldestExists, Zenon
        <5>2. \A a, b \in Oldest(live) : a = b
          BY <4>4, OldestUnique, Zenon
        <5> QED
          BY <5>1, <5>2 DEF Oldest
      <4>6. Size(e) = Size(live) - 1
        BY <4>2, <4>3, <4>4, DropOldestSize, Zenon
      <4>7. Size(e) < Capacity
        BY <1>1, <1>2, <1>5, <4>6
      <4>8. Seen(e, t) = SeenBut(m, t, {j})
        BY <2>5, <4>2, <4>5, Zenon
      <4>9. ~(Cardinality(DOMAIN Seen(m, t)) < Capacity)
        BY <1>3, <3>2 DEF Size
      <4> QED
        BY <1>3, <4>7, <4>8, <4>9 DEF Spared
    <3> QED
      BY <3>1, <3>2
  <2> QED
    BY <2>1, <2>4, <2>6, Zenon
<1> QED
  BY <1>4, <1>5

\* The port's write of x under k into what is visible, s, losing F; and what it
\* may lose.
WrittenTo(s, k, x, F) ==
    [j \in (DOMAIN s \ F) \cup {k} |-> IF j = k THEN x ELSE s[j]]

LossesOf(s, k) ==
    {{}} \cup (IF Cardinality(DOMAIN s \ {k}) < Capacity THEN {}
              ELSE {{j} : j \in DOMAIN s \ {k}})

\* A new entry is of the right type and has not expired.
LEMMA EntryFacts ==
    ASSUME NEW v \in Values, NEW ttl \in TTLs, NEW t \in Nat
    PROVE  /\ [value |-> v, expiresAt |-> ExpiryAfter(t, ttl)] \in Stored
           /\ ~IsExpired([value |-> v, expiresAt |-> ExpiryAfter(t, ttl)], t)
<1>1. CASE ttl = Forever
  BY <1>1 DEF Stored, ExpiryAfter, IsExpired
<1>2. CASE ttl # Forever
  <2>1. ttl \in Nat /\ t + ttl \in Nat /\ ~(t > t + ttl)
    BY <1>2, TTLAssumption
  <2> QED
    BY <1>2, <2>1 DEF Stored, ExpiryAfter, IsExpired
<1> QED
  BY <1>1, <1>2

\* Putting an entry that has not expired is a write without a loss.
LEMMA PutSeen ==
    ASSUME NEW e, MapOK(e), NEW k \in Keys, NEW x \in Stored, NEW t, ~IsExpired(x, t)
    PROVE  /\ MapOK(Put(e, k, x))
           /\ Seen(Put(e, k, x), t) = WrittenTo(Seen(e, t), k, x, {})
<1> DEFINE p == Put(e, k, x)
<1>1. /\ DOMAIN p = DOMAIN e \cup {k}
      /\ p[k].val = x
      /\ p[k].older = (IF k \in DOMAIN e THEN e[k].older ELSE DOMAIN e)
      /\ \A j \in DOMAIN e \ {k} : p[j] = e[j]
      /\ IsMapOver(p, Keys, Stored)
  BY PutFacts, Zenon DEF MapOK
<1>2. WellOrdered(p)
  BY PutOrdered, Zenon DEF MapOK
<1>3. IsFiniteSet(DOMAIN p)
  <2>1. IsFiniteSet(DOMAIN e)
    BY Zenon DEF MapOK
  <2>2. IsFiniteSet(DOMAIN e \cup {k})
    BY <2>1, AddOne, Zenon
  <2> QED
    BY <1>1, <2>2, Zenon
<1>4. MapOK(p)
  BY <1>1, <1>2, <1>3, Zenon DEF MapOK
<1> HIDE DEF p
<1>5. DOMAIN p \ ExpiredKeys(p, t) = (DOMAIN e \ ExpiredKeys(e, t)) \cup {k}
  BY <1>1 DEF ExpiredKeys
<1>6. \A j \in DOMAIN p : j # k => p[j].val = e[j].val
  BY <1>1
<1>7. Seen(p, t) = WrittenTo(Seen(e, t), k, x, {})
  BY <1>1, <1>5, <1>6 DEF Seen, WrittenTo
<1> QED
  BY <1>4, <1>7, Zenon DEF p

\* write: within the bound, and what the port allows it to do.
LEMMA WriteFacts ==
    ASSUME NEW m, MapOK(m), Size(m) <= Capacity, NEW k \in Keys,
           NEW v \in Values, NEW ttl \in TTLs, NEW t \in Nat
    PROVE  /\ MapOK(Write(m, k, v, ttl, t))
           /\ Size(Write(m, k, v, ttl, t)) <= Capacity
           /\ \E F \in LossesOf(Seen(m, t), k) :
                 Seen(Write(m, k, v, ttl, t), t) =
                    WrittenTo(Seen(m, t), k,
                              [value |-> v, expiresAt |-> ExpiryAfter(t, ttl)], F)
<1> DEFINE x == [value |-> v, expiresAt |-> ExpiryAfter(t, ttl)]
           w == Without(m, {k})
           e == EvictIfFull(w, t)
           s == Seen(m, t)
<1>1. x \in Stored /\ ~IsExpired(x, t)
  BY EntryFacts, Zenon
<1>2. Write(m, k, v, ttl, t) = Put(e, k, x)
  BY DEF Write
<1>3. /\ MapOK(w)
      /\ DOMAIN w = DOMAIN m \ {k}
      /\ Size(w) \in Nat /\ Size(m) \in Nat
      /\ Size(w) <= Size(m)
  BY RemoveFacts, Zenon
<1>4. Seen(w, t) = SeenBut(m, t, {k})
  BY RemoveSeen, Zenon
<1> HIDE DEF x, w
<1>5. Capacity \in Nat
  BY CapacityAssumption
<1>6. Size(w) <= Capacity
  BY <1>3, <1>5
<1>7. MapOK(e) /\ Size(e) < Capacity /\ Spared(e, w, t)
  BY <1>3, <1>6, EvictFacts, Zenon
<1> HIDE DEF e
<1>8. /\ MapOK(Put(e, k, x))
      /\ Seen(Put(e, k, x), t) = WrittenTo(Seen(e, t), k, x, {})
  BY <1>1, <1>7, PutSeen, Zenon
<1>9. Size(Put(e, k, x)) <= Capacity
  <2>1. DOMAIN Put(e, k, x) = DOMAIN e \cup {k}
    BY DEF Put
  <2>2. IsFiniteSet(DOMAIN e)
    BY <1>7, Zenon DEF MapOK
  <2>3. /\ Cardinality(DOMAIN e \cup {k}) \in Nat
        /\ Cardinality(DOMAIN e \cup {k}) <= Cardinality(DOMAIN e) + 1
    BY <2>2, AddOne, Zenon
  <2>4. Cardinality(DOMAIN e) \in Nat
    BY <2>2, FS_CardinalityType, Zenon
  <2> QED
    BY <1>5, <1>7, <2>1, <2>3, <2>4 DEF Size
<1>10. \E F \in LossesOf(s, k) : Seen(Put(e, k, x), t) = WrittenTo(s, k, x, F)
  <2> HIDE DEF s
  <2>1. DOMAIN Seen(w, t) = DOMAIN s \ {k} /\ \A j \in DOMAIN s \ {k} : Seen(w, t)[j] = s[j]
    BY <1>4 DEF SeenBut, s
  <2>2. CASE Seen(e, t) = Seen(w, t)
    <3>1. WrittenTo(Seen(w, t), k, x, {}) = WrittenTo(s, k, x, {})
      BY <2>1 DEF WrittenTo
    <3>2. {} \in LossesOf(s, k)
      BY DEF LossesOf
    <3> QED
      BY <1>8, <2>2, <3>1, <3>2, Zenon
  <2>3. CASE Seen(e, t) # Seen(w, t)
    <3>1. PICK j \in DOMAIN Seen(w, t) : Seen(e, t) = SeenBut(w, t, {j})
      BY <1>7, <2>3, Zenon DEF Spared
    <3>2. ~(Cardinality(DOMAIN s \ {k}) < Capacity)
      BY <1>7, <2>1, <2>3, Zenon DEF Spared
    <3>3. {j} \in LossesOf(s, k)
      BY <2>1, <3>2 DEF LossesOf
    <3>4. WrittenTo(SeenBut(w, t, {j}), k, x, {}) = WrittenTo(s, k, x, {j})
      <4>1. /\ DOMAIN SeenBut(w, t, {j}) = (DOMAIN s \ {k}) \ {j}
            /\ \A i \in (DOMAIN s \ {k}) \ {j} : SeenBut(w, t, {j})[i] = s[i]
        BY <2>1 DEF SeenBut
      <4> HIDE DEF s
      <4>2. (DOMAIN SeenBut(w, t, {j}) \ {}) \cup {k} = (DOMAIN s \ {j}) \cup {k}
        BY <2>1, <4>1
      <4> QED
        BY <4>1, <4>2 DEF WrittenTo
    <3> QED
      BY <1>8, <3>1, <3>3, <3>4, Zenon
  <2> QED
    BY <2>2, <2>3
<1> QED
  BY <1>2, <1>8, <1>9, <1>10, Zenon DEF x

\* A read leaves what is visible, and nothing new.
LEMMA LookupFacts ==
    ASSUME NEW m, MapOK(m), Size(m) <= Capacity, NEW k, NEW t
    PROVE  /\ MapOK(AfterLookup(m, k, t))
           /\ Size(AfterLookup(m, k, t)) <= Capacity
           /\ Seen(AfterLookup(m, k, t), t) = Seen(m, t)
<1> DEFINE S == {k} \cap ExpiredKeys(m, t)
<1>1. S \in SUBSET ExpiredKeys(m, t)
  OBVIOUS
<1>2. AfterLookup(m, k, t) = Without(m, S)
  BY DEF AfterLookup
<1> HIDE DEF S
<1>3. /\ MapOK(Without(m, S))
      /\ DOMAIN Without(m, S) = DOMAIN m \ S
      /\ \A i \in DOMAIN m \ S : Without(m, S)[i].val = m[i].val
      /\ Size(Without(m, S)) \in Nat /\ Size(m) \in Nat
      /\ Size(Without(m, S)) <= Size(m)
  BY RemoveFacts, Zenon
<1>4. Seen(Without(m, S), t) = Seen(m, t)
  BY <1>1, ExpiredUnseen, Zenon
<1>5. Size(Without(m, S)) <= Capacity
  BY <1>3, CapacityAssumption
<1> QED
  BY <1>2, <1>3, <1>4, <1>5, Zenon

\* A write that looks first.
LEMMA SetIfAbsentFacts ==
    ASSUME NEW m, MapOK(m), Size(m) <= Capacity, NEW k \in Keys,
           NEW v \in Values, NEW ttl \in TTLs, NEW t \in Nat
    PROVE  /\ MapOK(AfterSetIfAbsent(m, k, v, ttl, t))
           /\ Size(AfterSetIfAbsent(m, k, v, ttl, t)) <= Capacity
           /\ Lookup(m, k, t) # Null =>
                 Seen(AfterSetIfAbsent(m, k, v, ttl, t), t) = Seen(m, t)
           /\ Lookup(m, k, t) = Null =>
                 \E F \in LossesOf(Seen(m, t), k) :
                    Seen(AfterSetIfAbsent(m, k, v, ttl, t), t) =
                       WrittenTo(Seen(m, t), k,
                                 [value |-> v, expiresAt |-> ExpiryAfter(t, ttl)], F)
<1> DEFINE l == AfterLookup(m, k, t)
<1>1. MapOK(l) /\ Size(l) <= Capacity /\ Seen(l, t) = Seen(m, t)
  BY LookupFacts, Zenon
<1>2. CASE Lookup(m, k, t) # Null
  BY <1>1, <1>2, Zenon DEF AfterSetIfAbsent
<1>3. CASE Lookup(m, k, t) = Null
  <2>1. AfterSetIfAbsent(m, k, v, ttl, t) = Write(l, k, v, ttl, t)
    BY <1>3, Zenon DEF AfterSetIfAbsent
  <2> HIDE DEF l
  <2>2. /\ MapOK(Write(l, k, v, ttl, t))
        /\ Size(Write(l, k, v, ttl, t)) <= Capacity
        /\ \E F \in LossesOf(Seen(l, t), k) :
              Seen(Write(l, k, v, ttl, t), t) =
                 WrittenTo(Seen(l, t), k,
                           [value |-> v, expiresAt |-> ExpiryAfter(t, ttl)], F)
    BY <1>1, WriteFacts, Zenon
  <2> QED
    BY <1>1, <1>3, <2>1, <2>2, Zenon
<1> QED
  BY <1>2, <1>3

-----------------------------------------------------------------------------
(* The invariant.                                                          *)

IInv ==
    /\ MapOK(entries)
    /\ Size(entries) <= Capacity
    /\ now \in Nat

LEMMA InitIInv == Init => IInv
<1> SUFFICES ASSUME Init PROVE IInv
  OBVIOUS
<1>1. DOMAIN entries = {} /\ entries = [k \in DOMAIN entries |-> entries[k]]
  BY DEF Init, EmptyMap
<1>2. IsFiniteSet(DOMAIN entries) /\ Cardinality(DOMAIN entries) = 0
  BY <1>1, FS_EmptySet
<1>3. MapOK(entries)
  BY <1>1, <1>2 DEF MapOK, IsMapOver, WellOrdered
<1>4. Size(entries) <= Capacity
  BY <1>2, CapacityAssumption DEF Size
<1> QED
  BY <1>3, <1>4 DEF IInv, Init

LEMMA NextIInv == IInv /\ [Next]_vars => IInv'
<1> SUFFICES ASSUME IInv, [Next]_vars
             PROVE  IInv'
  OBVIOUS
<1>1. MapOK(entries) /\ Size(entries) <= Capacity /\ now \in Nat
  BY Zenon DEF IInv
<1>2. CASE Tick
  BY <1>1, <1>2 DEF Tick, IInv
<1>3. CASE \E k \in Keys : Get(k)
  <2>1. PICK k \in Keys : Get(k)
    BY <1>3, Zenon
  <2>2. MapOK(AfterGet(entries, k, now)) /\ Size(AfterGet(entries, k, now)) <= Capacity
    BY <1>1, LookupFacts, Zenon DEF AfterGet
  <2> QED
    BY <1>1, <2>1, <2>2 DEF Get, IInv
<1>4. CASE \E k \in Keys : GetDelete(k) \/ Delete(k)
  <2>1. PICK k \in Keys : entries' = AfterDelete(entries, k) /\ now' = now
    BY <1>4, Zenon DEF GetDelete, Delete
  <2>2. /\ MapOK(Without(entries, {k}))
        /\ DOMAIN Without(entries, {k}) = DOMAIN entries \ {k}
        /\ \A i \in DOMAIN entries \ {k} : Without(entries, {k})[i].val = entries[i].val
        /\ Size(Without(entries, {k})) \in Nat /\ Size(entries) \in Nat
        /\ Size(Without(entries, {k})) <= Size(entries)
    BY <1>1, RemoveFacts, Zenon
  <2>3. Size(Without(entries, {k})) <= Capacity
    BY <1>1, <2>2, CapacityAssumption
  <2> QED
    BY <1>1, <2>1, <2>2, <2>3 DEF AfterDelete, IInv
<1>5. CASE \E k \in Keys, v \in Values, ttl \in TTLs : Set(k, v, ttl)
  <2>1. PICK k \in Keys, v \in Values, ttl \in TTLs : Set(k, v, ttl)
    BY <1>5, Zenon
  <2>2. entries' = Write(entries, k, v, ttl, now) /\ now' = now
    BY <2>1, Zenon DEF Set, AfterSet
  <2>3. /\ MapOK(Write(entries, k, v, ttl, now))
        /\ Size(Write(entries, k, v, ttl, now)) <= Capacity
    BY <1>1, WriteFacts, Zenon
  <2> QED
    BY <1>1, <2>2, <2>3 DEF IInv
<1>6. CASE \E k \in Keys, v \in Values, ttl \in TTLs : SetIfAbsent(k, v, ttl)
  <2>1. PICK k \in Keys, v \in Values, ttl \in TTLs : SetIfAbsent(k, v, ttl)
    BY <1>6, Zenon
  <2>2. entries' = AfterSetIfAbsent(entries, k, v, ttl, now) /\ now' = now
    BY <2>1, Zenon DEF SetIfAbsent
  <2>3. /\ MapOK(AfterSetIfAbsent(entries, k, v, ttl, now))
        /\ Size(AfterSetIfAbsent(entries, k, v, ttl, now)) <= Capacity
    BY <1>1, SetIfAbsentFacts, Zenon
  <2> QED
    BY <1>1, <2>2, <2>3 DEF IInv
<1>7. CASE UNCHANGED vars
  BY <1>1, <1>7 DEF vars, IInv
<1> QED
  BY <1>2, <1>3, <1>4, <1>5, <1>6, <1>7, Zenon DEF Next

LEMMA InvariantHolds == Spec => []IInv
<1> QED
  BY InitIInv, NextIInv, PTL DEF Spec

\* Types of the variables, in every reachable state; the Map is well ordered.
THEOREM TypeCorrect == Spec => []TypeOK
<1>1. IInv => TypeOK
  BY DEF IInv, MapOK, TypeOK, Stored
<1> QED
  BY <1>1, InvariantHolds, PTL

\* However many keys are written, and however long their entries live, the store
\* never holds more than maxEntries entries.
THEOREM StoreStaysBounded == Spec => []StoreBounded
<1>1. IInv => StoreBounded
  BY DEF IInv, StoreBounded
<1> QED
  BY <1>1, InvariantHolds, PTL

-----------------------------------------------------------------------------
(* The refinement.                                                         *)

\* The port counts as the store does.
LEMMA PortCardinality == \A S : Port!Cardinality(S) = Cardinality(S)
BY Zenon DEF Port!Cardinality, Cardinality

\* What the port sees, in terms of the operators above.
LEMMA PortTerms ==
    ASSUME NEW k, IInv
    PROVE  /\ Visible = Seen(entries, now)
           /\ Port!Losses(k) = LossesOf(Visible, k)
           /\ \A x, F : Port!Stored(k, x, F) = WrittenTo(Visible, k, x, F)
           /\ \A v, ttl : Port!Entry(v, ttl) =
                             [value |-> v, expiresAt |-> ExpiryAfter(now, ttl)]
           /\ Port!Value(k) = Lookup(entries, k, now)
           /\ Port!Remaining({k}) = SeenBut(entries, now, {k})
<1>1. Visible = Seen(entries, now)
  BY DEF Visible, Seen
<1>2. Port!Losses(k) = LossesOf(Visible, k)
  BY PortCardinality DEF Port!Losses, LossesOf
<1>3. \A x, F : Port!Stored(k, x, F) = WrittenTo(Visible, k, x, F)
  BY DEF Port!Stored, WrittenTo
<1>4. \A v, ttl : Port!Entry(v, ttl) = [value |-> v, expiresAt |-> ExpiryAfter(now, ttl)]
  BY DEF Port!Entry, ExpiryAfter
<1>5. Port!Value(k) = Lookup(entries, k, now)
  BY DEF Port!Value, Lookup, Visible, ExpiredKeys
<1>6. Port!Remaining({k}) = SeenBut(entries, now, {k})
  BY <1>1 DEF Port!Remaining, SeenBut
<1> QED
  BY <1>1, <1>2, <1>3, <1>4, <1>5, <1>6, Zenon

LEMMA VisibleNext == Visible' = Seen(entries', now')
BY DEF Visible, Seen, ExpiredKeys

LEMMA PortInit == Init => Port!Init
<1> SUFFICES ASSUME Init PROVE Port!Init
  OBVIOUS
<1>1. Visible = [k \in {} |-> k]
  BY DEF Init, EmptyMap, Visible, ExpiredKeys
<1> QED
  BY <1>1 DEF Init, Port!Init, Port!Nothing, Port!Returned, Returned

\* Every step of the store is one that the port allows.
LEMMA PortStep == IInv /\ [Next]_vars => [Port!Next]_(Port!kvars)
<1> SUFFICES ASSUME IInv, [Next]_vars
             PROVE  Port!Next \/ UNCHANGED Port!kvars
  BY Zenon
<1>1. MapOK(entries) /\ Size(entries) <= Capacity /\ now \in Nat
  BY Zenon DEF IInv
<1>2. Visible = Seen(entries, now)
  BY PortTerms, Zenon
<1>3. CASE Tick
  <2>1. now < MaxNow /\ now' = now + 1 /\ entries' = entries /\ result' = Returned(Null, Null)
    BY <1>3, Zenon DEF Tick
  <2> DEFINE E == {j \in DOMAIN Visible : Visible[j].expiresAt # Forever /\ now' > Visible[j].expiresAt}
  <2>2. DOMAIN entries \ ExpiredKeys(entries, now') = DOMAIN Visible \ E
    <3> SUFFICES ASSUME NEW j \in DOMAIN entries
                 PROVE  j \in ExpiredKeys(entries, now')
                           <=> j \in ExpiredKeys(entries, now) \/ j \in E
      BY <1>2 DEF Seen
    <3> DEFINE x == entries[j].val.expiresAt
    <3>1. x \in Nat \cup {Forever}
      BY <1>1, StoredTypes, Zenon
    <3>2. \A t : j \in ExpiredKeys(entries, t) <=> x # Forever /\ t > x
      BY DEF ExpiredKeys, IsExpired
    <3>3. j \in DOMAIN Visible <=> j \notin ExpiredKeys(entries, now)
      BY <1>2 DEF Seen
    <3>4. j \in DOMAIN Visible => Visible[j].expiresAt = x
      BY <1>2 DEF Seen
    <3>5. j \in E <=> j \in DOMAIN Visible /\ x # Forever /\ now' > x
      BY <3>4
    <3>6. x # Forever /\ now > x => now' > x
      <4> SUFFICES ASSUME x # Forever, now > x PROVE now' > x
        OBVIOUS
      <4>1. x \in Nat
        BY <3>1
      <4> HIDE DEF x
      <4> QED
        BY <1>1, <2>1, <4>1
    <3> HIDE DEF x, E
    <3> QED
      BY <3>2, <3>3, <3>5, <3>6, Zenon
  <2>3. Visible' = Port!Remaining(E)
    <3>1. Visible' = Seen(entries, now')
      BY <2>1, VisibleNext, Zenon
    <3>2. \A j \in DOMAIN Visible \ E : Visible[j] = entries[j].val
      BY <1>2 DEF Seen
    <3> HIDE DEF E
    <3> QED
      BY <2>2, <3>1, <3>2 DEF Seen, Port!Remaining
  <2>4. Port!Tick
    BY <2>1, <2>3 DEF Port!Tick, Port!Nothing, Port!Returned, Returned
  <2> QED
    BY <2>4, Zenon DEF Port!Next
<1>4. CASE \E k \in Keys : Get(k)
  <2>1. PICK k \in Keys : Get(k)
    BY <1>4, Zenon
  <2>2. /\ result' = Returned(k, Lookup(entries, k, now))
        /\ entries' = AfterLookup(entries, k, now)
        /\ now' = now
    BY <2>1, Zenon DEF Get, AfterGet
  <2>3. Visible' = Visible
    <3>1. Seen(AfterLookup(entries, k, now), now) = Seen(entries, now)
      BY <1>1, LookupFacts, Zenon
    <3> QED
      BY <1>2, <2>2, <3>1, VisibleNext, Zenon
  <2>4. Port!Value(k) = Lookup(entries, k, now)
    BY PortTerms, Zenon
  <2>5. Port!Get(k)
    BY <2>2, <2>3, <2>4 DEF Port!Get, Port!Returned, Returned
  <2> QED
    BY <2>5, Zenon DEF Port!Next
<1>5. CASE \E k \in Keys : GetDelete(k) \/ Delete(k)
  <2>1. PICK k \in Keys : GetDelete(k) \/ Delete(k)
    BY <1>5, Zenon
  <2>2. entries' = Without(entries, {k}) /\ now' = now
    BY <2>1, Zenon DEF GetDelete, Delete, AfterDelete
  <2>3. Visible' = Port!Remaining({k})
    <3>1. Seen(Without(entries, {k}), now) = SeenBut(entries, now, {k})
      BY <1>1, RemoveSeen, Zenon
    <3>2. Port!Remaining({k}) = SeenBut(entries, now, {k})
      BY PortTerms, Zenon
    <3> QED
      BY <2>2, <3>1, <3>2, VisibleNext, Zenon
  <2>4. CASE GetDelete(k)
    <3>1. Port!Value(k) = Lookup(entries, k, now)
      BY PortTerms, Zenon
    <3>2. Port!GetDelete(k)
      BY <2>2, <2>3, <2>4, <3>1 DEF GetDelete, Port!GetDelete, Port!Returned, Returned
    <3> QED
      BY <3>2, Zenon DEF Port!Next
  <2>5. CASE Delete(k)
    <3>1. k \in DOMAIN Visible => k \in DOMAIN entries
      BY <1>2 DEF Seen
    <3>2. result' = Returned(k, Truth(k \in DOMAIN entries))
      BY <2>5, Zenon DEF Delete
    <3>3. ASSUME k \in DOMAIN entries PROVE Port!Delete(k)
      <4>1. result' = Port!Returned(k, Port!Truth(TRUE))
        BY <3>2, <3>3 DEF Port!Returned, Returned, Port!Truth, Truth
      <4>2. TRUE \in BOOLEAN /\ (k \in DOMAIN Visible => TRUE)
        OBVIOUS
      <4> QED
        BY <2>2, <2>3, <4>1, <4>2, Zenon DEF Port!Delete
    <3>4. ASSUME k \notin DOMAIN entries PROVE Port!Delete(k)
      <4>1. result' = Port!Returned(k, Port!Truth(FALSE))
        BY <3>2, <3>4 DEF Port!Returned, Returned, Port!Truth, Truth
      <4>2. FALSE \in BOOLEAN /\ (k \in DOMAIN Visible => FALSE)
        BY <3>1, <3>4
      <4> QED
        BY <2>2, <2>3, <4>1, <4>2, Zenon DEF Port!Delete
    <3>5. Port!Delete(k)
      BY <3>3, <3>4
    <3> QED
      BY <3>5, Zenon DEF Port!Next
  <2> QED
    BY <2>1, <2>4, <2>5
<1>6. CASE \E k \in Keys, v \in Values, ttl \in TTLs : Set(k, v, ttl)
  <2>1. PICK k \in Keys, v \in Values, ttl \in TTLs : Set(k, v, ttl)
    BY <1>6, Zenon
  <2>2. /\ result' = Returned(k, "stored")
        /\ entries' = Write(entries, k, v, ttl, now)
        /\ now' = now
    BY <2>1, Zenon DEF Set, AfterSet
  <2> DEFINE x == [value |-> v, expiresAt |-> ExpiryAfter(now, ttl)]
  <2>3. PICK F \in LossesOf(Seen(entries, now), k) :
           Seen(Write(entries, k, v, ttl, now), now) =
              WrittenTo(Seen(entries, now), k, x, F)
    BY <1>1, WriteFacts, Zenon
  <2>4. /\ Port!Losses(k) = LossesOf(Visible, k)
        /\ Port!Stored(k, x, F) = WrittenTo(Visible, k, x, F)
        /\ Port!Entry(v, ttl) = x
    BY PortTerms, Zenon
  <2> HIDE DEF x
  <2>5. F \in Port!Losses(k) /\ Visible' = Port!Stored(k, Port!Entry(v, ttl), F)
    BY <1>2, <2>2, <2>3, <2>4, VisibleNext, Zenon
  <2>6. Port!Set(k, v, ttl)
    BY <2>2, <2>5, Zenon DEF Port!Set, Port!Returned, Returned
  <2> QED
    BY <2>6, Zenon DEF Port!Next
<1>7. CASE \E k \in Keys, v \in Values, ttl \in TTLs : SetIfAbsent(k, v, ttl)
  <2>1. PICK k \in Keys, v \in Values, ttl \in TTLs : SetIfAbsent(k, v, ttl)
    BY <1>7, Zenon
  <2>2. /\ result' = Returned(k, Truth(Lookup(entries, k, now) = Null))
        /\ entries' = AfterSetIfAbsent(entries, k, v, ttl, now)
        /\ now' = now
    BY <2>1, Zenon DEF SetIfAbsent
  <2> DEFINE x == [value |-> v, expiresAt |-> ExpiryAfter(now, ttl)]
  <2>3. /\ Lookup(entries, k, now) # Null =>
              Seen(AfterSetIfAbsent(entries, k, v, ttl, now), now) = Seen(entries, now)
        /\ Lookup(entries, k, now) = Null =>
              \E F \in LossesOf(Seen(entries, now), k) :
                 Seen(AfterSetIfAbsent(entries, k, v, ttl, now), now) =
                    WrittenTo(Seen(entries, now), k, x, F)
    BY <1>1, SetIfAbsentFacts, Zenon
  <2>4. /\ Port!Losses(k) = LossesOf(Visible, k)
        /\ \A F : Port!Stored(k, x, F) = WrittenTo(Visible, k, x, F)
        /\ Port!Entry(v, ttl) = x
        /\ Port!Value(k) = Lookup(entries, k, now)
    BY PortTerms, Zenon
  <2> HIDE DEF x
  <2>5. CASE Lookup(entries, k, now) # Null
    <3>1. Visible' = Visible
      BY <1>2, <2>2, <2>3, <2>5, VisibleNext, Zenon
    <3>2. result' = Port!Returned(k, Port!Truth(FALSE))
      BY <2>2, <2>5 DEF Port!Returned, Returned, Port!Truth, Truth
    <3>3. Port!SetIfAbsent(k, v, ttl)
      BY <2>2, <2>4, <2>5, <3>1, <3>2 DEF Port!SetIfAbsent
    <3> QED
      BY <3>3, Zenon DEF Port!Next
  <2>6. CASE Lookup(entries, k, now) = Null
    <3>1. \E F \in Port!Losses(k) : Visible' = Port!Stored(k, Port!Entry(v, ttl), F)
      BY <1>2, <2>2, <2>3, <2>4, <2>6, VisibleNext, Zenon
    <3>2. result' = Port!Returned(k, Port!Truth(TRUE))
      BY <2>2, <2>6 DEF Port!Returned, Returned, Port!Truth, Truth
    <3>3. Port!SetIfAbsent(k, v, ttl)
      BY <2>2, <2>4, <2>6, <3>1, <3>2, Zenon DEF Port!SetIfAbsent
    <3> QED
      BY <3>3, Zenon DEF Port!Next
  <2> QED
    BY <2>5, <2>6
<1>8. CASE UNCHANGED vars
  <2>1. entries' = entries /\ now' = now /\ result' = result
    BY <1>8, Zenon DEF vars
  <2>2. Visible' = Visible
    BY <1>2, <2>1, VisibleNext, Zenon
  <2> QED
    BY <2>1, <2>2 DEF Port!kvars
<1> QED
  BY <1>3, <1>4, <1>5, <1>6, <1>7, <1>8, Zenon DEF Next

\* MemoryKvStore keeps the promise of the port, for every capacity, every set of
\* keys and values and every time to live: an entry that has not expired is only
\* lost to a write that finds Capacity other such entries.
THEOREM ImplementsKvStore == Spec => ImplementsPort
<1> QED
  BY InvariantHolds, PortInit, PortStep, PTL DEF Spec, ImplementsPort, Port!Spec
=============================================================================
