------------------------- MODULE AttestationProofs -------------------------
(* Theorems about Attestation, for every number of requests, challenges,   *)
(* devices and keys, both stores, every capacity and every length of run.  *)
EXTENDS Attestation, InsertionMapProofs, SequenceTheorems

Slots == Challenges \cup Devices
Contents == [value : Purposes \cup DeviceKeys, expiresAt : Nat \cup {Forever}]

MapOK(m) == IsMapOver(m, Slots, Contents) /\ WellOrdered(m)

\* Outside S, e has nothing that m has not.
Kept(m, e, S) == \A j \in DOMAIN e \ S : j \in DOMAIN m /\ e[j].val = m[j].val

-----------------------------------------------------------------------------
(* The commands of the store.                                              *)

\* Removing keys.
LEMMA WithoutKept ==
    ASSUME NEW m, MapOK(m), NEW S
    PROVE  /\ MapOK(Without(m, S))
           /\ DOMAIN Without(m, S) = DOMAIN m \ S
           /\ Kept(m, Without(m, S), {})
<1>1. /\ DOMAIN Without(m, S) = DOMAIN m \ S
      /\ \A k \in DOMAIN m \ S :
            /\ Without(m, S)[k].val = m[k].val
            /\ Without(m, S)[k].older = m[k].older \ S
      /\ IsMapOver(Without(m, S), Slots, Contents)
  BY WithoutFacts, Zenon DEF MapOK
<1>2. WellOrdered(Without(m, S))
  BY WithoutOrdered, Zenon DEF MapOK
<1>3. Kept(m, Without(m, S), {})
  BY <1>1 DEF Kept
<1> QED
  BY <1>1, <1>2, <1>3, Zenon DEF MapOK

\* Making room.
LEMMA EvictKept ==
    ASSUME NEW m, MapOK(m), NEW t
    PROVE  /\ MapOK(EvictIfFull(m, t))
           /\ Kept(m, EvictIfFull(m, t), {})
<1>1. CASE Size(m) < Capacity
  BY <1>1 DEF EvictIfFull, Kept
<1>2. CASE ~(Size(m) < Capacity)
  <2> DEFINE live == Without(m, ExpiredKeys(m, t))
             E == Eldest(live, Size(live) - Capacity + 1)
  <2>1. EvictIfFull(m, t) = Without(live, E)
    BY <1>2, Zenon DEF EvictIfFull
  <2>2. MapOK(live) /\ Kept(m, live, {})
    BY WithoutKept, Zenon
  <2> HIDE DEF live, E
  <2>3. MapOK(Without(live, E)) /\ Kept(live, Without(live, E), {})
    BY <2>2, WithoutKept, Zenon
  <2>4. Kept(m, Without(live, E), {})
    BY <2>2, <2>3 DEF Kept
  <2> QED
    BY <2>1, <2>3, <2>4, Zenon
<1> QED
  BY <1>1, <1>2

\* Setting a key.
LEMMA PutKept ==
    ASSUME NEW m, MapOK(m), NEW k \in Slots, NEW x \in Contents
    PROVE  /\ MapOK(Put(m, k, x))
           /\ DOMAIN Put(m, k, x) = DOMAIN m \cup {k}
           /\ Put(m, k, x)[k].val = x
           /\ Kept(m, Put(m, k, x), {k})
<1>1. /\ DOMAIN Put(m, k, x) = DOMAIN m \cup {k}
      /\ Put(m, k, x)[k].val = x
      /\ Put(m, k, x)[k].older = (IF k \in DOMAIN m THEN m[k].older ELSE DOMAIN m)
      /\ \A j \in DOMAIN m \ {k} : Put(m, k, x)[j] = m[j]
      /\ IsMapOver(Put(m, k, x), Slots, Contents)
  BY PutFacts, Zenon DEF MapOK
<1>2. WellOrdered(Put(m, k, x))
  BY PutOrdered, Zenon DEF MapOK
<1>3. Kept(m, Put(m, k, x), {k})
  BY <1>1 DEF Kept
<1> QED
  BY <1>1, <1>2, <1>3, Zenon DEF MapOK

\* The set of a store, whichever it is, on a map m that it holds.
SetOn(m, k, v, ttl) ==
    IF store = "memory" THEN Write(m, k, v, ttl, now)
    ELSE Put(Without(m, {k}), k, [value |-> v, expiresAt |-> ExpiryAfter(now, ttl)])

LEMMA SetKept ==
    ASSUME NEW m, MapOK(m), now \in Nat, NEW k \in Slots,
           NEW v \in Purposes \cup DeviceKeys, NEW ttl \in Nat \cup {Forever}
    PROVE  /\ MapOK(SetOn(m, k, v, ttl))
           /\ k \in DOMAIN SetOn(m, k, v, ttl)
           /\ SetOn(m, k, v, ttl)[k].val =
                 [value |-> v, expiresAt |-> ExpiryAfter(now, ttl)]
           /\ Kept(m, SetOn(m, k, v, ttl), {k})
           /\ store # "memory" => DOMAIN m \subseteq DOMAIN SetOn(m, k, v, ttl)
<1> DEFINE x == [value |-> v, expiresAt |-> ExpiryAfter(now, ttl)]
           w == Without(m, {k})
           e == IF store = "memory" THEN EvictIfFull(w, now) ELSE w
<1>1. x \in Contents
  <2>1. ExpiryAfter(now, ttl) \in Nat \cup {Forever}
    BY DEF ExpiryAfter
  <2> QED
    BY <2>1 DEF Contents
<1>2. SetOn(m, k, v, ttl) = Put(e, k, x)
  BY Zenon DEF SetOn, Write
<1> HIDE DEF x
<1>3. /\ MapOK(w)
      /\ DOMAIN w = DOMAIN m \ {k}
      /\ Kept(m, w, {})
  BY WithoutKept, Zenon
<1>4. MapOK(e) /\ Kept(w, e, {}) /\ (store # "memory" => e = w)
  <2> HIDE DEF w
  <2>1. CASE store = "memory"
    BY <1>3, <2>1, EvictKept, Zenon
  <2>2. CASE store # "memory"
    BY <1>3, <2>2 DEF Kept
  <2> QED
    BY <2>1, <2>2
<1> HIDE DEF w, e
<1>5. /\ MapOK(Put(e, k, x))
      /\ DOMAIN Put(e, k, x) = DOMAIN e \cup {k}
      /\ Put(e, k, x)[k].val = x
      /\ Kept(e, Put(e, k, x), {k})
  BY <1>1, <1>4, PutKept, Zenon
<1>6. Kept(m, Put(e, k, x), {k})
  BY <1>3, <1>4, <1>5 DEF Kept
<1>7. store # "memory" => DOMAIN m \subseteq DOMAIN Put(e, k, x)
  BY <1>3, <1>4, <1>5
<1> QED
  BY <1>2, <1>5, <1>6, <1>7 DEF x

LEMMA KvSetKept ==
    ASSUME MapOK(entries), now \in Nat, NEW k \in Slots,
           NEW v \in Purposes \cup DeviceKeys, NEW ttl \in Nat \cup {Forever}
    PROVE  LET e == AfterKvSet(k, v, ttl)
           IN  /\ MapOK(e)
               /\ k \in DOMAIN e
               /\ e[k].val = [value |-> v, expiresAt |-> ExpiryAfter(now, ttl)]
               /\ Kept(entries, e, {k})
               /\ store # "memory" => DOMAIN entries \subseteq DOMAIN e
<1>1. AfterKvSet(k, v, ttl) = SetOn(entries, k, v, ttl)
  BY Zenon DEF AfterKvSet, AfterSet, SharedSet, SetOn
<1>2. /\ MapOK(SetOn(entries, k, v, ttl))
      /\ k \in DOMAIN SetOn(entries, k, v, ttl)
      /\ SetOn(entries, k, v, ttl)[k].val =
            [value |-> v, expiresAt |-> ExpiryAfter(now, ttl)]
      /\ Kept(entries, SetOn(entries, k, v, ttl), {k})
      /\ store # "memory" => DOMAIN entries \subseteq DOMAIN SetOn(entries, k, v, ttl)
  BY SetKept, Zenon
<1> QED
  BY <1>1, <1>2, Zenon

\* The conditional set writes exactly when the key is not there.
LEMMA KvSetIfAbsentKept ==
    ASSUME MapOK(entries), now \in Nat, NEW k \in Slots,
           NEW v \in Purposes \cup DeviceKeys, NEW ttl \in Nat \cup {Forever}
    PROVE  LET e == AfterKvSetIfAbsent(k, v, ttl)
           IN  /\ MapOK(e)
               /\ Lookup(entries, k, now) # Null =>
                     /\ Kept(entries, e, {})
                     /\ store # "memory" => e = entries
               /\ Lookup(entries, k, now) = Null =>
                     /\ k \in DOMAIN e
                     /\ e[k].val = [value |-> v, expiresAt |-> ExpiryAfter(now, ttl)]
                     /\ Kept(entries, e, {k})
                     /\ store # "memory" => DOMAIN entries \subseteq DOMAIN e
<1> DEFINE l == AfterLookup(entries, k, now)
           m == IF store = "memory" THEN l ELSE entries
<1>1. MapOK(l) /\ Kept(entries, l, {})
  BY WithoutKept, Zenon DEF AfterLookup
<1>2. MapOK(m) /\ Kept(entries, m, {}) /\ (store # "memory" => m = entries)
  <2> HIDE DEF l
  <2>1. Kept(entries, entries, {})
    BY DEF Kept
  <2> QED
    BY <1>1, <2>1, Zenon
<1>3. CASE Lookup(entries, k, now) # Null
  <2>1. AfterKvSetIfAbsent(k, v, ttl) = m
    BY <1>3, Zenon DEF AfterKvSetIfAbsent, AfterSetIfAbsent
  <2> HIDE DEF m
  <2> QED
    BY <1>2, <1>3, <2>1, Zenon
<1>4. CASE Lookup(entries, k, now) = Null
  <2>1. AfterKvSetIfAbsent(k, v, ttl) = SetOn(m, k, v, ttl)
    BY <1>4, Zenon DEF AfterKvSetIfAbsent, AfterSetIfAbsent, SharedSet, SetOn
  <2> HIDE DEF m
  <2>2. /\ MapOK(SetOn(m, k, v, ttl))
        /\ k \in DOMAIN SetOn(m, k, v, ttl)
        /\ SetOn(m, k, v, ttl)[k].val =
              [value |-> v, expiresAt |-> ExpiryAfter(now, ttl)]
        /\ Kept(m, SetOn(m, k, v, ttl), {k})
        /\ store # "memory" => DOMAIN m \subseteq DOMAIN SetOn(m, k, v, ttl)
    BY <1>2, SetKept, Zenon
  <2> DEFINE e == SetOn(m, k, v, ttl)
  <2>3. Kept(entries, e, {k})
    <3> HIDE DEF e
    <3> QED
      BY <1>2, <2>2 DEF Kept, e
  <2>4. store # "memory" => DOMAIN entries \subseteq DOMAIN e
    BY <1>2, <2>2, Zenon
  <2> QED
    BY <1>4, <2>1, <2>2, <2>3, <2>4, Zenon
<1> QED
  BY <1>3, <1>4, Zenon

-----------------------------------------------------------------------------
(* The invariant.                                                          *)

Kinds == {"none", "challenge", "enroll", "verify", "guard"}
Results == {Null, "OK"} \cup Purposes \cup DeviceKeys

RequestType ==
    [pc : Pcs, kind : Kinds, purpose : Purposes \cup {"none"},
     ch : Challenges \cup {UnknownId}, dev : Devices \cup {UnknownId},
     key : DeviceKeys \cup {UnknownId},
     got : Results, nonce : BOOLEAN, bound : SUBSET DeviceKeys, answer : Answers]

Types ==
    /\ store \in Stores
    /\ configured \in BOOLEAN
    /\ MapOK(entries)
    /\ now \in Nat
    /\ req \in [Requests -> RequestType]
    /\ issued \in [Challenges -> [purpose : Purposes \cup {"none"}, until : Nat]]
    /\ handedOut \in [Challenges -> 0 .. 2]
    /\ wins \in [Devices -> Seq(DeviceKeys)]

\* What a request can be at: about to write a new challenge; in possession of
\* one that it took from the store; asking for its device, or about to.
Consumes(q) == q.kind \in {"enroll", "verify", "guard"}
Checks(q) == q.kind \in {"verify", "guard"}
Writing(q) == q.kind = "challenge" /\ q.pc \in {"ask1", "orphan1"}
Holding(q) == Consumes(q) /\ q.pc = "got1" /\ q.got # Null
Reading(q) == Checks(q) /\ q.pc \in {"ask1", "got1", "ask2"}
HasRead(q) == Checks(q) /\ q.pc = "got2" /\ q.got # Null

IssuedFor(c, purpose) == c \in Issued /\ issued[c].purpose = purpose

\* What a request names; a challenge that it is about to write is not yet issued.
Named(q) ==
    /\ q.kind = "challenge" => q.purpose \in Purposes
    /\ Consumes(q) => /\ q.ch \in Issued \cup {UnknownId}
                      /\ q.dev \in Devices
                      /\ q.key \in DeviceKeys
                      /\ q.purpose \in Purposes
    /\ Writing(q) => q.ch \in Challenges \ Issued

\* What a request holds was issued, and its nonce is still to be handed out.
Granted(q) ==
    /\ Holding(q) => IssuedFor(q.ch, q.got) /\ handedOut[q.ch] = 0
    /\ q.nonce => IssuedFor(q.ch, q.purpose)

\* A request that has yet to read its device knows of the key it is bound to.
Learned(q) ==
    /\ Reading(q) => BoundKey(q.dev) \subseteq q.bound
    /\ HasRead(q) => q.got \in q.bound

RequestsOK == \A r \in Requests : Named(req[r]) /\ Granted(req[r]) /\ Learned(req[r])

\* A challenge is written by one request, and taken by one.
Apart ==
    \A r, s \in Requests : r # s =>
        /\ Writing(req[r]) => req[r].ch # req[s].ch
        /\ Holding(req[r]) /\ Holding(req[s]) => req[r].ch # req[s].ch

\* A challenge in the store is as it was issued, and nobody has its nonce.
ChallengesOK ==
    \A c \in Challenges :
        /\ handedOut[c] <= 1
        /\ c \notin Issued => handedOut[c] = 0
        /\ c \in DOMAIN entries =>
              /\ c \in Issued
              /\ handedOut[c] = 0
              /\ \A r \in Requests : Holding(req[r]) => req[r].ch # c
              /\ entries[c].val.value = issued[c].purpose
              /\ entries[c].val.expiresAt = issued[c].until

\* A device in the store is bound to its last key and stays so; the shared store
\* has every device that is bound.
DevicesOK ==
    \A d \in Devices :
        /\ d \in DOMAIN entries =>
              /\ entries[d].val.value \in BoundKey(d)
              /\ entries[d].val.expiresAt = Forever
        /\ store = "upstash" =>
              /\ Len(wins[d]) <= 1
              /\ wins[d] # <<>> => d \in DOMAIN entries

IInv == Types /\ RequestsOK /\ Apart /\ ChallengesOK /\ DevicesOK

\* An idle request is none of these.
LEMMA FreeFacts ==
    ASSUME NEW answer \in Answers
    PROVE  /\ Free(answer) \in RequestType
           /\ Free(answer).ch = UnknownId
           /\ ~Writing(Free(answer)) /\ ~Holding(Free(answer))
           /\ ~Reading(Free(answer)) /\ ~HasRead(Free(answer))
           /\ Named(Free(answer)) /\ ~Free(answer).nonce
<1>1. Free(answer) \in RequestType
  BY DEF Free, RequestType, Pcs, Kinds, Results
<1>2. /\ Free(answer).pc = "free" /\ Free(answer).kind = "none"
      /\ Free(answer).ch = UnknownId /\ ~Free(answer).nonce
  BY DEF Free
<1> HIDE DEF Free
<1> QED
  BY <1>1, <1>2 DEF Writing, Holding, Reading, HasRead, Named, Consumes, Checks

LEMMA InitIInv == Init => IInv
<1> SUFFICES ASSUME Init PROVE IInv
  OBVIOUS
<1>1. DOMAIN entries = {} /\ entries = [k \in DOMAIN entries |-> entries[k]]
  BY DEF Init, EmptyMap
<1>2. MapOK(entries)
  BY <1>1 DEF MapOK, IsMapOver, WellOrdered
<1>3. "none" \in Answers
  BY DEF Answers
<1>4. /\ Free("none") \in RequestType
      /\ Free("none").ch = UnknownId
      /\ ~Writing(Free("none")) /\ ~Holding(Free("none"))
      /\ ~Reading(Free("none")) /\ ~HasRead(Free("none"))
      /\ Named(Free("none")) /\ ~Free("none").nonce
  BY <1>3, FreeFacts, Zenon
<1>5. \A r \in Requests : req[r] = Free("none")
  BY DEF Init
<1>6. Types
  <2>1. req \in [Requests -> RequestType]
    BY <1>4 DEF Init
  <2>2. issued \in [Challenges -> [purpose : Purposes \cup {"none"}, until : Nat]]
    BY DEF Init, NotIssued
  <2>3. wins \in [Devices -> Seq(DeviceKeys)]
    BY DEF Init
  <2> QED
    BY <1>2, <2>1, <2>2, <2>3 DEF Init, Types
<1>7. RequestsOK
  BY <1>4, <1>5, Zenon DEF RequestsOK, Granted, Learned
<1>8. Apart
  BY <1>4, <1>5, Zenon DEF Apart
<1>9. ChallengesOK
  BY <1>1 DEF ChallengesOK, Init
<1>10. DevicesOK
  BY <1>1 DEF DevicesOK, Init
<1> QED
  BY <1>6, <1>7, <1>8, <1>9, <1>10, Zenon DEF IInv

\* The challenges and the devices, when the store gains none.
LEMMA ChallengesKeep ==
    ASSUME ChallengesOK, issued' = issued, handedOut' = handedOut,
           \A c \in Challenges : c \in DOMAIN entries' =>
              /\ c \in DOMAIN entries /\ entries'[c].val = entries[c].val
              /\ \A s \in Requests : Holding(req'[s]) /\ req'[s].ch = c =>
                                        Holding(req[s]) /\ req[s].ch = c
    PROVE  ChallengesOK'
<1>1. Issued' = Issued
  BY DEF Issued
<1> SUFFICES ASSUME NEW c \in Challenges
             PROVE  /\ handedOut[c] <= 1
                    /\ c \notin Issued => handedOut[c] = 0
                    /\ c \in DOMAIN entries' =>
                          /\ c \in Issued
                          /\ handedOut[c] = 0
                          /\ \A s \in Requests : Holding(req'[s]) => req'[s].ch # c
                          /\ entries'[c].val.value = issued[c].purpose
                          /\ entries'[c].val.expiresAt = issued[c].until
  BY <1>1, Zenon DEF ChallengesOK, Holding, Consumes
<1>2. /\ handedOut[c] <= 1
      /\ c \notin Issued => handedOut[c] = 0
      /\ c \in DOMAIN entries =>
            /\ c \in Issued
            /\ handedOut[c] = 0
            /\ \A s \in Requests : Holding(req[s]) => req[s].ch # c
            /\ entries[c].val.value = issued[c].purpose
            /\ entries[c].val.expiresAt = issued[c].until
  BY Zenon DEF ChallengesOK
<1> QED
  BY <1>2, Zenon

LEMMA DevicesKeep ==
    ASSUME DevicesOK, store' = store, wins' = wins,
           \A d \in Devices :
              /\ d \in DOMAIN entries' => d \in DOMAIN entries /\ entries'[d].val = entries[d].val
              /\ store = "upstash" /\ d \in DOMAIN entries => d \in DOMAIN entries'
    PROVE  DevicesOK'
<1> SUFFICES ASSUME NEW d \in Devices
             PROVE  /\ d \in DOMAIN entries' =>
                          /\ entries'[d].val.value \in BoundKey(d)
                          /\ entries'[d].val.expiresAt = Forever
                    /\ store = "upstash" =>
                          /\ Len(wins[d]) <= 1
                          /\ wins[d] # <<>> => d \in DOMAIN entries'
  BY Zenon DEF DevicesOK, BoundKey
<1>1. /\ d \in DOMAIN entries =>
            /\ entries[d].val.value \in BoundKey(d)
            /\ entries[d].val.expiresAt = Forever
      /\ store = "upstash" =>
            /\ Len(wins[d]) <= 1
            /\ wins[d] # <<>> => d \in DOMAIN entries
  BY Zenon DEF DevicesOK
<1> QED
  BY <1>1, Zenon

-----------------------------------------------------------------------------
(* Steps that change one request only.                                     *)

\* A request arrives.
LEMMA StartStep ==
    ASSUME IInv, NEW r \in Requests, NEW q \in RequestType,
           req' = [req EXCEPT ![r] = q],
           UNCHANGED <<store, configured, entries, now, history>>,
           q.pc = "ask1", q.kind # "none", ~q.nonce, Named(q),
           Checks(q) => q.bound = BoundKey(q.dev),
           Writing(q) => \A s \in Requests : req[s].ch # q.ch
    PROVE  IInv'
<1>1. Types /\ RequestsOK /\ Apart /\ ChallengesOK /\ DevicesOK
  BY Zenon DEF IInv
<1>2. req'[r] = q /\ \A s \in Requests : s # r => req'[s] = req[s]
  BY <1>1 DEF Types
<1>3. /\ store' = store /\ configured' = configured /\ entries' = entries
      /\ now' = now /\ issued' = issued /\ handedOut' = handedOut /\ wins' = wins
  BY DEF history
<1>4. ~Holding(q) /\ ~HasRead(q)
  BY DEF Holding, HasRead
<1>5. Types'
  <2>1. req' \in [Requests -> RequestType]
    BY <1>1 DEF Types
  <2> QED
    BY <1>1, <1>3, <2>1 DEF Types, MapOK, IsMapOver, WellOrdered
<1>6. Issued' = Issued
  BY <1>3 DEF Issued
<1>7. RequestsOK'
  <2> SUFFICES ASSUME NEW s \in Requests
               PROVE  (Named(req[s]) /\ Granted(req[s]) /\ Learned(req[s]))'
    BY Zenon DEF RequestsOK
  <2>1. Named(req'[s]) /\ Granted(req'[s]) /\ Learned(req'[s])
    <3>1. CASE s = r
      BY <1>2, <1>4, <3>1 DEF Granted, Learned, Reading
    <3>2. CASE s # r
      BY <1>1, <1>2, <3>2, Zenon DEF RequestsOK
    <3> QED
      BY <3>1, <3>2
  <2>2. Named(req[s])'
    BY <1>6, <2>1, Zenon DEF Named, Writing, Consumes
  <2>3. Granted(req[s])'
    BY <1>3, <1>6, <2>1, Zenon DEF Granted, IssuedFor, Holding, Consumes
  <2>4. Learned(req[s])'
    BY <1>3, <2>1, Zenon DEF Learned, BoundKey, Reading, HasRead, Checks
  <2> QED
    BY <2>2, <2>3, <2>4, Zenon
<1>8. Apart'
  <2> SUFFICES ASSUME NEW a \in Requests, NEW b \in Requests, a # b
               PROVE  /\ Writing(req'[a]) => req'[a].ch # req'[b].ch
                      /\ Holding(req'[a]) /\ Holding(req'[b]) => req'[a].ch # req'[b].ch
    BY Zenon DEF Apart, Writing, Holding, Consumes
  <2>1. CASE a = r
    BY <1>2, <1>4, <2>1, Zenon
  <2>2. CASE b = r
    <3>1. Writing(req[a]) => req[a].ch # q.ch
      <4> SUFFICES ASSUME Writing(req[a]), req[a].ch = q.ch PROVE FALSE
        OBVIOUS
      <4>1. req[a].ch \in Challenges \ Issued
        BY <1>1, Zenon DEF RequestsOK, Named
      <4>2. Consumes(q) \/ Writing(q)
        BY DEF RequestType, Kinds, Consumes, Writing
      <4>3. CASE Writing(q)
        BY <4>3, Zenon
      <4>4. CASE Consumes(q)
        <5>1. q.ch \in Issued \cup {UnknownId}
          BY <4>4, Zenon DEF Named
        <5> QED
          BY <4>1, <5>1, IdsAssumption
      <4> QED
        BY <4>2, <4>3, <4>4
    <3> QED
      BY <1>2, <1>4, <2>2, <3>1, Zenon
  <2>3. CASE a # r /\ b # r
    <3>1. /\ Writing(req[a]) => req[a].ch # req[b].ch
          /\ Holding(req[a]) /\ Holding(req[b]) => req[a].ch # req[b].ch
      BY <1>1, Zenon DEF Apart
    <3>2. req'[a] = req[a] /\ req'[b] = req[b]
      BY <1>2, <2>3, Zenon
    <3> QED
      BY <3>1, <3>2, Zenon
  <2> QED
    BY <2>1, <2>2, <2>3
<1>9. ChallengesOK'
  <2>1. \A s \in Requests : Holding(req'[s]) => Holding(req[s]) /\ req'[s].ch = req[s].ch
    BY <1>2, <1>4, Zenon
  <2> QED
    BY <1>1, <1>3, <2>1, ChallengesKeep, Zenon
<1>10. DevicesOK'
  BY <1>1, <1>3, Zenon DEF DevicesOK, BoundKey
<1> QED
  BY <1>5, <1>7, <1>8, <1>9, <1>10, Zenon DEF IInv

\* A request goes on, or ends; its nonce may be handed out.
LEMMA ResumeStep ==
    ASSUME IInv, NEW r \in Requests, NEW q \in RequestType,
           req' = [req EXCEPT ![r] = q],
           UNCHANGED <<store, configured, entries, now, issued, wins>>,
           handedOut' = handedOut \/ (Holding(req[r]) /\ HandOut(r)),
           ~Holding(q), Named(q), Learned(q),
           q.nonce => IssuedFor(q.ch, q.purpose),
           q.ch = req[r].ch \/ q.ch = UnknownId,
           Writing(q) => Writing(req[r]) /\ q.ch = req[r].ch
    PROVE  IInv'
<1>1. Types /\ RequestsOK /\ Apart /\ ChallengesOK /\ DevicesOK
  BY Zenon DEF IInv
<1>2. req'[r] = q /\ \A s \in Requests : s # r => req'[s] = req[s]
  BY <1>1 DEF Types
<1>3. /\ store' = store /\ configured' = configured /\ entries' = entries
      /\ now' = now /\ issued' = issued /\ wins' = wins
  OBVIOUS
<1>4. Issued' = Issued
  BY <1>3 DEF Issued
<1>5. /\ handedOut' \in [Challenges -> 0 .. 2]
      /\ \A c \in Challenges :
            \/ handedOut'[c] = handedOut[c]
            \/ /\ Holding(req[r]) /\ c = req[r].ch
               /\ handedOut[c] = 0 /\ handedOut'[c] = 1
  <2>1. CASE handedOut' = handedOut
    BY <1>1, <2>1 DEF Types
  <2>2. CASE Holding(req[r]) /\ HandOut(r)
    <3> DEFINE ch == req[r].ch
    <3>1. IssuedFor(ch, req[r].got) /\ handedOut[ch] = 0
      BY <1>1, <2>2, Zenon DEF RequestsOK, Granted
    <3>2. ch \in Challenges
      BY <3>1 DEF IssuedFor, Issued
    <3>3. handedOut' = [handedOut EXCEPT ![ch] = IF @ < 2 THEN @ + 1 ELSE @]
      BY <2>2, Zenon DEF HandOut
    <3>4. handedOut \in [Challenges -> 0 .. 2]
      BY <1>1, Zenon DEF Types
    <3> HIDE DEF ch
    <3>5. /\ handedOut' \in [Challenges -> 0 .. 2]
          /\ handedOut'[ch] = 1
          /\ \A c \in Challenges : c # ch => handedOut'[c] = handedOut[c]
      BY <3>1, <3>2, <3>3, <3>4
    <3> QED
      BY <2>2, <3>1, <3>5, Zenon DEF ch
  <2> QED
    BY <2>1, <2>2
<1>6. Types'
  <2>1. req' \in [Requests -> RequestType]
    BY <1>1 DEF Types
  <2> QED
    BY <1>1, <1>3, <1>5, <2>1 DEF Types, MapOK, IsMapOver, WellOrdered
<1>7. RequestsOK'
  <2> SUFFICES ASSUME NEW s \in Requests
               PROVE  (Named(req[s]) /\ Granted(req[s]) /\ Learned(req[s]))'
    BY Zenon DEF RequestsOK
  <2>1. Named(req'[s]) /\ Granted(req'[s]) /\ Learned(req'[s])
    <3>1. CASE s = r
      BY <1>2, <3>1, Zenon DEF Granted
    <3>2. CASE s # r
      BY <1>1, <1>2, <3>2, Zenon DEF RequestsOK
    <3> QED
      BY <3>1, <3>2
  <2>2. Named(req[s])'
    BY <1>4, <2>1, Zenon DEF Named, Writing, Consumes
  <2>3. Granted(req[s])'
    <3>1. Holding(req'[s]) => handedOut'[req'[s].ch] = 0
      <4> SUFFICES ASSUME Holding(req'[s]) PROVE handedOut'[req'[s].ch] = 0
        OBVIOUS
      <4>1. s # r /\ req'[s] = req[s] /\ Holding(req[s])
        BY <1>2, Zenon
      <4>2. req[s].ch \in Challenges /\ handedOut[req[s].ch] = 0
        BY <1>1, <4>1 DEF RequestsOK, Granted, IssuedFor, Issued
      <4>3. Holding(req[r]) => req[r].ch # req[s].ch
        BY <1>1, <4>1, Zenon DEF Apart
      <4> QED
        BY <1>5, <4>1, <4>2, <4>3, Zenon
    <3> QED
      BY <1>3, <1>4, <2>1, <3>1, Zenon DEF Granted, IssuedFor, Holding, Consumes
  <2>4. Learned(req[s])'
    BY <1>3, <2>1, Zenon DEF Learned, BoundKey, Reading, HasRead, Checks
  <2> QED
    BY <2>2, <2>3, <2>4, Zenon
<1>8. Apart'
  <2> SUFFICES ASSUME NEW a \in Requests, NEW b \in Requests, a # b
               PROVE  /\ Writing(req'[a]) => req'[a].ch # req'[b].ch
                      /\ Holding(req'[a]) /\ Holding(req'[b]) => req'[a].ch # req'[b].ch
    BY Zenon DEF Apart, Writing, Holding, Consumes
  <2>1. CASE a = r
    <3>1. Writing(req[r]) => req[r].ch # req[b].ch
      BY <1>1, <2>1, Zenon DEF Apart
    <3>2. req'[a] = q /\ req'[b] = req[b]
      BY <1>2, <2>1, Zenon
    <3> QED
      BY <3>1, <3>2, Zenon
  <2>2. CASE b = r
    <3>1. Writing(req[a]) => req[a].ch # q.ch
      <4>1. Writing(req[a]) => req[a].ch # UnknownId
        BY <1>1, IdsAssumption DEF RequestsOK, Named
      <4> QED
        BY <1>1, <2>2, <4>1, Zenon DEF Apart
    <3> QED
      BY <1>2, <2>2, <3>1, Zenon
  <2>3. CASE a # r /\ b # r
    <3>1. /\ Writing(req[a]) => req[a].ch # req[b].ch
          /\ Holding(req[a]) /\ Holding(req[b]) => req[a].ch # req[b].ch
      BY <1>1, Zenon DEF Apart
    <3>2. req'[a] = req[a] /\ req'[b] = req[b]
      BY <1>2, <2>3, Zenon
    <3> QED
      BY <3>1, <3>2, Zenon
  <2> QED
    BY <2>1, <2>2, <2>3
<1>9. ChallengesOK'
  <2>1. \A s \in Requests : Holding(req'[s]) => Holding(req[s]) /\ req'[s].ch = req[s].ch
    BY <1>2, Zenon
  <2> SUFFICES ASSUME NEW c \in Challenges
               PROVE  /\ handedOut'[c] <= 1
                      /\ c \notin Issued => handedOut'[c] = 0
                      /\ c \in DOMAIN entries =>
                            /\ c \in Issued
                            /\ handedOut'[c] = 0
                            /\ \A s \in Requests : Holding(req'[s]) => req'[s].ch # c
                            /\ entries[c].val.value = issued[c].purpose
                            /\ entries[c].val.expiresAt = issued[c].until
    BY <1>3, <1>4, Zenon DEF ChallengesOK, Holding, Consumes
  <2>2. /\ handedOut[c] <= 1
        /\ c \notin Issued => handedOut[c] = 0
        /\ c \in DOMAIN entries =>
              /\ c \in Issued
              /\ handedOut[c] = 0
              /\ \A s \in Requests : Holding(req[s]) => req[s].ch # c
              /\ entries[c].val.value = issued[c].purpose
              /\ entries[c].val.expiresAt = issued[c].until
    BY <1>1, Zenon DEF ChallengesOK
  <2>3. CASE handedOut'[c] = handedOut[c]
    BY <2>1, <2>2, <2>3, Zenon
  <2>4. CASE Holding(req[r]) /\ c = req[r].ch /\ handedOut'[c] = 1
    <3>1. c \in Issued /\ c \notin DOMAIN entries
      BY <1>1, <2>2, <2>4, Zenon DEF RequestsOK, Granted, IssuedFor
    <3>2. handedOut'[c] <= 1
      BY <2>4
    <3> QED
      BY <3>1, <3>2, Zenon
  <2> QED
    BY <1>5, <2>3, <2>4, Zenon
<1>10. DevicesOK'
  BY <1>1, <1>3, Zenon DEF DevicesOK, BoundKey
<1> QED
  BY <1>6, <1>7, <1>8, <1>9, <1>10, Zenon DEF IInv

-----------------------------------------------------------------------------
(* Steps of the store.                                                     *)

\* What becomes of a request whose command has run, with the result x.
LEMMA DeliveredFacts ==
    ASSUME Types, NEW r \in Requests, NEW x \in Results, Named(req[r]),
           req[r].pc \in {"ask1", "ask2", "orphan1", "orphan2"}
    PROVE  LET D == Delivered(r, x)
               q == D[r]
           IN  /\ D \in [Requests -> RequestType]
               /\ \A s \in Requests : s # r => D[s] = req[s]
               /\ q.ch = req[r].ch \/ q.ch = UnknownId
               /\ ~Writing(q) /\ Named(q)
               /\ q.nonce => req[r].nonce /\ q.ch = req[r].ch /\ q.purpose = req[r].purpose
               /\ Holding(q) => /\ Consumes(req[r]) /\ req[r].pc = "ask1"
                                /\ x # Null /\ q.got = x /\ q.ch = req[r].ch
               /\ Reading(q) => /\ Reading(req[r])
                                /\ q.bound = req[r].bound /\ q.dev = req[r].dev
               /\ HasRead(q) => /\ Checks(req[r]) /\ req[r].pc = "ask2"
                                /\ x # Null /\ q.got = x /\ q.bound = req[r].bound
<1> DEFINE D == Delivered(r, x)
           o == req[r]
           q == D[r]
           new == CASE o.pc = "ask1" -> [o EXCEPT !.pc = "got1", !.got = x]
                    [] o.pc = "ask2" -> [o EXCEPT !.pc = "got2", !.got = x]
                    [] OTHER -> Free(o.answer)
<1>1. o \in RequestType
  BY DEF Types
<1>2. D = [req EXCEPT ![r] = new]
  BY DEF Delivered
<1>3. q = new /\ \A s \in Requests : s # r => D[s] = req[s]
  BY <1>2 DEF Types
<1> HIDE DEF D
<1>4. CASE o.pc = "ask1"
  <2>1. q = [o EXCEPT !.pc = "got1", !.got = x]
    BY <1>3, <1>4
  <2> HIDE DEF o, q
  <2>2. /\ q \in RequestType
        /\ q.pc = "got1" /\ q.got = x /\ q.kind = o.kind /\ q.ch = o.ch /\ q.dev = o.dev
        /\ q.key = o.key /\ q.purpose = o.purpose /\ q.nonce = o.nonce /\ q.bound = o.bound
    BY <1>1, <2>1 DEF RequestType, Pcs
  <2>3. /\ q \in RequestType
        /\ q.ch = o.ch \/ q.ch = UnknownId
        /\ ~Writing(q) /\ Named(q)
        /\ q.nonce => o.nonce /\ q.ch = o.ch /\ q.purpose = o.purpose
        /\ Holding(q) => Consumes(o) /\ o.pc = "ask1" /\ x # Null /\ q.got = x /\ q.ch = o.ch
        /\ Reading(q) => Reading(o) /\ q.bound = o.bound /\ q.dev = o.dev
        /\ ~HasRead(q)
    <3>1. Named(o)
      BY DEF o
    <3> QED
      BY <1>4, <2>2, <3>1
         DEF Writing, Named, Holding, Reading, HasRead, Consumes, Checks
  <2>4. D \in [Requests -> RequestType]
    BY <1>2, <1>3, <2>3 DEF Types, q
  <2> QED
    BY <1>3, <2>3, <2>4, Zenon DEF D, q, o
<1>5. CASE o.pc = "ask2"
  <2>1. q = [o EXCEPT !.pc = "got2", !.got = x]
    BY <1>3, <1>5
  <2> HIDE DEF o, q
  <2>2. /\ q \in RequestType
        /\ q.pc = "got2" /\ q.got = x /\ q.kind = o.kind /\ q.ch = o.ch /\ q.dev = o.dev
        /\ q.key = o.key /\ q.purpose = o.purpose /\ q.nonce = o.nonce /\ q.bound = o.bound
    BY <1>1, <2>1 DEF RequestType, Pcs
  <2>3. /\ q \in RequestType
        /\ q.ch = o.ch \/ q.ch = UnknownId
        /\ ~Writing(q) /\ Named(q)
        /\ q.nonce => o.nonce /\ q.ch = o.ch /\ q.purpose = o.purpose
        /\ ~Holding(q) /\ ~Reading(q)
        /\ HasRead(q) => /\ Checks(o) /\ o.pc = "ask2"
                         /\ x # Null /\ q.got = x /\ q.bound = o.bound
    <3>1. Named(o)
      BY DEF o
    <3> QED
      BY <1>5, <2>2, <3>1
         DEF Writing, Named, Holding, Reading, HasRead, Consumes, Checks
  <2>4. D \in [Requests -> RequestType]
    BY <1>2, <1>3, <2>3 DEF Types, q
  <2> QED
    BY <1>3, <2>3, <2>4, Zenon DEF D, q, o
<1>6. CASE o.pc \notin {"ask1", "ask2"}
  <2>1. q = Free(o.answer)
    BY <1>3, <1>6
  <2>2. o.answer \in Answers
    BY <1>1 DEF RequestType
  <2> HIDE DEF o, q
  <2>3. /\ q \in RequestType
        /\ q.ch = UnknownId
        /\ ~Writing(q) /\ ~Holding(q)
        /\ ~Reading(q) /\ ~HasRead(q)
        /\ Named(q) /\ ~q.nonce
    BY <2>1, <2>2, FreeFacts, Zenon
  <2>4. D \in [Requests -> RequestType]
    BY <1>2, <1>3, <2>3 DEF Types, q
  <2> QED
    BY <1>3, <2>3, <2>4, Zenon DEF D, q, o
<1> QED
  BY <1>4, <1>5, <1>6, Zenon

\* What the requests are at when a command has run that bound no device.
LEMMA DeliverStep ==
    ASSUME IInv, NEW r \in Requests, NEW x \in Results,
           req[r].pc \in {"ask1", "ask2", "orphan1", "orphan2"},
           Deliver(r, x), wins' = wins, handedOut' = handedOut,
           \A c \in Issued : c \in Issued' /\ issued'[c] = issued[c],
           Consumes(req[r]) /\ req[r].pc = "ask1" /\ x # Null =>
              /\ IssuedFor(req[r].ch, x)
              /\ handedOut[req[r].ch] = 0
              /\ \A s \in Requests : Holding(req[s]) => req[s].ch # req[r].ch,
           Checks(req[r]) /\ req[r].pc = "ask2" /\ x # Null => x \in req[r].bound,
           \A s \in Requests : s # r /\ Writing(req[s]) => req[s].ch \notin Issued'
    PROVE  /\ req' \in [Requests -> RequestType]
           /\ RequestsOK'
           /\ Apart'
           /\ \A s \in Requests :
                 Holding(req'[s]) => \/ Holding(req[s]) /\ req'[s].ch = req[s].ch
                                    \/ /\ s = r /\ req'[r].ch = req[r].ch
                                       /\ Consumes(req[r]) /\ req[r].pc = "ask1" /\ x # Null
<1> DEFINE q == req'[r]
<1>1. Types /\ RequestsOK /\ Apart
  BY Zenon DEF IInv
<1>2. Named(req[r]) /\ Granted(req[r]) /\ Learned(req[r])
  BY <1>1, Zenon DEF RequestsOK
<1>3. /\ req' \in [Requests -> RequestType]
      /\ \A s \in Requests : s # r => req'[s] = req[s]
      /\ q.ch = req[r].ch \/ q.ch = UnknownId
      /\ ~Writing(q) /\ Named(q)
      /\ q.nonce => req[r].nonce /\ q.ch = req[r].ch /\ q.purpose = req[r].purpose
      /\ Holding(q) => /\ Consumes(req[r]) /\ req[r].pc = "ask1"
                       /\ x # Null /\ q.got = x /\ q.ch = req[r].ch
      /\ Reading(q) => /\ Reading(req[r])
                       /\ q.bound = req[r].bound /\ q.dev = req[r].dev
      /\ HasRead(q) => /\ Checks(req[r]) /\ req[r].pc = "ask2"
                       /\ x # Null /\ q.got = x /\ q.bound = req[r].bound
  <2> DEFINE D == Delivered(r, x)
  <2>1. /\ D \in [Requests -> RequestType]
        /\ \A s \in Requests : s # r => D[s] = req[s]
        /\ D[r].ch = req[r].ch \/ D[r].ch = UnknownId
        /\ ~Writing(D[r]) /\ Named(D[r])
        /\ D[r].nonce => req[r].nonce /\ D[r].ch = req[r].ch /\ D[r].purpose = req[r].purpose
        /\ Holding(D[r]) => /\ Consumes(req[r]) /\ req[r].pc = "ask1"
                            /\ x # Null /\ D[r].got = x /\ D[r].ch = req[r].ch
        /\ Reading(D[r]) => /\ Reading(req[r])
                            /\ D[r].bound = req[r].bound /\ D[r].dev = req[r].dev
        /\ HasRead(D[r]) => /\ Checks(req[r]) /\ req[r].pc = "ask2"
                            /\ x # Null /\ D[r].got = x /\ D[r].bound = req[r].bound
    BY <1>1, <1>2, DeliveredFacts, Zenon
  <2>2. req' = D
    BY Zenon DEF Deliver
  <2> HIDE DEF D
  <2> QED
    BY <2>1, <2>2
<1> HIDE DEF q
<1>4. \A c, p : IssuedFor(c, p) => c \in Issued' /\ issued'[c].purpose = p
  BY Zenon DEF IssuedFor
<1>5. Named(q) /\ Granted(q) /\ Learned(q)
  <2>1. Granted(q)
    BY <1>2, <1>3, Zenon DEF Granted
  <2>2. Learned(q)
    BY <1>2, <1>3, Zenon DEF Learned
  <2> QED
    BY <1>3, <2>1, <2>2, Zenon
<1>6. RequestsOK'
  <2> SUFFICES ASSUME NEW s \in Requests
               PROVE  (Named(req[s]) /\ Granted(req[s]) /\ Learned(req[s]))'
    BY Zenon DEF RequestsOK
  <2>1. Named(req'[s]) /\ Granted(req'[s]) /\ Learned(req'[s])
    <3>1. CASE s = r
      BY <1>5, <3>1, Zenon DEF q
    <3>2. CASE s # r
      BY <1>1, <1>3, <3>2, Zenon DEF RequestsOK
    <3> QED
      BY <3>1, <3>2
  <2>2. Writing(req'[s]) => req'[s].ch \in Challenges \ Issued'
    <3>1. CASE s = r
      BY <1>3, <3>1, Zenon DEF q
    <3>2. CASE s # r
      <4>1. Writing(req[s]) => req[s].ch \in Challenges /\ req[s].ch \notin Issued'
        BY <1>1, <3>2 DEF RequestsOK, Named
      <4> QED
        BY <1>3, <3>2, <4>1
    <3> QED
      BY <3>1, <3>2
  <2>3. Named(req[s])'
    <3>1. Consumes(req'[s]) => req'[s].ch \in Issued' \cup {UnknownId}
      BY <2>1 DEF Named
    <3> QED
      BY <2>1, <2>2, <3>1, Zenon DEF Named, Writing, Consumes
  <2>4. Granted(req[s])'
    BY <1>4, <2>1, Zenon DEF Granted, IssuedFor, Holding, Consumes
  <2>5. Learned(req[s])'
    BY <2>1, Zenon DEF Learned, BoundKey, Reading, HasRead, Checks
  <2> QED
    BY <2>3, <2>4, <2>5, Zenon
<1>7. Apart'
  <2> SUFFICES ASSUME NEW a \in Requests, NEW b \in Requests, a # b
               PROVE  /\ Writing(req'[a]) => req'[a].ch # req'[b].ch
                      /\ Holding(req'[a]) /\ Holding(req'[b]) => req'[a].ch # req'[b].ch
    BY Zenon DEF Apart, Writing, Holding, Consumes
  <2>1. CASE a = r
    <3>1. req'[a] = q /\ req'[b] = req[b]
      BY <1>3, <2>1, Zenon DEF q
    <3>2. ~Writing(q) /\ (Holding(q) => q.ch = req[r].ch /\ (Holding(req[b]) => req[b].ch # req[r].ch))
      BY <1>3, Zenon
    <3> QED
      BY <3>1, <3>2, Zenon
  <2>2. CASE b = r
    <3>1. req'[b] = q /\ req'[a] = req[a]
      BY <1>3, <2>2, Zenon DEF q
    <3>2. Writing(req[a]) => req[a].ch # q.ch
      <4>1. Writing(req[a]) => req[a].ch # UnknownId
        BY <1>1, IdsAssumption DEF RequestsOK, Named
      <4>2. Writing(req[a]) => req[a].ch # req[r].ch
        BY <1>1, <2>2, Zenon DEF Apart
      <4> QED
        BY <1>3, <4>1, <4>2, Zenon
    <3>3. Holding(req[a]) /\ Holding(q) => req[a].ch # q.ch
      BY <1>3, Zenon
    <3> QED
      BY <3>1, <3>2, <3>3, Zenon
  <2>3. CASE a # r /\ b # r
    <3>1. req'[a] = req[a] /\ req'[b] = req[b]
      BY <1>3, <2>3, Zenon
    <3>2. /\ Writing(req[a]) => req[a].ch # req[b].ch
          /\ Holding(req[a]) /\ Holding(req[b]) => req[a].ch # req[b].ch
      BY <1>1, Zenon DEF Apart
    <3> QED
      BY <3>1, <3>2
  <2> QED
    BY <2>1, <2>2, <2>3
<1>8. ASSUME NEW s \in Requests, Holding(req'[s])
      PROVE  \/ Holding(req[s]) /\ req'[s].ch = req[s].ch
             \/ /\ s = r /\ req'[r].ch = req[r].ch
                /\ Consumes(req[r]) /\ req[r].pc = "ask1" /\ x # Null
  <2>1. CASE s = r
    BY <1>3, <1>8, <2>1, Zenon DEF q
  <2>2. CASE s # r
    BY <1>3, <1>8, <2>2, Zenon
  <2> QED
    BY <2>1, <2>2
<1> QED
  BY <1>3, <1>6, <1>7, <1>8, Zenon

\* What a lookup returns.
LEMMA LookupResult ==
    ASSUME MapOK(entries), NEW k
    PROVE  /\ Lookup(entries, k, now) \in Results
           /\ Lookup(entries, k, now) # Null =>
                 /\ k \in DOMAIN entries
                 /\ ~IsExpired(entries[k].val, now)
                 /\ Lookup(entries, k, now) = entries[k].val.value
<1>1. k \in DOMAIN entries => entries[k].val.value \in Purposes \cup DeviceKeys
  BY DEF MapOK, IsMapOver, Contents
<1> QED
  BY <1>1, Zenon DEF Lookup, Results

\* consume's command takes a challenge out of the store.
LEMMA GetDeleteStep ==
    ASSUME IInv, NEW r \in Requests, RunGetDelete(r)
    PROVE  IInv'
<1> DEFINE ch == req[r].ch
           x == Lookup(entries, ch, now)
<1>1. Types /\ RequestsOK /\ Apart /\ ChallengesOK /\ DevicesOK
  BY Zenon DEF IInv
<1>2. MapOK(entries) /\ DOMAIN entries \subseteq Slots
  BY <1>1 DEF Types, MapOK, IsMapOver
<1>3. /\ Consumes(req[r])
      /\ req[r].pc \in {"ask1", "ask2", "orphan1", "orphan2"}
      /\ entries' = Without(entries, {ch})
      /\ Deliver(r, x)
      /\ store' = store /\ configured' = configured /\ now' = now
      /\ issued' = issued /\ handedOut' = handedOut /\ wins' = wins
  BY DEF RunGetDelete, Outstanding, AfterDelete, Consumes, history
<1>4. /\ MapOK(entries')
      /\ DOMAIN entries' = DOMAIN entries \ {ch}
      /\ Kept(entries, entries', {})
  BY <1>2, <1>3, WithoutKept, Zenon
<1>5. ch \in Issued \cup {UnknownId} /\ ch \notin Devices
  <2>1. ch \in Issued \cup {UnknownId}
    BY <1>1, <1>3, Zenon DEF RequestsOK, Named
  <2>2. Issued \subseteq Challenges
    BY DEF Issued
  <2> QED
    BY <2>1, <2>2, IdsAssumption
<1>6. /\ x \in Results
      /\ x # Null => /\ ch \in DOMAIN entries
                     /\ ~IsExpired(entries[ch].val, now)
                     /\ x = entries[ch].val.value
  BY <1>2, LookupResult, Zenon
<1> HIDE DEF x
<1>7. x # Null => /\ IssuedFor(ch, x)
                  /\ handedOut[ch] = 0
                  /\ \A s \in Requests : Holding(req[s]) => req[s].ch # ch
  <2> SUFFICES ASSUME x # Null
               PROVE  /\ IssuedFor(ch, x)
                      /\ handedOut[ch] = 0
                      /\ \A s \in Requests : Holding(req[s]) => req[s].ch # ch
    OBVIOUS
  <2>1. ch \in DOMAIN entries /\ x = entries[ch].val.value
    BY <1>6
  <2>2. ch \in Challenges
    BY <1>2, <1>5, <2>1, IdsAssumption DEF Slots, Issued
  <2> QED
    BY <1>1, <2>1, <2>2, Zenon DEF ChallengesOK, IssuedFor
<1>8. Issued' = Issued
  BY <1>3 DEF Issued
<1>9. /\ req' \in [Requests -> RequestType]
      /\ RequestsOK'
      /\ Apart'
      /\ \A s \in Requests :
            Holding(req'[s]) => \/ Holding(req[s]) /\ req'[s].ch = req[s].ch
                               \/ /\ s = r /\ req'[r].ch = req[r].ch
                                  /\ Consumes(req[r]) /\ req[r].pc = "ask1" /\ x # Null
  <2>1. \A c \in Issued : c \in Issued' /\ issued'[c] = issued[c]
    BY <1>3, <1>8, Zenon
  <2>2. ~(req[r].pc = "ask2" /\ Checks(req[r]))
    BY DEF RunGetDelete, Outstanding
  <2>3. \A s \in Requests : s # r /\ Writing(req[s]) => req[s].ch \notin Issued'
    BY <1>1, <1>8 DEF RequestsOK, Named
  <2>4. Consumes(req[r]) /\ req[r].pc = "ask1" /\ x # Null =>
           /\ IssuedFor(req[r].ch, x)
           /\ handedOut[req[r].ch] = 0
           /\ \A s \in Requests : Holding(req[s]) => req[s].ch # req[r].ch
    BY <1>7, Zenon
  <2>5. Checks(req[r]) /\ req[r].pc = "ask2" /\ x # Null => x \in req[r].bound
    BY <2>2, Zenon
  <2>6. x \in Results
    BY <1>6, Zenon
  <2> QED
    BY <1>3, <2>1, <2>3, <2>4, <2>5, <2>6, DeliverStep, Zenon
<1>10. Types'
  BY <1>1, <1>3, <1>4, <1>9, Zenon DEF Types, MapOK, IsMapOver, WellOrdered
<1>11. ChallengesOK'
  <2>1. \A c \in Challenges : c \in DOMAIN entries' =>
              /\ c \in DOMAIN entries /\ entries'[c].val = entries[c].val
              /\ \A s \in Requests : Holding(req'[s]) /\ req'[s].ch = c =>
                                        Holding(req[s]) /\ req[s].ch = c
    <3> SUFFICES ASSUME NEW c \in Challenges, c \in DOMAIN entries'
                 PROVE  /\ c \in DOMAIN entries /\ entries'[c].val = entries[c].val
                        /\ \A s \in Requests : Holding(req'[s]) /\ req'[s].ch = c =>
                                                  Holding(req[s]) /\ req[s].ch = c
      BY Zenon
    <3>1. c \in DOMAIN entries /\ entries'[c].val = entries[c].val /\ c # ch
      BY <1>4 DEF Kept
    <3> QED
      BY <1>9, <3>1, Zenon
  <2> QED
    BY <1>1, <1>3, <2>1, ChallengesKeep, Zenon
<1>12. DevicesOK'
  <2>1. \A d \in Devices :
              /\ d \in DOMAIN entries' => d \in DOMAIN entries /\ entries'[d].val = entries[d].val
              /\ store = "upstash" /\ d \in DOMAIN entries => d \in DOMAIN entries'
    BY <1>4, <1>5 DEF Kept
  <2> QED
    BY <1>1, <1>3, <2>1, DevicesKeep, Zenon
<1> QED
  BY <1>9, <1>10, <1>11, <1>12, Zenon DEF IInv

\* The device is read, and stays as it is.
LEMMA GetStep ==
    ASSUME IInv, NEW r \in Requests, RunGet(r)
    PROVE  IInv'
<1> DEFINE dev == req[r].dev
           x == Lookup(entries, dev, now)
           E == {dev} \cap ExpiredKeys(entries, now)
<1>1. Types /\ RequestsOK /\ Apart /\ ChallengesOK /\ DevicesOK
  BY Zenon DEF IInv
<1>2. MapOK(entries)
  BY <1>1, Zenon DEF Types
<1>3. /\ Checks(req[r])
      /\ req[r].pc \in {"ask2", "orphan2"}
      /\ entries' = Without(entries, E)
      /\ Deliver(r, x)
      /\ store' = store /\ configured' = configured /\ now' = now
      /\ issued' = issued /\ handedOut' = handedOut /\ wins' = wins
  BY DEF RunGet, Outstanding, AfterGet, AfterLookup, Checks, history
<1>4. dev \in Devices
  BY <1>1, <1>3 DEF RequestsOK, Named, Checks, Consumes
<1>5. E = {}
  <2>1. dev \in DOMAIN entries => ~IsExpired(entries[dev].val, now)
    BY <1>1, <1>4, Zenon DEF DevicesOK, IsExpired
  <2> QED
    BY <2>1 DEF ExpiredKeys
<1> HIDE DEF E
<1>6. /\ MapOK(entries')
      /\ DOMAIN entries' = DOMAIN entries \ E
      /\ Kept(entries, entries', {})
  BY <1>2, <1>3, WithoutKept, Zenon
<1>7. /\ x \in Results
      /\ x # Null => /\ dev \in DOMAIN entries
                     /\ ~IsExpired(entries[dev].val, now)
                     /\ x = entries[dev].val.value
  BY <1>2, LookupResult, Zenon
<1> HIDE DEF x
<1>8. req[r].pc = "ask2" /\ x # Null => x \in req[r].bound
  <2> SUFFICES ASSUME req[r].pc = "ask2", x # Null PROVE x \in req[r].bound
    OBVIOUS
  <2>1. Reading(req[r])
    BY <1>3 DEF Reading
  <2>2. BoundKey(dev) \subseteq req[r].bound
    BY <1>1, <2>1, Zenon DEF RequestsOK, Learned
  <2>3. x \in BoundKey(dev)
    BY <1>1, <1>4, <1>7, Zenon DEF DevicesOK
  <2> QED
    BY <2>2, <2>3
<1>9. Issued' = Issued
  BY <1>3 DEF Issued
<1>10. /\ req' \in [Requests -> RequestType]
       /\ RequestsOK'
       /\ Apart'
       /\ \A s \in Requests :
             Holding(req'[s]) => \/ Holding(req[s]) /\ req'[s].ch = req[s].ch
                                \/ /\ s = r /\ req'[r].ch = req[r].ch
                                   /\ Consumes(req[r]) /\ req[r].pc = "ask1" /\ x # Null
  <2>1. \A c \in Issued : c \in Issued' /\ issued'[c] = issued[c]
    BY <1>3, <1>9, Zenon
  <2>2. req[r].pc # "ask1" /\ req[r].pc \in {"ask1", "ask2", "orphan1", "orphan2"}
    BY <1>3
  <2>3. \A s \in Requests : s # r /\ Writing(req[s]) => req[s].ch \notin Issued'
    BY <1>1, <1>9 DEF RequestsOK, Named
  <2> QED
    BY <1>3, <1>7, <1>8, <2>1, <2>2, <2>3, DeliverStep, Zenon
<1>11. Types'
  BY <1>1, <1>3, <1>6, <1>10, Zenon DEF Types, MapOK, IsMapOver, WellOrdered
<1>12. ChallengesOK'
  <2>1. req[r].pc # "ask1"
    BY <1>3
  <2>2. \A s \in Requests : Holding(req'[s]) => Holding(req[s]) /\ req'[s].ch = req[s].ch
    BY <1>10, <2>1, Zenon
  <2>3. \A c \in DOMAIN entries' : c \in DOMAIN entries /\ entries'[c].val = entries[c].val
    BY <1>6 DEF Kept
  <2> QED
    BY <1>1, <1>3, <2>2, <2>3, ChallengesKeep, Zenon
<1>13. DevicesOK'
  <2>1. \A d \in Devices :
              /\ d \in DOMAIN entries' => d \in DOMAIN entries /\ entries'[d].val = entries[d].val
              /\ store = "upstash" /\ d \in DOMAIN entries => d \in DOMAIN entries'
    BY <1>5, <1>6 DEF Kept
  <2> QED
    BY <1>1, <1>3, <2>1, DevicesKeep, Zenon
<1> QED
  BY <1>10, <1>11, <1>12, <1>13, Zenon DEF IInv

\* A challenge is written; from now on it is issued.
LEMMA SetStep ==
    ASSUME IInv, NEW r \in Requests, RunSet(r)
    PROVE  IInv'
<1> DEFINE ch == req[r].ch
           purpose == req[r].purpose
           new == [purpose |-> purpose, until |-> now + ChallengeTTL]
<1>1. Types /\ RequestsOK /\ Apart /\ ChallengesOK /\ DevicesOK
  BY Zenon DEF IInv
<1>2. MapOK(entries) /\ now \in Nat
  BY <1>1, Zenon DEF Types
<1>3. /\ Writing(req[r])
      /\ req[r].pc \in {"ask1", "ask2", "orphan1", "orphan2"}
      /\ ~Consumes(req[r]) /\ ~Checks(req[r])
      /\ entries' = AfterKvSet(ch, purpose, ChallengeTTL)
      /\ issued' = [issued EXCEPT ![ch] = new]
      /\ Deliver(r, Null)
      /\ store' = store /\ configured' = configured /\ now' = now
      /\ handedOut' = handedOut /\ wins' = wins
  BY DEF RunSet, Outstanding, Writing, Consumes, Checks
<1>4. ch \in Challenges /\ ch \notin Issued /\ ch \notin Devices /\ purpose \in Purposes
  BY <1>1, <1>3, IdsAssumption DEF RequestsOK, Named, Writing
<1>5. now + ChallengeTTL \in Nat /\ now + ChallengeTTL # 0 /\ ChallengeTTL \in Nat
  BY <1>2, TimeAssumption
<1>6. ExpiryAfter(now, ChallengeTTL) = now + ChallengeTTL
  BY <1>5, ForeverAssumption DEF ExpiryAfter
<1>7. /\ MapOK(entries')
      /\ ch \in DOMAIN entries'
      /\ entries'[ch].val = [value |-> purpose, expiresAt |-> now + ChallengeTTL]
      /\ Kept(entries, entries', {ch})
      /\ store # "memory" => DOMAIN entries \subseteq DOMAIN entries'
  <2>1. ch \in Slots /\ purpose \in Purposes \cup DeviceKeys /\ ChallengeTTL \in Nat \cup {Forever}
    BY <1>4, <1>5 DEF Slots
  <2> HIDE DEF ch, purpose
  <2> QED
    BY <1>2, <1>3, <1>6, <2>1, KvSetKept, Zenon
<1> HIDE DEF ch, purpose
<1>8. /\ issued' \in [Challenges -> [purpose : Purposes \cup {"none"}, until : Nat]]
      /\ issued'[ch] = new /\ issued'[ch] # NotIssued
      /\ \A c \in Challenges : c # ch => issued'[c] = issued[c]
  <2>1. issued \in [Challenges -> [purpose : Purposes \cup {"none"}, until : Nat]]
    BY <1>1, Zenon DEF Types
  <2>2. new \in [purpose : Purposes \cup {"none"}, until : Nat] /\ new # NotIssued
    BY <1>4, <1>5 DEF NotIssued
  <2> HIDE DEF new
  <2> QED
    BY <1>3, <1>4, <2>1, <2>2
<1>9. Issued' = Issued \cup {ch}
  BY <1>4, <1>8 DEF Issued
<1>10. /\ req' \in [Requests -> RequestType]
       /\ RequestsOK'
       /\ Apart'
       /\ \A s \in Requests :
             Holding(req'[s]) => \/ Holding(req[s]) /\ req'[s].ch = req[s].ch
                                \/ /\ s = r /\ req'[r].ch = req[r].ch
                                   /\ Consumes(req[r]) /\ req[r].pc = "ask1" /\ Null # Null
  <2>1. \A c \in Issued : c \in Issued' /\ issued'[c] = issued[c]
    BY <1>4, <1>8, <1>9 DEF Issued
  <2>2. \A s \in Requests : s # r /\ Writing(req[s]) => req[s].ch \notin Issued'
    <3>1. \A s \in Requests : Writing(req[s]) => req[s].ch \notin Issued
      BY <1>1 DEF RequestsOK, Named
    <3>2. \A s \in Requests : s # r => req[s].ch # ch
      BY <1>1, <1>3, Zenon DEF Apart, ch
    <3> QED
      BY <1>9, <3>1, <3>2
  <2>3. Null \in Results
    BY DEF Results
  <2> QED
    BY <1>3, <2>1, <2>2, <2>3, DeliverStep, Zenon
<1>11. Types'
  BY <1>1, <1>3, <1>7, <1>8, <1>10, Zenon DEF Types, MapOK, IsMapOver, WellOrdered
<1>12. ChallengesOK'
  <2> SUFFICES ASSUME NEW c \in Challenges
               PROVE  /\ handedOut[c] <= 1
                      /\ c \notin Issued' => handedOut[c] = 0
                      /\ c \in DOMAIN entries' =>
                            /\ c \in Issued'
                            /\ handedOut[c] = 0
                            /\ \A s \in Requests : Holding(req'[s]) => req'[s].ch # c
                            /\ entries'[c].val.value = issued'[c].purpose
                            /\ entries'[c].val.expiresAt = issued'[c].until
    BY <1>3, Zenon DEF ChallengesOK, Holding, Consumes
  <2>1. \A s \in Requests : Holding(req'[s]) => Holding(req[s]) /\ req'[s].ch = req[s].ch
    BY <1>10, Zenon
  <2>2. /\ handedOut[c] <= 1
        /\ c \notin Issued => handedOut[c] = 0
        /\ c \in DOMAIN entries =>
              /\ c \in Issued
              /\ handedOut[c] = 0
              /\ \A s \in Requests : Holding(req[s]) => req[s].ch # c
              /\ entries[c].val.value = issued[c].purpose
              /\ entries[c].val.expiresAt = issued[c].until
    BY <1>1, Zenon DEF ChallengesOK
  <2>3. CASE c = ch
    <3>1. c \in Issued' /\ handedOut[c] = 0
      BY <1>4, <1>9, <2>2, <2>3
    <3>2. \A s \in Requests : Holding(req[s]) => req[s].ch # c
      BY <1>1, <1>4, <2>3, Zenon DEF RequestsOK, Granted, IssuedFor
    <3>3. entries'[c].val.value = issued'[c].purpose /\ entries'[c].val.expiresAt = issued'[c].until
      BY <1>7, <1>8, <2>3
    <3> QED
      BY <2>1, <2>2, <3>1, <3>2, <3>3, Zenon
  <2>4. CASE c # ch
    <3>1. c \in DOMAIN entries' => c \in DOMAIN entries /\ entries'[c].val = entries[c].val
      BY <1>7, <2>4 DEF Kept
    <3>2. (c \in Issued' <=> c \in Issued) /\ issued'[c] = issued[c]
      BY <1>8, <1>9, <2>4
    <3> QED
      BY <2>1, <2>2, <3>1, <3>2, Zenon
  <2> QED
    BY <2>3, <2>4
<1>13. DevicesOK'
  <2>1. \A d \in Devices :
              /\ d \in DOMAIN entries' => d \in DOMAIN entries /\ entries'[d].val = entries[d].val
              /\ store = "upstash" /\ d \in DOMAIN entries => d \in DOMAIN entries'
    BY <1>4, <1>7 DEF Kept
  <2> QED
    BY <1>1, <1>3, <2>1, DevicesKeep, Zenon
<1> QED
  BY <1>10, <1>11, <1>12, <1>13, Zenon DEF IInv

\* A device that is taken stays bound as it was.
LEMMA SetRefusedStep ==
    ASSUME IInv, NEW r \in Requests, RunSetIfAbsent(r),
           Lookup(entries, req[r].dev, now) # Null
    PROVE  IInv'
<1> DEFINE d == req[r].dev
           key == req[r].key
<1>1. Types /\ RequestsOK /\ Apart /\ ChallengesOK /\ DevicesOK
  BY Zenon DEF IInv
<1>2. MapOK(entries) /\ now \in Nat
  BY <1>1, Zenon DEF Types
<1>3. /\ Consumes(req[r]) /\ ~Checks(req[r])
      /\ req[r].pc \in {"ask2", "orphan2"}
      /\ entries' = AfterKvSetIfAbsent(d, key, Forever)
      /\ Deliver(r, Null)
      /\ store' = store /\ configured' = configured /\ now' = now
      /\ issued' = issued /\ handedOut' = handedOut /\ wins' = wins
  BY DEF RunSetIfAbsent, Outstanding, Consumes, Checks, Deliver
<1>4. d \in Devices /\ key \in DeviceKeys
  BY <1>1, <1>3, Zenon DEF RequestsOK, Named
<1>5. /\ MapOK(entries')
      /\ Kept(entries, entries', {})
      /\ store # "memory" => entries' = entries
  <2>1. d \in Slots /\ key \in Purposes \cup DeviceKeys /\ Forever \in Nat \cup {Forever}
    BY <1>4 DEF Slots
  <2>2. Lookup(entries, d, now) # Null
    OBVIOUS
  <2> HIDE DEF d, key
  <2> QED
    BY <1>2, <1>3, <2>1, <2>2, KvSetIfAbsentKept, Zenon
<1>6. Issued' = Issued
  BY <1>3 DEF Issued
<1>7. /\ req' \in [Requests -> RequestType]
      /\ RequestsOK'
      /\ Apart'
      /\ \A s \in Requests :
            Holding(req'[s]) => \/ Holding(req[s]) /\ req'[s].ch = req[s].ch
                               \/ /\ s = r /\ req'[r].ch = req[r].ch
                                  /\ Consumes(req[r]) /\ req[r].pc = "ask1" /\ Null # Null
  <2>1. \A c \in Issued : c \in Issued' /\ issued'[c] = issued[c]
    BY <1>3, <1>6, Zenon
  <2>2. \A s \in Requests : s # r /\ Writing(req[s]) => req[s].ch \notin Issued'
    BY <1>1, <1>6 DEF RequestsOK, Named
  <2>3. Null \in Results /\ req[r].pc \in {"ask1", "ask2", "orphan1", "orphan2"}
    BY <1>3 DEF Results
  <2> QED
    BY <1>3, <2>1, <2>2, <2>3, DeliverStep, Zenon
<1>8. Types'
  BY <1>1, <1>3, <1>5, <1>7, Zenon DEF Types, MapOK, IsMapOver, WellOrdered
<1>9. ChallengesOK'
  <2>1. \A s \in Requests : Holding(req'[s]) => Holding(req[s]) /\ req'[s].ch = req[s].ch
    BY <1>7, Zenon
  <2>2. \A c \in DOMAIN entries' : c \in DOMAIN entries /\ entries'[c].val = entries[c].val
    BY <1>5 DEF Kept
  <2> QED
    BY <1>1, <1>3, <2>1, <2>2, ChallengesKeep, Zenon
<1>10. DevicesOK'
  <2>1. \A e \in Devices :
              /\ e \in DOMAIN entries' => e \in DOMAIN entries /\ entries'[e].val = entries[e].val
              /\ store = "upstash" /\ e \in DOMAIN entries => e \in DOMAIN entries'
    BY <1>5 DEF Kept
  <2> QED
    BY <1>1, <1>3, <2>1, DevicesKeep, Zenon
<1> QED
  BY <1>7, <1>8, <1>9, <1>10, Zenon DEF IInv

\* The requests D, after those that have to have learnt of a new key.
Learnt(L, D, d, key) ==
    \A s \in Requests :
       /\ L[s].ch = D[s].ch /\ L[s].dev = D[s].dev /\ L[s].got = D[s].got
       /\ L[s].nonce = D[s].nonce /\ L[s].purpose = D[s].purpose
       /\ D[s].bound \subseteq L[s].bound
       /\ Reading(D[s]) /\ D[s].dev = d => key \in L[s].bound
       /\ Named(L[s]) <=> Named(D[s])
       /\ Writing(L[s]) <=> Writing(D[s])
       /\ Holding(L[s]) <=> Holding(D[s])
       /\ Reading(L[s]) <=> Reading(D[s])
       /\ HasRead(L[s]) <=> HasRead(D[s])

\* The requests that learn of a key change in nothing else.
LEMMA LearningFacts ==
    ASSUME NEW D \in [Requests -> RequestType], NEW d, NEW key \in DeviceKeys
    PROVE  /\ Learning(D, d, key) \in [Requests -> RequestType]
           /\ Learnt(Learning(D, d, key), D, d, key)
<1> DEFINE L == Learning(D, d, key)
<1>1. ASSUME NEW s \in Requests
      PROVE  /\ L[s] \in RequestType
             /\ L[s].pc = D[s].pc /\ L[s].kind = D[s].kind /\ L[s].key = D[s].key
             /\ L[s].ch = D[s].ch /\ L[s].dev = D[s].dev /\ L[s].got = D[s].got
             /\ L[s].nonce = D[s].nonce /\ L[s].purpose = D[s].purpose
             /\ D[s].bound \subseteq L[s].bound
             /\ Reading(D[s]) /\ D[s].dev = d => key \in L[s].bound
  <2>1. D[s] \in RequestType
    OBVIOUS
  <2>2. CASE Reading(D[s]) /\ D[s].dev = d
    <3>1. L[s] = [D[s] EXCEPT !.bound = @ \cup {key}]
      BY <2>2 DEF Learning, Reading, Checks
    <3> HIDE DEF L
    <3> QED
      BY <2>1, <3>1 DEF RequestType
  <2>3. CASE ~(Reading(D[s]) /\ D[s].dev = d)
    <3>1. L[s] = D[s]
      BY <2>3 DEF Learning, Reading, Checks
    <3> HIDE DEF L
    <3> QED
      BY <2>1, <2>3, <3>1
  <2> QED
    BY <2>2, <2>3
<1>2. L = [s \in Requests |-> L[s]]
  BY DEF Learning
<1> HIDE DEF L
<1>3. L \in [Requests -> RequestType]
  BY <1>1, <1>2
<1>4. \A s \in Requests :
         /\ Named(L[s]) <=> Named(D[s])
         /\ Writing(L[s]) <=> Writing(D[s])
         /\ Holding(L[s]) <=> Holding(D[s])
         /\ Reading(L[s]) <=> Reading(D[s])
         /\ HasRead(L[s]) <=> HasRead(D[s])
  <2> TAKE s \in Requests
  <2>1. /\ L[s].pc = D[s].pc /\ L[s].kind = D[s].kind /\ L[s].key = D[s].key
        /\ L[s].ch = D[s].ch /\ L[s].dev = D[s].dev /\ L[s].got = D[s].got
        /\ L[s].purpose = D[s].purpose
    BY <1>1, Zenon
  <2> QED
    BY <2>1 DEF Named, Writing, Holding, Reading, HasRead, Consumes, Checks
<1>5. Learnt(L, D, d, key)
  BY <1>1, <1>4, Zenon DEF Learnt
<1> QED
  BY <1>3, <1>5, Zenon DEF L

\* The last element of a sequence, as BoundKey takes it.
LastOf(w) == IF w = <<>> THEN {} ELSE {w[Len(w)]}

\* A device that is free is bound.
LEMMA SetBoundStep ==
    ASSUME IInv, NEW r \in Requests, RunSetIfAbsent(r),
           NEW d, d = req[r].dev, NEW key, key = req[r].key,
           Lookup(entries, d, now) = Null
    PROVE  IInv'
<1> DEFINE D == Delivered(r, "OK")
<1>1. Types /\ RequestsOK /\ Apart /\ ChallengesOK /\ DevicesOK
  BY Zenon DEF IInv
<1>2. MapOK(entries) /\ now \in Nat /\ wins \in [Devices -> Seq(DeviceKeys)]
  BY <1>1, Zenon DEF Types
<1>3. /\ Consumes(req[r]) /\ ~Checks(req[r])
      /\ req[r].pc \in {"ask2", "orphan2"}
      /\ entries' = AfterKvSetIfAbsent(d, key, Forever)
      /\ req' = Learning(D, d, key)
      /\ wins' = [wins EXCEPT ![d] = Append(@, key)]
      /\ store' = store /\ configured' = configured /\ now' = now
      /\ issued' = issued /\ handedOut' = handedOut
  BY DEF RunSetIfAbsent, Outstanding, Consumes, Checks
<1>4. d \in Devices /\ key \in DeviceKeys /\ Named(req[r])
  BY <1>1, <1>3, Zenon DEF RequestsOK, Named
<1>5. /\ MapOK(entries')
      /\ d \in DOMAIN entries'
      /\ entries'[d].val.value = key /\ entries'[d].val.expiresAt = Forever
      /\ Kept(entries, entries', {d})
      /\ store # "memory" => DOMAIN entries \subseteq DOMAIN entries'
  <2>1. d \in Slots /\ key \in Purposes \cup DeviceKeys /\ Forever \in Nat \cup {Forever}
    BY <1>4 DEF Slots
  <2>2. Lookup(entries, d, now) = Null
    OBVIOUS
  <2>3. /\ MapOK(entries')
        /\ d \in DOMAIN entries'
        /\ entries'[d].val = [value |-> key, expiresAt |-> ExpiryAfter(now, Forever)]
        /\ Kept(entries, entries', {d})
        /\ store # "memory" => DOMAIN entries \subseteq DOMAIN entries'
    BY <1>2, <1>3, <2>1, <2>2, KvSetIfAbsentKept, Zenon
  <2> QED
    BY <2>3 DEF ExpiryAfter
<1>6. d \notin DOMAIN entries
  <2> SUFFICES ASSUME d \in DOMAIN entries PROVE FALSE
    OBVIOUS
  <2>1. /\ entries[d].val.value \in BoundKey(d)
        /\ entries[d].val.expiresAt = Forever
    BY <1>1, <1>4, Zenon DEF DevicesOK
  <2>2. Lookup(entries, d, now) = entries[d].val.value
    BY <2>1, Zenon DEF Lookup, IsExpired
  <2>3. BoundKey(d) \subseteq DeviceKeys
    <3>1. wins[d] \in Seq(DeviceKeys)
      BY <1>2, <1>4
    <3> QED
      BY <3>1 DEF BoundKey
  <2> QED
    BY <2>1, <2>2, <2>3, IdsAssumption
<1>7. /\ D \in [Requests -> RequestType]
      /\ \A s \in Requests : s # r => D[s] = req[s]
      /\ D[r].ch = req[r].ch \/ D[r].ch = UnknownId
      /\ ~Writing(D[r]) /\ Named(D[r])
      /\ D[r].nonce => req[r].nonce /\ D[r].ch = req[r].ch /\ D[r].purpose = req[r].purpose
      /\ ~Holding(D[r]) /\ ~Reading(D[r]) /\ ~HasRead(D[r])
  <2>1. "OK" \in Results /\ req[r].pc \in {"ask1", "ask2", "orphan1", "orphan2"} /\ req[r].pc # "ask1"
    BY <1>3 DEF Results
  <2>2. ~Reading(req[r])
    BY <1>3, Zenon DEF Reading
  <2>3. /\ D \in [Requests -> RequestType]
        /\ \A s \in Requests : s # r => D[s] = req[s]
        /\ D[r].ch = req[r].ch \/ D[r].ch = UnknownId
        /\ ~Writing(D[r]) /\ Named(D[r])
        /\ D[r].nonce => req[r].nonce /\ D[r].ch = req[r].ch /\ D[r].purpose = req[r].purpose
        /\ Holding(D[r]) => /\ Consumes(req[r]) /\ req[r].pc = "ask1"
                            /\ "OK" # Null /\ D[r].got = "OK" /\ D[r].ch = req[r].ch
        /\ Reading(D[r]) => /\ Reading(req[r])
                            /\ D[r].bound = req[r].bound /\ D[r].dev = req[r].dev
        /\ HasRead(D[r]) => /\ Checks(req[r]) /\ req[r].pc = "ask2"
                            /\ "OK" # Null /\ D[r].got = "OK" /\ D[r].bound = req[r].bound
    BY <1>1, <1>4, <2>1, DeliveredFacts, Zenon
  <2> QED
    BY <1>3, <2>1, <2>2, <2>3, Zenon
<1> HIDE DEF D
<1>8. /\ req' \in [Requests -> RequestType]
      /\ \A s \in Requests :
            /\ req'[s].ch = D[s].ch /\ req'[s].dev = D[s].dev /\ req'[s].got = D[s].got
            /\ req'[s].nonce = D[s].nonce /\ req'[s].purpose = D[s].purpose
            /\ D[s].bound \subseteq req'[s].bound
            /\ Reading(D[s]) /\ D[s].dev = d => key \in req'[s].bound
            /\ Named(req'[s]) <=> Named(D[s])
            /\ Writing(req'[s]) <=> Writing(D[s])
            /\ Holding(req'[s]) <=> Holding(D[s])
            /\ Reading(req'[s]) <=> Reading(D[s])
            /\ HasRead(req'[s]) <=> HasRead(D[s])
  <2>1. D \in [Requests -> RequestType] /\ key \in DeviceKeys
    BY <1>4, <1>7, Zenon
  <2>2. /\ Learning(D, d, key) \in [Requests -> RequestType]
        /\ Learnt(Learning(D, d, key), D, d, key)
    BY <2>1, LearningFacts, Zenon
  <2>3. req' \in [Requests -> RequestType] /\ Learnt(req', D, d, key)
    BY <1>3, <2>2, Zenon
  <2> QED
    BY <2>3, Zenon DEF Learnt
<1>9. Issued' = Issued
  BY <1>3 DEF Issued
<1>10. /\ wins' \in [Devices -> Seq(DeviceKeys)]
       /\ wins'[d] # <<>> /\ Len(wins'[d]) = Len(wins[d]) + 1 /\ LastOf(wins'[d]) = {key}
       /\ \A e \in Devices : e # d => wins'[e] = wins[e]
  <2>1. wins[d] \in Seq(DeviceKeys)
    BY <1>2, <1>4
  <2>2. wins'[d] = Append(wins[d], key) /\ \A e \in Devices : e # d => wins'[e] = wins[e]
    BY <1>2, <1>3, <1>4
  <2>3. /\ Append(wins[d], key) \in Seq(DeviceKeys)
        /\ Append(wins[d], key) # <<>>
        /\ Len(Append(wins[d], key)) = Len(wins[d]) + 1
        /\ Append(wins[d], key)[Len(wins[d]) + 1] = key
    BY <1>4, <2>1
  <2>4. wins' \in [Devices -> Seq(DeviceKeys)]
    BY <1>2, <1>3, <1>4, <2>3
  <2>5. LastOf(wins'[d]) = {key}
    BY <2>2, <2>3 DEF LastOf
  <2> QED
    BY <2>2, <2>3, <2>4, <2>5
<1>11. RequestsOK'
  <2> SUFFICES ASSUME NEW s \in Requests
               PROVE  (Named(req[s]) /\ Granted(req[s]) /\ Learned(req[s]))'
    BY Zenon DEF RequestsOK
  <2>1. Named(D[s]) /\ Granted(D[s]) /\ Learned(D[s])
    <3>1. CASE s = r
      <4>1. Granted(req[r])
        BY <1>1, Zenon DEF RequestsOK
      <4> QED
        BY <1>7, <3>1, <4>1, Zenon DEF Granted, Learned
    <3>2. CASE s # r
      BY <1>1, <1>7, <3>2, Zenon DEF RequestsOK
    <3> QED
      BY <3>1, <3>2
  <2>2. Named(req[s])'
    <3>1. Named(req'[s])
      BY <1>8, <2>1, Zenon
    <3> QED
      BY <1>9, <3>1, Zenon DEF Named, Writing, Consumes
  <2>3. Granted(req[s])'
    <3>1. Granted(req'[s])
      BY <1>8, <2>1, Zenon DEF Granted
    <3> QED
      BY <1>3, <1>9, <3>1, Zenon DEF Granted, IssuedFor, Holding, Consumes
  <2>4. Learned(req[s])'
    <3>1. ASSUME Reading(req'[s])
          PROVE  LastOf(wins'[req'[s].dev]) \subseteq req'[s].bound
      <4>1. Reading(D[s]) /\ req'[s].dev = D[s].dev /\ D[s].bound \subseteq req'[s].bound
        BY <1>8, <3>1, Zenon
      <4>2. LastOf(wins[D[s].dev]) \subseteq D[s].bound
        BY <2>1, <4>1, Zenon DEF Learned, BoundKey, LastOf
      <4>3. D[s].dev \in Devices
        BY <2>1, <4>1, Zenon DEF Named, Reading, Checks, Consumes
      <4>4. CASE D[s].dev = d
        <5>1. key \in req'[s].bound /\ LastOf(wins'[D[s].dev]) = {key}
          BY <1>8, <1>10, <4>1, <4>4, Zenon
        <5> QED
          BY <4>1, <5>1
      <4>5. CASE D[s].dev # d
        <5>1. wins'[D[s].dev] = wins[D[s].dev]
          BY <1>10, <4>3, <4>5, Zenon
        <5> QED
          BY <4>1, <4>2, <5>1
      <4> QED
        BY <4>4, <4>5
    <3>2. HasRead(req'[s]) => req'[s].got \in req'[s].bound
      BY <1>8, <2>1 DEF Learned
    <3> QED
      BY <3>1, <3>2, Zenon DEF Learned, BoundKey, LastOf, Reading, HasRead, Checks
  <2> QED
    BY <2>2, <2>3, <2>4, Zenon
<1>12. Apart'
  <2> SUFFICES ASSUME NEW a \in Requests, NEW b \in Requests, a # b
               PROVE  /\ Writing(req'[a]) => req'[a].ch # req'[b].ch
                      /\ Holding(req'[a]) /\ Holding(req'[b]) => req'[a].ch # req'[b].ch
    BY Zenon DEF Apart, Writing, Holding, Consumes
  <2>1. /\ Writing(req[a]) => req[a].ch # req[b].ch
        /\ Writing(req[a]) => req[a].ch # UnknownId
        /\ Holding(req[a]) /\ Holding(req[b]) => req[a].ch # req[b].ch
    BY <1>1, IdsAssumption DEF Apart, RequestsOK, Named
  <2>2. \A s \in Requests :
           /\ req'[s].ch = req[s].ch \/ req'[s].ch = UnknownId
           /\ Writing(req'[s]) => Writing(req[s]) /\ req'[s].ch = req[s].ch
           /\ Holding(req'[s]) => Holding(req[s]) /\ req'[s].ch = req[s].ch
    <3> TAKE s \in Requests
    <3>1. CASE s = r
      BY <1>7, <1>8, <3>1, Zenon
    <3>2. CASE s # r
      BY <1>7, <1>8, <3>2, Zenon
    <3> QED
      BY <3>1, <3>2
  <2> QED
    BY <2>1, <2>2, Zenon
<1>13. Types'
  BY <1>1, <1>3, <1>5, <1>8, <1>10, Zenon DEF Types, MapOK, IsMapOver, WellOrdered
<1>14. ChallengesOK'
  <2>1. \A s \in Requests : Holding(req'[s]) => Holding(req[s]) /\ req'[s].ch = req[s].ch
    <3> TAKE s \in Requests
    <3>1. CASE s = r
      BY <1>7, <1>8, <3>1, Zenon
    <3>2. CASE s # r
      BY <1>7, <1>8, <3>2, Zenon
    <3> QED
      BY <3>1, <3>2
  <2>2. \A c \in Challenges : c \in DOMAIN entries' =>
           c \in DOMAIN entries /\ entries'[c].val = entries[c].val
    BY <1>4, <1>5, IdsAssumption DEF Kept
  <2> QED
    BY <1>1, <1>3, <2>1, <2>2, ChallengesKeep, Zenon
<1>15. DevicesOK'
  <2> SUFFICES ASSUME NEW e \in Devices
               PROVE  /\ e \in DOMAIN entries' =>
                            /\ entries'[e].val.value \in LastOf(wins'[e])
                            /\ entries'[e].val.expiresAt = Forever
                      /\ store = "upstash" =>
                            /\ Len(wins'[e]) <= 1
                            /\ wins'[e] # <<>> => e \in DOMAIN entries'
    BY <1>3, Zenon DEF DevicesOK, BoundKey, LastOf
  <2>1. /\ e \in DOMAIN entries =>
              /\ entries[e].val.value \in LastOf(wins[e])
              /\ entries[e].val.expiresAt = Forever
        /\ store = "upstash" =>
              /\ Len(wins[e]) <= 1
              /\ wins[e] # <<>> => e \in DOMAIN entries
    BY <1>1, Zenon DEF DevicesOK, BoundKey, LastOf
  <2>2. CASE e = d
    <3>1. store = "upstash" => wins[d] = <<>> /\ Len(wins'[d]) = 1
      BY <1>6, <1>10, <2>1, <2>2
    <3> QED
      BY <1>5, <1>10, <2>2, <3>1
  <2>3. CASE e # d
    <3>1. wins'[e] = wins[e]
      BY <1>10, <2>3, Zenon
    <3>2. /\ e \in DOMAIN entries' => e \in DOMAIN entries /\ entries'[e].val = entries[e].val
          /\ store = "upstash" /\ e \in DOMAIN entries => e \in DOMAIN entries'
      BY <1>5, <2>3 DEF Kept
    <3> QED
      BY <2>1, <3>1, <3>2, Zenon
  <2> QED
    BY <2>2, <2>3
<1> QED
  BY <1>11, <1>12, <1>13, <1>14, <1>15, Zenon DEF IInv

-----------------------------------------------------------------------------
(* All steps.                                                              *)

\* A request of any kind arrives.
LEMMA Arrival ==
    ASSUME IInv, NEW r \in Requests, NEW kind \in Kinds \ {"none"},
           NEW purpose \in Purposes, NEW ch \in Challenges \cup {UnknownId},
           NEW dev \in Devices \cup {UnknownId}, NEW key \in DeviceKeys \cup {UnknownId},
           Start(r, kind, purpose, ch, dev, key),
           kind = "challenge" => ch \in FreshIds,
           kind # "challenge" => /\ ch \in Issued \cup {UnknownId}
                                 /\ dev \in Devices /\ key \in DeviceKeys
    PROVE  IInv'
<1> DEFINE bound == IF kind \in {"verify", "guard"} THEN BoundKey(dev) ELSE {}
           q == [pc |-> "ask1", kind |-> kind, purpose |-> purpose, ch |-> ch,
                 dev |-> dev, key |-> key, got |-> Null, nonce |-> FALSE,
                 bound |-> bound, answer |-> "none"]
<1>1. /\ req' = [req EXCEPT ![r] = q]
      /\ UNCHANGED <<store, configured, entries, now, history>>
  BY Zenon DEF Start
<1>2. bound \in SUBSET DeviceKeys
  <2>1. CASE kind \in {"verify", "guard"}
    <3>1. dev \in Devices
      BY <2>1
    <3>2. wins[dev] \in Seq(DeviceKeys)
      BY <3>1 DEF IInv, Types
    <3>3. BoundKey(dev) \subseteq DeviceKeys
      BY <3>2 DEF BoundKey
    <3> QED
      BY <2>1, <3>3
  <2>2. CASE kind \notin {"verify", "guard"}
    BY <2>2
  <2> QED
    BY <2>1, <2>2
<1>3. kind \in {"verify", "guard"} => bound = BoundKey(dev)
  OBVIOUS
<1> HIDE DEF bound
<1>4. q \in RequestType
  <2>1. "ask1" \in Pcs /\ "none" \in Answers /\ Null \in Results
    BY DEF Pcs, Answers, Results
  <2>2. purpose \in Purposes \cup {"none"} /\ kind \in Kinds
    OBVIOUS
  <2> QED
    BY <1>2, <2>1, <2>2, Zenon DEF RequestType
<1>5. /\ q.pc = "ask1" /\ q.kind = kind /\ ~q.nonce /\ q.ch = ch /\ q.dev = dev
      /\ q.key = key /\ q.purpose = purpose /\ q.bound = bound
  OBVIOUS
<1> HIDE DEF q
<1>6. kind = "challenge" => /\ ch \in Challenges \ Issued
                           /\ \A s \in Requests : req[s].ch # ch
  BY DEF FreshIds
<1>7. kind \in {"enroll", "verify", "guard"} => kind # "challenge"
  OBVIOUS
<1>8. Named(q)
  BY <1>5, <1>6, <1>7 DEF Named, Consumes, Writing
<1>9. Checks(q) => q.bound = BoundKey(q.dev)
  BY <1>3, <1>5, Zenon DEF Checks
<1>10. Writing(q) => \A s \in Requests : req[s].ch # q.ch
  BY <1>5, <1>6, Zenon DEF Writing
<1>11. q.kind # "none"
  BY <1>5
<1> QED
  BY <1>1, <1>4, <1>5, <1>8, <1>9, <1>10, <1>11, StartStep, Zenon

\* A request ends with an answer.
LEMMA EndStep ==
    ASSUME IInv, NEW r \in Requests, NEW answer \in Answers, Answer(r, answer),
           UNCHANGED <<store, configured, entries, now, issued, wins>>,
           handedOut' = handedOut \/ (Holding(req[r]) /\ HandOut(r))
    PROVE  IInv'
<1> DEFINE q == Free(answer)
<1>1. req' = [req EXCEPT ![r] = q]
  BY Zenon DEF Answer
<1>2. /\ q \in RequestType
      /\ q.ch = UnknownId
      /\ ~Writing(q) /\ ~Holding(q)
      /\ ~Reading(q) /\ ~HasRead(q)
      /\ Named(q) /\ ~q.nonce
  BY FreeFacts, Zenon
<1> HIDE DEF q
<1>3. Learned(q)
  BY <1>2, Zenon DEF Learned
<1> QED
  BY <1>1, <1>2, <1>3, ResumeStep, Zenon

\* A request goes on to its device.
LEMMA AskNextStep ==
    ASSUME IInv, NEW r \in Requests, Consumes(req[r]), req[r].pc = "got1", AskNext(r),
           UNCHANGED <<store, configured, entries, now, issued, wins>>,
           IF NonceValid(req[r]) THEN HandOut(r) ELSE handedOut' = handedOut
    PROVE  IInv'
<1> DEFINE o == req[r]
           valid == NonceValid(o)
           q == [o EXCEPT !.pc = "ask2", !.nonce = valid]
<1>1. Types /\ Named(o) /\ Granted(o) /\ Learned(o)
  BY Zenon DEF IInv, RequestsOK
<1>2. o \in RequestType
  BY <1>1 DEF Types
<1>3. valid \in BOOLEAN
  BY DEF NonceValid
<1>4. valid => Holding(o) /\ IssuedFor(o.ch, o.purpose)
  <2> SUFFICES ASSUME NonceValid(o) PROVE Holding(o) /\ IssuedFor(o.ch, o.purpose)
    BY Zenon
  <2>1. o.got = o.purpose /\ o.purpose \in Purposes
    BY <1>1, Zenon DEF NonceValid, Named
  <2>2. Holding(o)
    BY <2>1, IdsAssumption DEF Holding
  <2> QED
    BY <1>1, <2>1, <2>2, Zenon DEF Granted
<1>5. req' = [req EXCEPT ![r] = q]
  <2>1. req' = [req EXCEPT ![r].pc = "ask2", ![r].nonce = valid]
    BY Zenon DEF AskNext
  <2>2. req \in [Requests -> RequestType]
    BY <1>1, Zenon DEF Types
  <2> HIDE DEF valid
  <2> QED
    BY <2>1, <2>2
<1>6. handedOut' = handedOut \/ (Holding(o) /\ HandOut(r))
  BY <1>4, Zenon
<1> HIDE DEF valid, o
<1>7. /\ q \in RequestType
      /\ q.pc = "ask2" /\ q.nonce = valid /\ q.kind = o.kind /\ q.ch = o.ch /\ q.dev = o.dev
      /\ q.key = o.key /\ q.purpose = o.purpose /\ q.got = o.got /\ q.bound = o.bound
  BY <1>2, <1>3 DEF RequestType, Pcs
<1> HIDE DEF q
<1>8. Consumes(o) /\ o.pc = "got1"
  BY DEF o
<1>9. ~Holding(q) /\ ~Writing(q) /\ Named(q)
  BY <1>1, <1>7, <1>8 DEF Holding, Writing, Named, Consumes
<1>10. Learned(q)
  BY <1>1, <1>7, <1>8, Zenon DEF Learned, Reading, HasRead, Checks
<1>11. q.nonce => IssuedFor(q.ch, q.purpose)
  BY <1>4, <1>7, Zenon
<1>12. q \in RequestType /\ (q.ch = o.ch \/ q.ch = UnknownId)
  BY <1>7, Zenon
<1> QED
  BY <1>5, <1>6, <1>9, <1>10, <1>11, <1>12, ResumeStep, Zenon DEF o

\* The handler gives up on the store.
LEMMA OrphanStep ==
    ASSUME IInv, NEW r \in Requests, req[r].pc \in {"ask1", "ask2"},
           req' = [req EXCEPT ![r].pc = IF @ = "ask1" THEN "orphan1" ELSE "orphan2",
                              ![r].bound = {}, ![r].answer = "error"],
           UNCHANGED <<store, configured, entries, now, history>>
    PROVE  IInv'
<1> DEFINE o == req[r]
           pc == IF o.pc = "ask1" THEN "orphan1" ELSE "orphan2"
           q == [o EXCEPT !.pc = pc, !.bound = {}, !.answer = "error"]
<1>1. Types /\ Named(o) /\ Granted(o)
  BY Zenon DEF IInv, RequestsOK
<1>2. o \in RequestType
  BY <1>1 DEF Types
<1>3. req' = [req EXCEPT ![r] = q]
  BY <1>1 DEF Types
<1>4. pc \in {"orphan1", "orphan2"} /\ (pc = "orphan1" => o.pc = "ask1")
  OBVIOUS
<1> HIDE DEF o, pc
<1>5. /\ q \in RequestType
      /\ q.pc = pc /\ q.nonce = o.nonce /\ q.kind = o.kind /\ q.ch = o.ch /\ q.dev = o.dev
      /\ q.key = o.key /\ q.purpose = o.purpose /\ q.got = o.got
  <2>1. pc \in Pcs /\ "error" \in Answers /\ {} \in SUBSET DeviceKeys
    BY <1>4 DEF Pcs, Answers
  <2> QED
    BY <1>2, <2>1 DEF RequestType
<1> HIDE DEF q
<1>6. /\ ~Holding(q) /\ ~Reading(q) /\ ~HasRead(q)
      /\ Writing(q) => Writing(o)
  BY <1>4, <1>5 DEF Holding, Reading, HasRead, Writing
<1>7. Named(q)
  BY <1>1, <1>5, <1>6 DEF Named, Consumes
<1>8. Learned(q)
  BY <1>6, Zenon DEF Learned
<1>9. q.nonce => IssuedFor(q.ch, q.purpose)
  BY <1>1, <1>5, Zenon DEF Granted
<1>10. /\ q \in RequestType
       /\ q.ch = o.ch \/ q.ch = UnknownId
       /\ Writing(q) => Writing(o) /\ q.ch = o.ch
       /\ ~Holding(q)
  BY <1>5, <1>6, Zenon
<1>11. /\ UNCHANGED <<store, configured, entries, now, issued, wins>>
       /\ handedOut' = handedOut
  BY DEF history
<1> QED
  BY <1>3, <1>7, <1>8, <1>9, <1>10, <1>11, ResumeStep, Zenon DEF o

\* An administrator deletes a device.
LEMMA DeleteStep ==
    ASSUME IInv, NEW d \in Devices, AdminDelete(d)
    PROVE  IInv'
<1>1. Types /\ RequestsOK /\ Apart /\ ChallengesOK /\ DevicesOK
  BY Zenon DEF IInv
<1>2. MapOK(entries) /\ wins \in [Devices -> Seq(DeviceKeys)]
  BY <1>1, Zenon DEF Types
<1>3. /\ entries' = Without(entries, {d})
      /\ wins' = [wins EXCEPT ![d] = <<>>]
      /\ store' = store /\ configured' = configured /\ now' = now
      /\ req' = req /\ issued' = issued /\ handedOut' = handedOut
  BY DEF AdminDelete, AfterDelete
<1>4. /\ MapOK(entries')
      /\ DOMAIN entries' = DOMAIN entries \ {d}
      /\ Kept(entries, entries', {})
  BY <1>2, <1>3, WithoutKept, Zenon
<1>5. /\ wins' \in [Devices -> Seq(DeviceKeys)]
      /\ wins'[d] = <<>>
      /\ \A e \in Devices : e # d => wins'[e] = wins[e]
  BY <1>2, <1>3
<1>6. Issued' = Issued
  BY <1>3 DEF Issued
<1>7. Types'
  BY <1>1, <1>3, <1>4, <1>5, Zenon DEF Types, MapOK, IsMapOver, WellOrdered
<1>8. RequestsOK'
  <2> SUFFICES ASSUME NEW s \in Requests
               PROVE  (Named(req[s]) /\ Granted(req[s]) /\ Learned(req[s]))'
    BY Zenon DEF RequestsOK
  <2>1. Named(req[s]) /\ Granted(req[s]) /\ Learned(req[s])
    BY <1>1, Zenon DEF RequestsOK
  <2>2. (Named(req[s]) /\ Granted(req[s]))'
    BY <1>3, <1>6, <2>1, Zenon DEF Named, Granted, IssuedFor, Writing, Holding, Consumes
  <2>3. Reading(req[s]) => LastOf(wins'[req[s].dev]) \subseteq req[s].bound
    <3>1. Reading(req[s]) => req[s].dev \in Devices
      BY <2>1, Zenon DEF Named, Reading, Checks, Consumes
    <3>2. Reading(req[s]) => LastOf(wins[req[s].dev]) \subseteq req[s].bound
      BY <2>1, Zenon DEF Learned, BoundKey, LastOf
    <3>3. LastOf(wins'[d]) = {}
      BY <1>5 DEF LastOf
    <3> QED
      BY <1>5, <3>1, <3>2, <3>3
  <2>4. Learned(req[s])'
    BY <1>3, <2>1, <2>3, Zenon DEF Learned, BoundKey, LastOf, Reading, HasRead, Checks
  <2> QED
    BY <2>2, <2>4, Zenon
<1>9. Apart'
  BY <1>1, <1>3, Zenon DEF Apart, Writing, Holding, Consumes
<1>10. ChallengesOK'
  <2>1. \A c \in DOMAIN entries' : c \in DOMAIN entries /\ entries'[c].val = entries[c].val
    BY <1>4 DEF Kept
  <2> QED
    BY <1>1, <1>3, <2>1, ChallengesKeep, Zenon
<1>11. DevicesOK'
  <2> SUFFICES ASSUME NEW e \in Devices
               PROVE  /\ e \in DOMAIN entries' =>
                            /\ entries'[e].val.value \in LastOf(wins'[e])
                            /\ entries'[e].val.expiresAt = Forever
                      /\ store = "upstash" =>
                            /\ Len(wins'[e]) <= 1
                            /\ wins'[e] # <<>> => e \in DOMAIN entries'
    BY <1>3, Zenon DEF DevicesOK, BoundKey, LastOf
  <2>1. /\ e \in DOMAIN entries =>
              /\ entries[e].val.value \in LastOf(wins[e])
              /\ entries[e].val.expiresAt = Forever
        /\ store = "upstash" =>
              /\ Len(wins[e]) <= 1
              /\ wins[e] # <<>> => e \in DOMAIN entries
    BY <1>1, Zenon DEF DevicesOK, BoundKey, LastOf
  <2>2. CASE e = d
    BY <1>4, <1>5, <2>2
  <2>3. CASE e # d
    <3>1. wins'[e] = wins[e]
      BY <1>5, <2>3, Zenon
    <3>2. /\ e \in DOMAIN entries' => e \in DOMAIN entries /\ entries'[e].val = entries[e].val
          /\ e \in DOMAIN entries => e \in DOMAIN entries'
      BY <1>4, <2>3 DEF Kept
    <3> QED
      BY <2>1, <3>1, <3>2, Zenon
  <2> QED
    BY <2>2, <2>3
<1> QED
  BY <1>7, <1>8, <1>9, <1>10, <1>11, Zenon DEF IInv

\* A restart loses the requests and the store.
LEMMA RestartStep ==
    ASSUME IInv, Restart
    PROVE  IInv'
<1>1. Types /\ RequestsOK /\ Apart /\ ChallengesOK /\ DevicesOK
  BY Zenon DEF IInv
<1>2. /\ entries' = EmptyMap
      /\ req' = [r \in Requests |-> Free("none")]
      /\ wins' = [d \in Devices |-> <<>>]
      /\ store' = store /\ configured' = configured /\ now' = now
      /\ issued' = issued /\ handedOut' = handedOut /\ store # "upstash"
  BY DEF Restart
<1>3. DOMAIN entries' = {} /\ entries' = [k \in DOMAIN entries' |-> entries'[k]]
  BY <1>2 DEF EmptyMap
<1>4. MapOK(entries')
  BY <1>3 DEF MapOK, IsMapOver, WellOrdered
<1>5. "none" \in Answers
  BY DEF Answers
<1>6. /\ Free("none") \in RequestType
      /\ Free("none").ch = UnknownId
      /\ ~Writing(Free("none")) /\ ~Holding(Free("none"))
      /\ ~Reading(Free("none")) /\ ~HasRead(Free("none"))
      /\ Named(Free("none")) /\ ~Free("none").nonce
  BY <1>5, FreeFacts, Zenon
<1>7. \A r \in Requests : req'[r] = Free("none")
  BY <1>2
<1>8. Types'
  <2>1. req' \in [Requests -> RequestType]
    BY <1>2, <1>6
  <2>2. wins' \in [Devices -> Seq(DeviceKeys)]
    BY <1>2
  <2> QED
    BY <1>1, <1>2, <1>4, <2>1, <2>2, Zenon DEF Types, MapOK, IsMapOver, WellOrdered
<1>9. \A r \in Requests : /\ ~Writing(req'[r]) /\ ~Holding(req'[r])
                          /\ ~Reading(req'[r]) /\ ~HasRead(req'[r])
                          /\ Named(req'[r]) /\ ~req'[r].nonce
  BY <1>6, <1>7, Zenon
<1>10. Issued' = Issued
  BY <1>2 DEF Issued
<1>11. RequestsOK'
  <2> SUFFICES ASSUME NEW s \in Requests
               PROVE  (Named(req[s]) /\ Granted(req[s]) /\ Learned(req[s]))'
    BY Zenon DEF RequestsOK
  <2>1. Named(req[s])'
    BY <1>9, <1>10, Zenon DEF Named, Writing, Consumes
  <2>2. (Granted(req[s]) /\ Learned(req[s]))'
    BY <1>9, Zenon DEF Granted, Learned, Holding, Consumes, Reading, HasRead, Checks
  <2> QED
    BY <2>1, <2>2, Zenon
<1>12. Apart'
  BY <1>9, Zenon DEF Apart, Writing, Holding, Consumes
<1>13. ChallengesOK'
  BY <1>1, <1>2, <1>3, <1>9, ChallengesKeep
<1>14. DevicesOK'
  BY <1>2, <1>3 DEF DevicesOK
<1> QED
  BY <1>8, <1>11, <1>12, <1>13, <1>14, Zenon DEF IInv

\* The clock, and nothing at all.
LEMMA IdleStep ==
    ASSUME IInv, now' \in Nat, UNCHANGED <<store, configured, entries, req, history>>
    PROVE  IInv'
<1>1. Types /\ RequestsOK /\ Apart /\ ChallengesOK /\ DevicesOK
  BY Zenon DEF IInv
<1>2. /\ store' = store /\ configured' = configured /\ entries' = entries
      /\ req' = req /\ issued' = issued /\ handedOut' = handedOut /\ wins' = wins
  BY DEF history
<1>3. Issued' = Issued
  BY <1>2 DEF Issued
<1>4. Types'
  <2>1. MapOK(entries')
    BY <1>1, <1>2, Zenon DEF Types
  <2> QED
    BY <1>1, <1>2, <2>1, Zenon DEF Types, MapOK, IsMapOver, WellOrdered
<1>5. RequestsOK'
  <2> SUFFICES ASSUME NEW s \in Requests
               PROVE  (Named(req[s]) /\ Granted(req[s]) /\ Learned(req[s]))'
    BY Zenon DEF RequestsOK
  <2>1. Named(req[s]) /\ Granted(req[s]) /\ Learned(req[s])
    BY <1>1, Zenon DEF RequestsOK
  <2>2. Named(req[s])'
    BY <1>2, <1>3, <2>1, Zenon DEF Named, Writing, Consumes
  <2>3. Granted(req[s])'
    BY <1>2, <1>3, <2>1, Zenon DEF Granted, IssuedFor, Holding, Consumes
  <2>4. Learned(req[s])'
    BY <1>2, <2>1, Zenon DEF Learned, BoundKey, Reading, HasRead, Checks
  <2> QED
    BY <2>2, <2>3, <2>4, Zenon
<1>6. Apart'
  <2> SUFFICES ASSUME NEW a \in Requests, NEW b \in Requests, a # b
               PROVE  /\ Writing(req'[a]) => req'[a].ch # req'[b].ch
                      /\ Holding(req'[a]) /\ Holding(req'[b]) => req'[a].ch # req'[b].ch
    BY Zenon DEF Apart, Writing, Holding, Consumes
  <2>1. /\ Writing(req[a]) => req[a].ch # req[b].ch
        /\ Holding(req[a]) /\ Holding(req[b]) => req[a].ch # req[b].ch
    BY <1>1, Zenon DEF Apart
  <2> QED
    BY <1>2, <2>1, Zenon
<1>7. ChallengesOK'
  BY <1>1, <1>2, ChallengesKeep, Zenon
<1>8. DevicesOK'
  BY <1>1, <1>2, DevicesKeep, Zenon
<1> QED
  BY <1>4, <1>5, <1>6, <1>7, <1>8, Zenon DEF IInv

LEMMA NextIInv == IInv /\ [Next]_vars => IInv'
<1> SUFFICES ASSUME IInv, [Next]_vars
             PROVE  IInv'
  OBVIOUS
<1>1. now \in Nat
  BY Zenon DEF IInv, Types
<1>2. Issued \subseteq Challenges
  BY DEF Issued
<1>3. Unverified \in Answers
  BY DEF Unverified, Answers
<1>4. ASSUME NEW r \in Requests, Arrive(r)
      PROVE  IInv'
  <2>1. CASE RequestChallenge(r)
    <3>1. PICK purpose \in Purposes, c \in FreshIds :
             Start(r, "challenge", purpose, c, UnknownId, UnknownId)
      BY <2>1, Zenon DEF RequestChallenge
    <3>2. /\ c \in Challenges \cup {UnknownId} /\ "challenge" \in Kinds \ {"none"}
          /\ UnknownId \in Devices \cup {UnknownId} /\ UnknownId \in DeviceKeys \cup {UnknownId}
      BY DEF FreshIds, Kinds
    <3> QED
      BY <3>1, <3>2, Arrival, Zenon
  <2>2. ASSUME NEW kind \in {"enroll", "verify", "guard"}, NEW purpose \in Purposes,
               \E ch \in Issued \cup {UnknownId}, dev \in Devices, key \in DeviceKeys :
                  Start(r, kind, purpose, ch, dev, key)
        PROVE  IInv'
    <3>1. PICK ch \in Issued \cup {UnknownId}, dev \in Devices, key \in DeviceKeys :
             Start(r, kind, purpose, ch, dev, key)
      BY <2>2, Zenon
    <3>2. /\ kind \in Kinds \ {"none"} /\ kind # "challenge"
          /\ ch \in Challenges \cup {UnknownId}
          /\ dev \in Devices \cup {UnknownId} /\ key \in DeviceKeys \cup {UnknownId}
      BY <1>2 DEF Kinds
    <3> QED
      BY <3>1, <3>2, Arrival, Zenon
  <2>3. CASE RequestEnroll(r)
    <3>1. "enroll" \in {"enroll", "verify", "guard"} /\ "enroll" \in Purposes
      BY DEF Purposes
    <3> QED
      BY <2>2, <2>3, <3>1, Zenon DEF RequestEnroll
  <2>4. CASE RequestVerify(r)
    <3>1. "verify" \in {"enroll", "verify", "guard"} /\ "verify" \in Purposes
      BY DEF Purposes
    <3> QED
      BY <2>2, <2>4, <3>1, Zenon DEF RequestVerify
  <2>5. CASE RequestGuarded(r)
    <3>1. "guard" \in {"enroll", "verify", "guard"} /\ RoutePurpose \in Purposes
      BY DEF Purposes
    <3> QED
      BY <2>2, <2>5, <3>1, Zenon DEF RequestGuarded
  <2>6. CASE Unavailable(r) \/ RequestUnsigned(r)
    <3>1. PICK answer \in Answers :
             /\ Answer(r, answer)
             /\ UNCHANGED <<store, configured, entries, now, issued, wins>>
             /\ handedOut' = handedOut
      BY <1>3, <2>6 DEF Unavailable, RequestUnsigned, history, Answers
    <3> QED
      BY <3>1, EndStep, Zenon
  <2> QED
    BY <1>4, <2>1, <2>3, <2>4, <2>5, <2>6, Zenon DEF Arrive
<1>5. ASSUME NEW r \in Requests, Run(r)
      PROVE  IInv'
  <2>1. CASE RunSetIfAbsent(r)
    BY <2>1, SetRefusedStep, SetBoundStep, Zenon
  <2> QED
    BY <1>5, <2>1, SetStep, GetDeleteStep, GetStep, Zenon DEF Run
<1>6. ASSUME NEW r \in Requests, Resume(r)
      PROVE  IInv'
  <2>1. CASE ReturnChallenge(r) \/ RejectChallenge(r) \/ ReturnEnrolled(r) \/ ReturnVerified(r)
    <3>1. PICK answer \in Answers :
             /\ Answer(r, answer)
             /\ UNCHANGED <<store, configured, entries, now, issued, wins>>
             /\ handedOut' = handedOut
      BY <1>3, <2>1
         DEF ReturnChallenge, RejectChallenge, ReturnEnrolled, ReturnVerified, history, Answers
    <3> QED
      BY <3>1, EndStep, Zenon
  <2>2. CASE RejectChain(r)
    <3>1. Holding(req[r])
      <4>1. req[r].purpose \in Purposes
        BY <2>2, Zenon DEF RejectChain, IInv, RequestsOK, Named, Consumes
      <4> QED
        BY <2>2, <4>1, IdsAssumption DEF RejectChain, NonceValid, Holding, Consumes
    <3>2. PICK answer \in {"forbidden", "error"} :
             /\ Answer(r, answer)
             /\ UNCHANGED <<store, configured, entries, now, issued, wins>>
             /\ HandOut(r)
      BY <2>2, Zenon DEF RejectChain
    <3>3. answer \in Answers
      BY DEF Answers
    <3> QED
      BY <3>1, <3>2, <3>3, EndStep, Zenon
  <2>3. CASE EnrolAttested(r) \/ ReadDevice(r)
    <3>1. /\ Consumes(req[r]) /\ req[r].pc = "got1"
          /\ AskNext(r)
          /\ UNCHANGED <<store, configured, entries, now, issued, wins>>
          /\ IF NonceValid(req[r]) THEN HandOut(r) ELSE handedOut' = handedOut
      BY <2>3 DEF EnrolAttested, ReadDevice, Consumes
    <3> QED
      BY <3>1, AskNextStep, Zenon
  <2> QED
    BY <1>6, <2>1, <2>2, <2>3, Zenon DEF Resume
<1>7. ASSUME NEW r \in Requests, GiveUp(r) \/ LoseOrphan(r)
      PROVE  IInv'
  <2>1. "error" \in Answers
    BY DEF Answers
  <2>2. CASE Answer(r, "error")
    <3>1. UNCHANGED <<store, configured, entries, now, issued, wins>> /\ handedOut' = handedOut
      BY <1>7 DEF GiveUp, LoseOrphan, history
    <3> QED
      BY <2>1, <2>2, <3>1, EndStep, Zenon
  <2>3. CASE ~Answer(r, "error")
    <3>1. /\ req[r].pc \in {"ask1", "ask2"}
          /\ req' = [req EXCEPT ![r].pc = IF @ = "ask1" THEN "orphan1" ELSE "orphan2",
                                ![r].bound = {}, ![r].answer = "error"]
          /\ UNCHANGED <<store, configured, entries, now, history>>
      BY <1>7, <2>3, Zenon DEF GiveUp, LoseOrphan
    <3> QED
      BY <3>1, OrphanStep, Zenon
  <2> QED
    BY <2>2, <2>3
<1>8. CASE Tick
  <2>1. now' \in Nat
    BY <1>1, <1>8 DEF Tick
  <2> QED
    BY <1>8, <2>1, IdleStep, Zenon DEF Tick
<1>9. CASE UNCHANGED vars
  <2>1. now' \in Nat
    BY <1>1, <1>9 DEF vars
  <2>2. UNCHANGED <<store, configured, entries, req, history>>
    BY <1>9, Zenon DEF vars
  <2> QED
    BY <2>1, <2>2, IdleStep, Zenon
<1> QED
  BY <1>4, <1>5, <1>6, <1>7, <1>8, <1>9, DeleteStep, RestartStep, Zenon DEF Next

LEMMA InvariantHolds == Spec => []IInv
<1> QED
  BY InitIInv, NextIInv, PTL DEF Spec

-----------------------------------------------------------------------------
(* The theorems.                                                           *)

\* Types of all variables, in every reachable state; the store is a well-ordered
\* Map, whichever store it is.
THEOREM TypeCorrect == Spec => []TypeOK
<1>1. IInv => TypeOK
  <2> SUFFICES ASSUME Types PROVE TypeOK
    BY Zenon DEF IInv
  <2>1. \A r \in Requests : /\ req[r].pc \in Pcs /\ req[r].nonce \in BOOLEAN
                            /\ req[r].bound \subseteq DeviceKeys /\ req[r].answer \in Answers
    BY DEF Types, RequestType
  <2>2. \A d \in Devices : wins[d] \in Seq(DeviceKeys)
    BY DEF Types
  <2>3. /\ IsMapOver(entries, Challenges \cup Devices,
                     [value : Purposes \cup DeviceKeys, expiresAt : Nat \cup {Forever}])
        /\ WellOrdered(entries)
    BY Zenon DEF Types, MapOK, Slots, Contents
  <2> QED
    BY <2>1, <2>2, <2>3, Zenon DEF Types, TypeOK
<1> QED
  BY <1>1, InvariantHolds, PTL

\* However many requests name a challenge, and whenever their commands reach the
\* store, its nonce is handed to one of them at most; restarts do not revive it.
THEOREM ChallengeIsUsedOnce == Spec => []ChallengeUsedOnce
<1>1. IInv => ChallengeUsedOnce
  BY Zenon DEF IInv, ChallengesOK, ChallengeUsedOnce
<1> QED
  BY <1>1, InvariantHolds, PTL

\* A handler that has a nonce has it for the purpose its challenge was issued for.
THEOREM PurposeIsKept == Spec => []PurposeKept
<1>1. IInv => PurposeKept
  BY Zenon DEF IInv, RequestsOK, Granted, IssuedFor, PurposeKept
<1> QED
  BY <1>1, InvariantHolds, PTL

\* A device id in the shared store is bound once, however many enrolments race
\* for it, until an administrator deletes it.
THEOREM DeviceIsBoundOnce == Spec => []BoundOnce
<1>1. IInv => BoundOnce
  BY Zenon DEF IInv, DevicesOK, BoundOnce
<1> QED
  BY <1>1, InvariantHolds, PTL

\* Only a key that the device was bound to while the request was in progress
\* verifies a signature.
THEOREM BoundKeyVerifies == Spec => []VerifiedByBoundKey
<1>1. IInv => VerifiedByBoundKey
  <2> SUFFICES ASSUME IInv, NEW r \in Requests, req[r].pc = "got2",
                      req[r].kind \in {"verify", "guard"}, SignedByStored(req[r])
               PROVE  req[r].key \in req[r].bound
    BY Zenon DEF VerifiedByBoundKey
  <2>1. Named(req[r]) /\ Learned(req[r])
    BY Zenon DEF IInv, RequestsOK
  <2>2. req[r].key \in DeviceKeys /\ req[r].got = req[r].key
    BY <2>1 DEF Named, Consumes, SignedByStored
  <2>3. HasRead(req[r])
    BY <2>2, IdsAssumption DEF HasRead, Checks
  <2> QED
    BY <2>1, <2>2, <2>3, Zenon DEF Learned
<1> QED
  BY <1>1, InvariantHolds, PTL

\* A request that its command leaves waiting is the one whose command ran.
LEMMA OnlyItsCommand ==
    ASSUME IInv, Next, NEW r \in Requests, req[r].pc = "ask1", req'[r].pc = "got1"
    PROVE  RunSet(r) \/ RunGetDelete(r)
<1>1. req \in [Requests -> RequestType]
  BY Zenon DEF IInv, Types
<1>2. ASSUME NEW s \in Requests, NEW answer, Answer(s, answer)
      PROVE  FALSE
  <2>1. req' = [req EXCEPT ![s] = Free(answer)] /\ Free(answer).pc = "free"
    BY <1>2 DEF Answer, Free
  <2> QED
    BY <1>1, <2>1
<1>3. ASSUME NEW s \in Requests, Arrive(s) \/ Resume(s) \/ GiveUp(s) \/ LoseOrphan(s)
      PROVE  FALSE
  <2>1. CASE \E kind, purpose, ch, dev, key : Start(s, kind, purpose, ch, dev, key)
    <3>1. req[s].pc = "free" /\ \E q : req' = [req EXCEPT ![s] = q]
      BY <2>1, Zenon DEF Start
    <3> QED
      BY <1>1, <3>1
  <2>2. CASE AskNext(s)
    <3>1. req' = [req EXCEPT ![s].pc = "ask2", ![s].nonce = NonceValid(req[s])]
      BY <2>2, Zenon DEF AskNext
    <3> QED
      BY <1>1, <3>1 DEF RequestType
  <2>3. CASE req' = [req EXCEPT ![s].pc = IF @ = "ask1" THEN "orphan1" ELSE "orphan2",
                               ![s].bound = {}, ![s].answer = "error"]
    BY <1>1, <2>3 DEF RequestType
  <2> QED
    BY <1>2, <1>3, <2>1, <2>2, <2>3, Zenon
       DEF Arrive, RequestChallenge, Unavailable, RequestEnroll, RequestVerify,
           RequestGuarded, RequestUnsigned, Resume, ReturnChallenge, RejectChallenge,
           RejectChain, EnrolAttested, ReturnEnrolled, ReadDevice, ReturnVerified,
           GiveUp, LoseOrphan
<1>4. ASSUME NEW s \in Requests, Run(s)
      PROVE  RunSet(r) \/ RunGetDelete(r)
  <2>1. CASE s = r
    <3>1. ~RunSetIfAbsent(r) /\ ~RunGet(r)
      BY DEF RunSetIfAbsent, RunGet, Outstanding
    <3> QED
      BY <1>4, <2>1, <3>1, Zenon DEF Run
  <2>2. CASE s # r
    <3>1. \A x : Delivered(s, x)[r] = req[r]
      BY <1>1, <2>2 DEF Delivered
    <3>2. \A x, d, key : Learning(Delivered(s, x), d, key)[r].pc = req[r].pc
      <4> SUFFICES ASSUME NEW x, NEW d, NEW key
                   PROVE  Learning(Delivered(s, x), d, key)[r].pc = req[r].pc
        OBVIOUS
      <4>1. \/ Learning(Delivered(s, x), d, key)[r] = req[r]
            \/ Learning(Delivered(s, x), d, key)[r] = [req[r] EXCEPT !.bound = @ \cup {key}]
        BY <3>1 DEF Learning
      <4>2. req[r] \in RequestType
        BY <1>1
      <4> QED
        BY <4>1, <4>2 DEF RequestType
    <3>3. req'[r].pc = req[r].pc
      <4>1. \/ \E x : req' = Delivered(s, x)
            \/ \E x, d, key : req' = Learning(Delivered(s, x), d, key)
        <5>1. CASE RunSetIfAbsent(s)
          BY <5>1, Zenon DEF RunSetIfAbsent
        <5>2. CASE RunSet(s) \/ RunGetDelete(s) \/ RunGet(s)
          BY <5>2, Zenon DEF RunSet, RunGetDelete, RunGet, Deliver
        <5> QED
          BY <1>4, <5>1, <5>2, Zenon DEF Run
      <4> QED
        BY <3>1, <3>2, <4>1, Zenon
    <3> QED
      BY <3>3
  <2> QED
    BY <2>1, <2>2
<1>5. CASE (\E d \in Devices : AdminDelete(d)) \/ Tick
  BY <1>5 DEF AdminDelete, Tick
<1>6. CASE Restart
  BY <1>6 DEF Restart, Free
<1> QED
  BY <1>3, <1>4, <1>5, <1>6, Zenon DEF Next

\* No command takes a challenge out of the store whose minute is over.
THEOREM ChallengesAreFresh == Spec => ChallengeFresh
<1> DEFINE Fresh == \A r \in Requests :
                       req[r].pc = "ask1" /\ req'[r].pc = "got1" /\ req'[r].got \in Purposes
                          => now <= issued[req[r].ch].until
<1>1. IInv /\ [Next]_vars => [Fresh]_vars
  <2> SUFFICES ASSUME IInv, Next, NEW r \in Requests,
                      req[r].pc = "ask1", req'[r].pc = "got1", req'[r].got \in Purposes
               PROVE  now <= issued[req[r].ch].until
    BY Zenon
  <2> DEFINE ch == req[r].ch
             x == Lookup(entries, ch, now)
  <2>1. Types /\ RequestsOK /\ ChallengesOK
    BY Zenon DEF IInv
  <2>2. \A y : Delivered(r, y)[r].got = y
    <3>1. req \in [Requests -> RequestType] /\ req[r] \in RequestType
      BY <2>1 DEF Types
    <3> QED
      BY <3>1 DEF Delivered, RequestType
  <2>3. RunSet(r) \/ RunGetDelete(r)
    BY OnlyItsCommand, Zenon
  <2>4. RunGetDelete(r)
    <3>1. RunSet(r) => req'[r].got = Null
      BY <2>2, Zenon DEF RunSet, Deliver
    <3> QED
      BY <2>3, <3>1, IdsAssumption
  <2>5. x \in Purposes
    <3>1. req'[r].got = x
      BY <2>2, <2>4, Zenon DEF RunGetDelete, Deliver
    <3> QED
      BY <3>1
  <2>6. /\ ch \in DOMAIN entries
        /\ ~IsExpired(entries[ch].val, now)
    <3>1. MapOK(entries)
      BY <2>1, Zenon DEF Types
    <3>2. x # Null
      BY <2>5, IdsAssumption
    <3> QED
      BY <3>1, <3>2, LookupResult, Zenon
  <2>7. ch \in Challenges
    <3>1. ch \in Issued \cup {UnknownId}
      BY <2>1, <2>4 DEF RequestsOK, Named, RunGetDelete, Consumes
    <3>2. ch \in Slots
      BY <2>1, <2>6 DEF Types, MapOK, IsMapOver
    <3> QED
      BY <3>1, <3>2, IdsAssumption DEF Issued, Slots
  <2>8. entries[ch].val.expiresAt = issued[ch].until
    BY <2>1, <2>6, <2>7, Zenon DEF ChallengesOK
  <2>9. issued[ch].until \in Nat /\ now \in Nat
    BY <2>1, <2>7 DEF Types
  <2> HIDE DEF ch
  <2>10. now <= issued[ch].until
    BY <2>6, <2>8, <2>9, ForeverAssumption DEF IsExpired
  <2> QED
    BY <2>10, Zenon DEF ch
<1> QED
  BY <1>1, InvariantHolds, PTL DEF Spec, ChallengeFresh
=============================================================================
