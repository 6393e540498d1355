---------------------------- MODULE GatewayProofs ----------------------------
(* Theorems about Gateway, for every set of envelopes, any number of       *)
(* instances, attempts and restarts, every skew, every timeout and calls   *)
(* that last as long as they like.                                         *)
EXTENDS Gateway, InsertionMapProofs

CacheOK(c) == IsMapOver(c, Nonces, Nat) /\ WellOrdered(c)

\* Cache b knows at least what c knew at time t, for at least as long.
Keeps(b, c, t) ==
    \A n \in DOMAIN c : c[n].val > t => n \in DOMAIN b /\ b[n].val >= c[n].val

-----------------------------------------------------------------------------
(* The cache.                                                              *)

\* What IsMapOver says of a single entry.
LEMMA Entry ==
    ASSUME NEW c, CacheOK(c), NEW n \in DOMAIN c
    PROVE  c[n].val \in Nat /\ n \in Nonces
BY DEF CacheOK, IsMapOver

\* Removing entries.
LEMMA RemoveFacts ==
    ASSUME NEW c, CacheOK(c), NEW S
    PROVE  /\ CacheOK(Without(c, S))
           /\ DOMAIN Without(c, S) = DOMAIN c \ S
           /\ \A n \in DOMAIN c \ S : Without(c, S)[n].val = c[n].val
<1>1. /\ DOMAIN Without(c, S) = DOMAIN c \ S
      /\ \A k \in DOMAIN c \ S :
            /\ Without(c, S)[k].val = c[k].val
            /\ Without(c, S)[k].older = c[k].older \ S
      /\ IsMapOver(Without(c, S), Nonces, Nat)
  BY WithoutFacts, Zenon DEF CacheOK
<1>2. WellOrdered(Without(c, S))
  BY WithoutOrdered, Zenon DEF CacheOK
<1> QED
  BY <1>1, <1>2, Zenon DEF CacheOK

\* A sweep removes expired entries only.
LEMMA SweepFacts ==
    ASSUME NEW c, CacheOK(c), NEW t \in Nat
    PROVE  /\ CacheOK(Sweep(c, t))
           /\ DOMAIN Sweep(c, t) \subseteq DOMAIN c
           /\ \A n \in DOMAIN Sweep(c, t) : Sweep(c, t)[n].val = c[n].val
           /\ \A n \in DOMAIN c : c[n].val > t => n \in DOMAIN Sweep(c, t)
<1> DEFINE S == Expired(c, t)
           w == Without(c, S)
<1>1. /\ CacheOK(w)
      /\ DOMAIN w = DOMAIN c \ S
      /\ \A n \in DOMAIN c \ S : w[n].val = c[n].val
  BY RemoveFacts, Zenon
<1>2. \A n \in DOMAIN c : c[n].val > t => n \notin S
  BY Entry DEF Expired
<1>3. Sweep(c, t) = w \/ Sweep(c, t) = c
  BY DEF Sweep
<1> HIDE DEF S, w
<1> QED
  BY <1>1, <1>2, <1>3

\* Remembering a nonce leaves a cache.
LEMMA RememberType ==
    ASSUME NEW c, CacheOK(c), NEW n \in Nonces, NEW t \in Nat
    PROVE  CacheOK(Remember(c, n, t))
<1> DEFINE x == t + MaxSkew
           p == Put(c, n, x)
           S == Oldest(p)
<1>1. x \in Nat
  BY LimitsAssumption
<1> HIDE DEF x
<1>2. IsMapOver(p, Nonces, Nat)
  BY <1>1, PutFacts, Zenon DEF CacheOK
<1>3. CacheOK(p)
  BY <1>1, <1>2, PutOrdered, Zenon DEF CacheOK
<1> HIDE DEF p
<1>4. CacheOK(Without(p, S))
  BY <1>3, RemoveFacts, Zenon
<1>5. Remember(c, n, t) = p \/ Remember(c, n, t) = Without(p, S)
  BY DEF Remember, Bounded, p, x
<1> QED
  BY <1>3, <1>4, <1>5, Zenon

\* With room for all nonces, nothing is evicted.
LEMMA RememberRoomy ==
    ASSUME Roomy, NEW c, CacheOK(c), NEW n \in Nonces, NEW t \in Nat
    PROVE  /\ DOMAIN Remember(c, n, t) = DOMAIN c \cup {n}
           /\ Remember(c, n, t)[n].val = t + MaxSkew
           /\ \A m \in DOMAIN c \ {n} : Remember(c, n, t)[m] = c[m]
<1> DEFINE x == t + MaxSkew
           p == Put(c, n, x)
<1>1. x \in Nat
  BY LimitsAssumption
<1> HIDE DEF x
<1>2. /\ DOMAIN p = DOMAIN c \cup {n}
      /\ p[n].val = x
      /\ \A m \in DOMAIN c \ {n} : p[m] = c[m]
      /\ IsMapOver(p, Nonces, Nat)
  <2>1. IsMapOver(c, Nonces, Nat)
    BY DEF CacheOK
  <2>2. /\ DOMAIN p = DOMAIN c \cup {n}
        /\ p[n].val = x
        /\ p[n].older = (IF n \in DOMAIN c THEN c[n].older ELSE DOMAIN c)
        /\ \A m \in DOMAIN c \ {n} : p[m] = c[m]
        /\ IsMapOver(p, Nonces, Nat)
    BY <1>1, <2>1, PutFacts, Zenon
  <2> QED
    BY <2>2, Zenon
<1>3. ~(Size(p) > MaxEntries)
  <2>1. DOMAIN p \in SUBSET Nonces
    BY <1>2 DEF IsMapOver
  <2>2. /\ Cardinality(DOMAIN p) <= Cardinality(Nonces)
        /\ Cardinality(DOMAIN p) \in Nat
        /\ Cardinality(Nonces) \in Nat
    BY <2>1, FS_Subset, FS_CardinalityType DEF Roomy
  <2> QED
    BY <2>2, LimitsAssumption DEF Roomy, Size
<1>4. Remember(c, n, t) = Bounded(p)
  BY DEF Remember, x
<1> HIDE DEF p
<1>5. Bounded(p) = p
  BY <1>3 DEF Bounded
<1> QED
  BY <1>2, <1>4, <1>5 DEF x

\* assertFresh as the cache sees it: the nonce was not known, is now, and
\* nothing that was known is lost.
LEMMA SpendKeeps ==
    ASSUME Roomy, NEW c, CacheOK(c), NEW n \in Nonces, NEW t \in Nat,
           ~Known(Sweep(c, t), n, t)
    PROVE  LET b == Remember(Sweep(c, t), n, t)
           IN  /\ Keeps(b, c, t)
               /\ n \in DOMAIN b /\ b[n].val = t + MaxSkew
               /\ n \in DOMAIN c => c[n].val <= t
<1> DEFINE s == Sweep(c, t)
           b == Remember(s, n, t)
<1>1. /\ CacheOK(s)
      /\ DOMAIN s \subseteq DOMAIN c
      /\ \A m \in DOMAIN s : s[m].val = c[m].val
      /\ \A m \in DOMAIN c : c[m].val > t => m \in DOMAIN s
  BY SweepFacts, Zenon
<1>2. ~(n \in DOMAIN s /\ s[n].val > t)
  BY DEF Known
<1> HIDE DEF s
<1>3. /\ DOMAIN b = DOMAIN s \cup {n}
      /\ b[n].val = t + MaxSkew
      /\ \A m \in DOMAIN s \ {n} : b[m] = s[m]
  BY <1>1, RememberRoomy, Zenon
<1> HIDE DEF b
<1>4. n \in DOMAIN c => c[n].val <= t
  BY <1>1, <1>2, Entry
<1>5. \A m \in DOMAIN c : c[m].val \in Nat
  BY Entry
<1>6. \A m \in DOMAIN c : c[m].val > t => m \in DOMAIN b /\ b[m].val >= c[m].val
  BY <1>1, <1>3, <1>4, <1>5
<1>7. Keeps(b, c, t)
  BY <1>6 DEF Keeps
<1> QED
  BY <1>3, <1>4, <1>7 DEF b, s

-----------------------------------------------------------------------------
(* The inductive invariant.                                                *)

Attempts ==
    [pc : {"free", "waiting", "orphan"}, at : Instances \cup {"none"},
     env : Envelopes \cup {NoEnvelope}, since : Nat, timer : Nat,
     job : {"none", "due", "sent", "done"}]

\* A job that the upstream may yet run: it was sent, or will be.
Pending == {"due", "sent"}

\* A call in progress was made by now, for an envelope that had a nonce; a job is
\* somebody's, for an envelope, and before it is sent it is that of a call.
Placed == \A r \in Requests :
    /\ req[r].pc = "waiting" =>
          /\ req[r].at \in Instances
          /\ req[r].env \in Envelopes
          /\ RequireNonce => req[r].env.nonce \in Nonces
          /\ req[r].since <= now
    /\ req[r].job \in Pending => req[r].env \in Envelopes /\ req[r].pc # "free"
    /\ req[r].job = "due" => req[r].pc = "waiting"

\* The nonce of a call is remembered for a skew from the start of the call.
Spent == \A r \in Requests :
    req[r].pc = "waiting" /\ now < req[r].since + MaxSkew =>
        /\ req[r].env.nonce \in DOMAIN seen[req[r].at]
        /\ seen[req[r].at][req[r].env.nonce].val >= req[r].since + MaxSkew

\* The jobs of an envelope that may still run.
Jobs(e) == {r \in Requests : req[r].job \in Pending /\ req[r].env = e}

\* The instances that may accept the envelope after the time late has passed,
\* counted from now and from the end of its nonce's life there.
Left(e, late) == {i \in Instances :
    /\ e.ts \in Int
    /\ now + late <= e.ts + MaxSkew
    /\ e.nonce \in DOMAIN seen[i] => seen[i][e.nonce].val + late <= e.ts + MaxSkew}

\* The runs that an envelope had, those that are under way and those that the
\* instances may still accept.  An acceptance starts a new life of the nonce, so
\* no instance accepts more often than the window holds lives.
Runs(e) ==
    effects[e] + Cardinality(Jobs(e)) + Cardinality(Left(e, 0))
        + Cardinality(Left(e, MaxSkew)) + Cardinality(Left(e, 2 * MaxSkew))

Budget == \A e \in Envelopes : Runs(e) <= 3 * (Cardinality(Instances) + restarts)

Types == TypeOK /\ req \in [Requests -> Attempts] /\ Placed

IInv == Types /\ (RequireNonce /\ Roomy => Spent /\ Budget) /\ CallsApart

-----------------------------------------------------------------------------
(* Types.                                                                  *)

LEMMA EnvelopeTypes ==
    ASSUME NEW e \in Envelopes
    PROVE  /\ e.nonce \in Nonces \cup {BadNonce}
           /\ e.ts \in Int \cup {BadTimestamp}
           /\ e.opens \in BOOLEAN /\ e.allowed \in BOOLEAN
BY EnvelopeAssumption

\* An envelope that is in time has a nonce and a timestamp.
LEMMA InTimeTypes ==
    ASSUME NEW e \in Envelopes, InTime(e)
    PROVE  e.nonce \in Nonces /\ e.ts \in Int
BY EnvelopeTypes DEF InTime

LEMMA CachesOK ==
    ASSUME TypeOK
    PROVE  DOMAIN seen = Instances /\ \A i \in Instances : CacheOK(seen[i])
BY DEF TypeOK, CacheOK

\* assertFresh leaves caches.
LEMMA SpendTypes ==
    ASSUME TypeOK, NEW i \in Instances, NEW e \in Envelopes, Spend(i, e)
    PROVE  /\ DOMAIN seen' = Instances /\ \A j \in Instances : CacheOK(seen'[j])
           /\ RequireNonce => e.nonce \in Nonces /\ e.ts \in Int
<1>1. /\ now \in Nat
      /\ DOMAIN seen = Instances
      /\ \A j \in Instances : CacheOK(seen[j])
  BY CachesOK DEF TypeOK
<1>2. CASE RequireNonce
  <2> DEFINE c == Remember(Sweep(seen[i], now), e.nonce, now)
  <2>1. InTime(e) /\ seen' = [seen EXCEPT ![i] = c]
    BY <1>2 DEF Spend
  <2>2. e.nonce \in Nonces /\ e.ts \in Int
    BY <2>1, InTimeTypes
  <2>3. CacheOK(Sweep(seen[i], now))
    BY <1>1, SweepFacts, Zenon
  <2>4. CacheOK(c)
    BY <1>1, <2>2, <2>3, RememberType, Zenon
  <2> HIDE DEF c
  <2> QED
    BY <1>1, <2>1, <2>2, <2>4
<1>3. CASE ~RequireNonce
  BY <1>1, <1>3 DEF Spend
<1> QED
  BY <1>2, <1>3

\* A request that changes to one of the right type.
LEMMA SlotTypes ==
    ASSUME req \in [Requests -> Attempts], NEW r \in Requests, NEW q \in Attempts,
           req' = [req EXCEPT ![r] = q]
    PROVE  /\ req' \in [Requests -> Attempts]
           /\ req'[r] = q
           /\ \A s \in Requests \ {r} : req'[s] = req[s]
OBVIOUS

LEMMA AttemptTypes ==
    /\ Free \in Attempts
    /\ Free.pc = "free" /\ Free.job = "none" /\ Free.env = NoEnvelope
    /\ \A q \in Attempts :
          /\ Ended(q) \in Attempts
          /\ Ended(q).pc # "waiting" /\ Ended(q).job # "due"
          /\ Ended(q).job = "sent" =>
                q.job = "sent" /\ Ended(q).env = q.env /\ Ended(q).pc = "orphan"
<1>1. Free \in Attempts
  BY DEF Free, Attempts
<1>2. Free.pc = "free" /\ Free.job = "none" /\ Free.env = NoEnvelope
  BY DEF Free
<1>3. ASSUME NEW q \in Attempts
      PROVE  /\ Ended(q) \in Attempts
             /\ Ended(q).pc # "waiting" /\ Ended(q).job # "due"
             /\ Ended(q).job = "sent" =>
                   q.job = "sent" /\ Ended(q).env = q.env /\ Ended(q).pc = "orphan"
  <2>1. CASE q.job = "sent"
    <3>1. Ended(q) = [Free EXCEPT !.pc = "orphan", !.env = q.env, !.job = "sent"]
      BY <2>1 DEF Ended
    <3>2. q.env \in Envelopes \cup {NoEnvelope}
      BY DEF Attempts
    <3>3. Ended(q) = [pc |-> "orphan", at |-> "none", env |-> q.env, since |-> 0, timer |-> 0,
                      job |-> "sent"]
      BY <3>1 DEF Free
    <3> QED
      BY <2>1, <3>2, <3>3 DEF Attempts
  <2>2. CASE q.job # "sent"
    BY <1>1, <1>2, <2>2 DEF Ended
  <2> QED
    BY <2>1, <2>2
<1> QED
  BY <1>1, <1>2, <1>3

\* What a step does to an attempt that it does not start.
Settles(q, s) ==
    \/ \E t \in Nat, j \in {q.job, "sent", "done"} :
          /\ s = [q EXCEPT !.timer = t, !.job = j]
          /\ j # q.job => q.job \in Pending
    \/ q.pc = "waiting" /\ s = Ended(q)
    \/ s = Free

LEMMA SettledAttempt ==
    ASSUME NEW q \in Attempts, NEW s, Settles(q, s)
    PROVE  /\ s \in Attempts
           /\ s.pc = "waiting" =>
                 q.pc = "waiting" /\ s.at = q.at /\ s.env = q.env /\ s.since = q.since
           /\ s.job \in Pending =>
                 /\ q.job \in Pending /\ s.env = q.env
                 /\ q.pc # "free" => s.pc # "free"
           /\ s.job = "due" => q.job = "due" /\ s.pc = q.pc
<1>1. ASSUME NEW t \in Nat, NEW j \in {q.job, "sent", "done"},
             s = [q EXCEPT !.timer = t, !.job = j],
             j # q.job => q.job \in Pending
      PROVE  /\ s \in Attempts
             /\ s.pc = q.pc /\ s.at = q.at /\ s.env = q.env /\ s.since = q.since
             /\ s.job = j
  BY <1>1 DEF Attempts
<1>2. CASE q.pc = "waiting" /\ s = Ended(q)
  BY <1>2, AttemptTypes DEF Pending
<1>3. CASE s = Free
  BY <1>3, AttemptTypes DEF Pending
<1> QED
  BY <1>1, <1>2, <1>3 DEF Settles, Pending

LEMMA SettledTypes ==
    ASSUME Types, now' \in Nat, now <= now', DOMAIN req' = Requests,
           req' = [r \in Requests |-> req'[r]],
           \A r \in Requests : Settles(req[r], req'[r])
    PROVE  req' \in [Requests -> Attempts] /\ Placed'
<1>1. req \in [Requests -> Attempts] /\ Placed /\ now \in Nat
  BY DEF Types, TypeOK
<1>2. ASSUME NEW r \in Requests
      PROVE  /\ req'[r] \in Attempts
             /\ req'[r].pc = "waiting" => /\ req[r].pc = "waiting"
                                          /\ req'[r].at = req[r].at
                                          /\ req'[r].env = req[r].env
                                          /\ req'[r].since = req[r].since
             /\ req'[r].job \in Pending => /\ req[r].job \in Pending
                                           /\ req'[r].env = req[r].env
                                           /\ req[r].pc # "free" => req'[r].pc # "free"
             /\ req'[r].job = "due" => req[r].job = "due" /\ req'[r].pc = req[r].pc
  <2>1. req[r] \in Attempts /\ Settles(req[r], req'[r])
    BY <1>1
  <2> QED
    BY <2>1, SettledAttempt
<1>3. req' \in [Requests -> Attempts]
  BY <1>2
<1>4. ASSUME NEW r \in Requests, req'[r].pc = "waiting"
      PROVE  /\ req'[r].at \in Instances
             /\ req'[r].env \in Envelopes
             /\ RequireNonce => req'[r].env.nonce \in Nonces
             /\ req'[r].since <= now'
  <2>1. /\ req[r].pc = "waiting" /\ req[r].since \in Nat
        /\ req'[r].at = req[r].at /\ req'[r].env = req[r].env /\ req'[r].since = req[r].since
    BY <1>1, <1>2, <1>4 DEF Attempts
  <2> QED
    BY <1>1, <2>1 DEF Placed
<1>5. Placed'
  BY <1>1, <1>2, <1>4 DEF Placed
<1> QED
  BY <1>3, <1>5

LEMMA NextSettles ==
    ASSUME req \in [Requests -> Attempts], Timeout \in Nat, [Next]_vars
    PROVE  \/ \E r \in Requests, i \in Instances, e \in Envelopes : Forward(r, i, e)
           \/ /\ DOMAIN req' = Requests /\ req' = [r \in Requests |-> req'[r]]
              /\ \A r \in Requests : Settles(req[r], req'[r])
<1> DEFINE Goal == /\ DOMAIN req' = Requests /\ req' = [r \in Requests |-> req'[r]]
                   /\ \A r \in Requests : Settles(req[r], req'[r])
<1>a. ASSUME NEW q \in Attempts, NEW t \in Nat, NEW j \in {q.job, "sent", "done"},
             j # q.job => q.job \in Pending
      PROVE  Settles(q, [q EXCEPT !.timer = t, !.job = j])
  BY <1>a DEF Settles
<1>b. ASSUME NEW q \in Attempts
      PROVE  /\ q.timer \in Nat
             /\ [q EXCEPT !.timer = q.timer, !.job = q.job] = q
             /\ \A t : [q EXCEPT !.timer = t, !.job = q.job] = [q EXCEPT !.timer = t]
             /\ \A j : [q EXCEPT !.timer = q.timer, !.job = j] = [q EXCEPT !.job = j]
  BY DEF Attempts
<1>c. ASSUME NEW q \in Attempts
      PROVE  /\ Settles(q, q)
             /\ \A t \in Nat : Settles(q, [q EXCEPT !.timer = t])
  <2>1. \A t \in Nat : Settles(q, [q EXCEPT !.timer = t, !.job = q.job])
    BY <1>a
  <2> QED
    BY <1>b, <2>1
<1>1. ASSUME UNCHANGED req
      PROVE  Goal
  BY <1>1, <1>c
<1>2. ASSUME NEW r \in Requests, NEW q, req' = [req EXCEPT ![r] = q], Settles(req[r], q)
      PROVE  Goal
  <2>1. \A s \in Requests : Settles(req[s], req[s])
    BY <1>c
  <2>2. req'[r] = q /\ \A s \in Requests \ {r} : req'[s] = req[s]
    BY <1>2
  <2>3. \A s \in Requests : Settles(req[s], req'[s])
    BY <1>2, <2>1, <2>2, Zenon
  <2> QED
    BY <1>2, <2>3
<1>3. ASSUME NEW r \in Requests, UpstreamRuns(r)
      PROVE  Goal
  <2> DEFINE q == IF req[r].pc = "orphan" THEN Free ELSE [req[r] EXCEPT !.job = "done"]
  <2>1. req' = [req EXCEPT ![r] = q] /\ req[r].job = "sent"
    BY <1>3 DEF UpstreamRuns
  <2>2. Settles(req[r], q)
    <3>1. Settles(req[r], Free)
      BY DEF Settles
    <3>2. Settles(req[r], [req[r] EXCEPT !.job = "done"])
      <4> DEFINE p == req[r]
                 t == p.timer
      <4>1. p \in Attempts /\ "done" # p.job /\ p.job \in Pending
        BY <2>1 DEF Pending
      <4>2. t \in Nat /\ [p EXCEPT !.timer = t, !.job = "done"] = [p EXCEPT !.job = "done"]
        BY <1>b, <4>1
      <4>3. Settles(p, [p EXCEPT !.timer = t, !.job = "done"])
        BY <1>a, <4>1, <4>2
      <4> QED
        BY <4>2, <4>3
    <3> QED
      BY <3>1, <3>2
  <2> HIDE DEF q
  <2> QED
    BY <1>2, <2>1, <2>2, Zenon
<1>4. ASSUME NEW r \in Requests, UpstreamFails(r) \/ TimesOut(r)
      PROVE  Goal
  <2>1. req' = [req EXCEPT ![r] = Ended(req[r])] /\ req[r].pc = "waiting"
    BY <1>4 DEF UpstreamFails, TimesOut
  <2>2. Settles(req[r], Ended(req[r]))
    BY <2>1, Zenon DEF Settles
  <2> QED
    BY <1>2, <2>1, <2>2, Zenon
<1>5. ASSUME NEW r \in Requests, Relay(r) \/ JobLost(r)
      PROVE  Goal
  <2>1. req' = [req EXCEPT ![r] = Free]
    BY <1>5 DEF Relay, JobLost
  <2>2. Settles(req[r], Free)
    BY Zenon DEF Settles
  <2> QED
    BY <1>2, <2>1, <2>2, Zenon
<1>6. ASSUME NEW r \in Requests, Connected(r) \/ Heard(r)
      PROVE  Goal
  <2>1. CASE Connected(r)
    <3> DEFINE q == [req[r] EXCEPT !.timer = Timeout, !.job = "sent"]
    <3>1. req' = [req EXCEPT ![r] = q] /\ req[r].job = "due"
      BY <2>1 DEF Connected, Attempts
    <3>2. Settles(req[r], q)
      BY <1>a, <3>1 DEF Pending
    <3> HIDE DEF q
    <3> QED
      BY <1>2, <3>1, <3>2, Zenon
  <2>2. CASE Heard(r)
    <3> DEFINE q == [req[r] EXCEPT !.timer = Timeout]
    <3>1. req' = [req EXCEPT ![r] = q]
      BY <2>2 DEF Heard
    <3>2. Settles(req[r], q)
      BY <1>c
    <3> HIDE DEF q
    <3> QED
      BY <1>2, <3>1, <3>2, Zenon
  <2> QED
    BY <1>6, <2>1, <2>2
<1>7. ASSUME NEW i \in Instances, Restart(i)
      PROVE  Goal
  <2>1. req' = [r \in Requests |-> IF req[r].pc = "waiting" /\ req[r].at = i
                                   THEN Ended(req[r]) ELSE req[r]]
    BY <1>7, Zenon DEF Restart
  <2>2. ASSUME NEW r \in Requests
        PROVE  Settles(req[r], req'[r])
    <3>1. req[r].pc = "waiting" => Settles(req[r], Ended(req[r]))
      BY DEF Settles
    <3> QED
      BY <1>c, <2>1, <3>1
  <2> QED
    BY <2>1, <2>2
<1>8. ASSUME Tick
      PROVE  Goal
  <2>1. req' = [r \in Requests |-> CountDown(req[r])]
    BY <1>8 DEF Tick
  <2>2. ASSUME NEW r \in Requests
        PROVE  Settles(req[r], CountDown(req[r]))
    <3>1. req[r].timer > 0 => req[r].timer - 1 \in Nat
      <4>1. req[r].timer \in Nat
        BY <1>b
      <4> QED
        BY <4>1
    <3>2. CountDown(req[r]) \in {req[r], [req[r] EXCEPT !.timer = req[r].timer - 1]}
      BY DEF CountDown
    <3>3. CountDown(req[r]) # req[r] => req[r].timer > 0
      BY DEF CountDown
    <3> QED
      BY <1>c, <3>1, <3>2, <3>3
  <2> QED
    BY <2>1, <2>2
<1>9. ASSUME NEW r \in Requests, NEW i \in Instances, NEW e \in Envelopes, HandleGateway(r, i, e)
      PROVE  Goal \/ Forward(r, i, e)
  BY <1>1, <1>9, Zenon DEF HandleGateway, Undecryptable, Untimely, Replayed, Disallowed, Reply
<1>10. ASSUME NEW r \in Requests, Limited(r)
      PROVE  Goal
  BY <1>1, <1>10, Zenon DEF Limited, Reply
<1>11. UNCHANGED vars => UNCHANGED req
  BY DEF vars
<1> HIDE DEF Goal
<1>12. Goal \/ \E r \in Requests, i \in Instances, e \in Envelopes : Forward(r, i, e)
  BY <1>1, <1>3, <1>4, <1>5, <1>6, <1>7, <1>8, <1>9, <1>10, <1>11, Zenon DEF Next, Resume
<1> QED
  BY <1>12, Zenon DEF Goal

\* The attempt that Forward starts.
LEMMA ForwardTypes ==
    ASSUME Types, NEW r \in Requests, NEW i \in Instances, NEW e \in Envelopes,
           Forward(r, i, e)
    PROVE  /\ req' \in [Requests -> Attempts] /\ Placed'
           /\ req[r].pc = "free" /\ req'[r] = Waiting(i, e)
           /\ \A s \in Requests \ {r} : req'[s] = req[s]
<1> DEFINE q == Waiting(i, e)
<1>1. req \in [Requests -> Attempts] /\ Placed /\ now \in Nat /\ Timeout \in Nat
  BY SettingsAssumption DEF Types, TypeOK
<1>2. /\ q \in Attempts
      /\ q.pc = "waiting" /\ q.at = i /\ q.env = e /\ q.since = now
  BY <1>1 DEF Waiting, Attempts
<1>3. req' = [req EXCEPT ![r] = q] /\ now' = now /\ Spend(i, e) /\ req[r].pc = "free"
  BY DEF Forward
<1>4. RequireNonce => e.nonce \in Nonces
  BY <1>3, SpendTypes DEF Types
<1> HIDE DEF q
<1>5. /\ req' \in [Requests -> Attempts]
      /\ req'[r] = q
      /\ \A s \in Requests \ {r} : req'[s] = req[s]
  BY <1>1, <1>2, <1>3, SlotTypes
<1>6. Placed'
  <2>1. \A s \in Requests \ {r} :
           /\ req'[s].pc = "waiting" =>
                 /\ req'[s].at \in Instances
                 /\ req'[s].env \in Envelopes
                 /\ RequireNonce => req'[s].env.nonce \in Nonces
                 /\ req'[s].since <= now'
           /\ req'[s].job \in Pending => req'[s].env \in Envelopes /\ req'[s].pc # "free"
           /\ req'[s].job = "due" => req'[s].pc = "waiting"
    BY <1>1, <1>3, <1>5 DEF Placed
  <2>2. /\ req'[r].at \in Instances
        /\ req'[r].env \in Envelopes
        /\ RequireNonce => req'[r].env.nonce \in Nonces
        /\ req'[r].since <= now'
        /\ req'[r].pc = "waiting"
    BY <1>1, <1>2, <1>3, <1>4, <1>5
  <2> QED
    BY <2>1, <2>2 DEF Placed
<1> QED
  BY <1>3, <1>5, <1>6 DEF q

\* What a step does to the caches: they stay caches, and those of the instances
\* that do not restart forget nothing.
Caches == DOMAIN seen' = Instances /\ \A j \in Instances : CacheOK(seen'[j])

AllKeep == \A j \in Instances : Keeps(seen'[j], seen[j], now)

LEMMA KeepsItself ==
    ASSUME NEW c, CacheOK(c), NEW t
    PROVE  Keeps(c, c, t)
BY Entry DEF Keeps

LEMMA SpendStep ==
    ASSUME Types, NEW i \in Instances, NEW e \in Envelopes, Spend(i, e)
    PROVE  /\ Caches
           /\ RequireNonce /\ Roomy =>
                 /\ AllKeep
                 /\ InTime(e)
                 /\ e.nonce \in DOMAIN seen'[i] /\ seen'[i][e.nonce].val = now + MaxSkew
                 /\ e.nonce \in DOMAIN seen[i] => seen[i][e.nonce].val <= now
<1>1. /\ Caches
      /\ now \in Nat /\ DOMAIN seen = Instances /\ \A j \in Instances : CacheOK(seen[j])
  BY SpendTypes, CachesOK DEF Types, TypeOK, Caches
<1>2. ASSUME RequireNonce, Roomy
      PROVE  /\ AllKeep
             /\ InTime(e)
             /\ e.nonce \in DOMAIN seen'[i] /\ seen'[i][e.nonce].val = now + MaxSkew
             /\ e.nonce \in DOMAIN seen[i] => seen[i][e.nonce].val <= now
  <2> DEFINE b == Remember(Sweep(seen[i], now), e.nonce, now)
  <2>1. /\ InTime(e) /\ seen' = [seen EXCEPT ![i] = b]
        /\ ~Known(Sweep(seen[i], now), e.nonce, now)
    BY <1>2 DEF Spend
  <2>2. e.nonce \in Nonces
    BY <2>1, InTimeTypes
  <2>3. /\ Keeps(b, seen[i], now)
        /\ e.nonce \in DOMAIN b /\ b[e.nonce].val = now + MaxSkew
        /\ e.nonce \in DOMAIN seen[i] => seen[i][e.nonce].val <= now
    BY <1>1, <1>2, <2>1, <2>2, SpendKeeps, Zenon
  <2> HIDE DEF b
  <2>4. seen'[i] = b /\ \A j \in Instances \ {i} : seen'[j] = seen[j]
    BY <1>1, <2>1
  <2>5. AllKeep
    BY <1>1, <2>3, <2>4, KeepsItself DEF AllKeep
  <2> QED
    BY <2>1, <2>3, <2>4, <2>5
<1> QED
  BY <1>1, <1>2

\* What the kinds of steps leave alone.
Steady == UNCHANGED <<effects, restarts>>

LEMMA StepKinds ==
    ASSUME [Next]_vars
    PROVE  \/ /\ \E r \in Requests, i \in Instances, e \in Envelopes :
                    Replayed(r, i, e) \/ Disallowed(r, i, e) \/ Forward(r, i, e)
              /\ UNCHANGED now /\ Steady /\ answer' \in {"none", "400"}
           \/ /\ \E r \in Requests : UpstreamRuns(r)
              /\ UNCHANGED <<seen, now, restarts>> /\ answer' = "none"
           \/ /\ \E i \in Instances : Restart(i)
              /\ UNCHANGED <<now, effects>> /\ restarts' = restarts + 1 /\ answer' = "none"
           \/ now' = now + 1 /\ UNCHANGED seen /\ Steady /\ answer' = "none"
           \/ /\ UNCHANGED <<seen, now>> /\ Steady
              /\ answer' \in {"none", "200", "400", "429", "502", "504", answer}
<1> DEFINE Quiet == /\ UNCHANGED <<seen, now>> /\ Steady
                    /\ answer' \in {"none", "200", "400", "429", "502", "504", answer}
<1>1. ASSUME NEW r \in Requests, NEW i \in Instances, NEW e \in Envelopes,
             Replayed(r, i, e) \/ Disallowed(r, i, e) \/ Forward(r, i, e)
      PROVE  UNCHANGED now /\ Steady /\ answer' \in {"none", "400"}
  BY <1>1 DEF Replayed, Disallowed, Forward, Reply, history, Steady
<1>2. ASSUME NEW r \in Requests, UpstreamRuns(r)
      PROVE  UNCHANGED <<seen, now, restarts>> /\ answer' = "none"
  BY <1>2 DEF UpstreamRuns
<1>3. ASSUME NEW i \in Instances, Restart(i)
      PROVE  UNCHANGED <<now, effects>> /\ restarts' = restarts + 1 /\ answer' = "none"
  BY <1>3 DEF Restart
<1>4. ASSUME Tick
      PROVE  now' = now + 1 /\ UNCHANGED seen /\ Steady /\ answer' = "none"
  BY <1>4 DEF Tick, history, Steady
<1>5. ASSUME NEW r \in Requests, NEW e, Limited(r) \/ Undecryptable(r, e) \/ Untimely(r, e)
      PROVE  Quiet
  BY <1>5 DEF Limited, Undecryptable, Untimely, Reply, history, Steady
<1>6. ASSUME NEW r \in Requests,
             Connected(r) \/ Heard(r) \/ Relay(r) \/ UpstreamFails(r) \/ TimesOut(r) \/ JobLost(r)
      PROVE  Quiet
  BY <1>6 DEF Connected, Heard, Relay, UpstreamFails, TimesOut, JobLost, history, Steady
<1>7. ASSUME UNCHANGED vars
      PROVE  Quiet
  BY <1>7 DEF vars, history, Steady
<1> HIDE DEF Quiet
<1>8. \/ \E r \in Requests, i \in Instances, e \in Envelopes :
            Replayed(r, i, e) \/ Disallowed(r, i, e) \/ Forward(r, i, e)
      \/ \E r \in Requests : UpstreamRuns(r)
      \/ \E i \in Instances : Restart(i)
      \/ Tick
      \/ Quiet
  BY <1>5, <1>6, <1>7, Zenon DEF Next, HandleGateway, Resume
<1> QED
  BY <1>1, <1>2, <1>3, <1>4, <1>8, Zenon DEF Quiet

LEMMA SeenStep ==
    ASSUME Types, [Next]_vars
    PROVE  /\ Caches
           /\ now' \in Nat /\ now <= now'
           /\ \/ \E i \in Instances : Restart(i)
              \/ RequireNonce /\ Roomy => AllKeep
<1>1. now \in Nat /\ DOMAIN seen = Instances /\ \A j \in Instances : CacheOK(seen[j])
  BY CachesOK DEF Types, TypeOK
<1>2. now' \in Nat /\ now <= now'
  <2>1. now' = now \/ now' = now + 1
    BY StepKinds, Zenon
  <2> QED
    BY <1>1, <2>1
<1>3. CASE UNCHANGED seen
  BY <1>1, <1>2, <1>3, KeepsItself DEF Caches, AllKeep
<1>4. ASSUME NEW r \in Requests, NEW i \in Instances, NEW e \in Envelopes, Replayed(r, i, e)
      PROVE  Caches /\ AllKeep
  <2> DEFINE b == Sweep(seen[i], now)
  <2>1. seen' = [seen EXCEPT ![i] = b]
    BY <1>4 DEF Replayed
  <2>2. /\ CacheOK(b)
        /\ DOMAIN b \subseteq DOMAIN seen[i]
        /\ \A n \in DOMAIN b : b[n].val = seen[i][n].val
        /\ \A n \in DOMAIN seen[i] : seen[i][n].val > now => n \in DOMAIN b
    BY <1>1, SweepFacts, Zenon
  <2>3. \A n \in DOMAIN seen[i] : seen[i][n].val \in Nat
    BY <1>1, Entry
  <2> HIDE DEF b
  <2>4. Keeps(b, seen[i], now)
    BY <2>2, <2>3 DEF Keeps
  <2>5. seen'[i] = b /\ \A j \in Instances \ {i} : seen'[j] = seen[j]
    BY <1>1, <2>1
  <2> QED
    BY <1>1, <2>1, <2>2, <2>4, <2>5, KeepsItself DEF Caches, AllKeep
<1>5. ASSUME NEW r \in Requests, NEW i \in Instances, NEW e \in Envelopes,
             Disallowed(r, i, e) \/ Forward(r, i, e)
      PROVE  Caches /\ (RequireNonce /\ Roomy => AllKeep)
  BY <1>5, SpendStep DEF Disallowed, Forward
<1>6. ASSUME NEW i \in Instances, Restart(i)
      PROVE  Caches
  <2>1. CacheOK(EmptyMap)
    BY DEF CacheOK, IsMapOver, WellOrdered, EmptyMap
  <2> QED
    BY <1>1, <1>6, <2>1 DEF Restart, Caches
<1> QED
  BY <1>2, <1>3, <1>4, <1>5, <1>6, StepKinds, Zenon

LEMMA TypesStep ==
    ASSUME Types, [Next]_vars
    PROVE  Types'
<1>1. /\ TypeOK /\ req \in [Requests -> Attempts] /\ Placed
      /\ now \in Nat /\ Timeout \in Nat
  BY SettingsAssumption DEF Types, TypeOK
<1>2. Caches /\ now' \in Nat /\ now <= now'
  BY SeenStep
<1>3. req' \in [Requests -> Attempts] /\ Placed'
  <2>1. CASE \E r \in Requests, i \in Instances, e \in Envelopes : Forward(r, i, e)
    BY <2>1, ForwardTypes
  <2>2. CASE ~\E r \in Requests, i \in Instances, e \in Envelopes : Forward(r, i, e)
    <3>1. /\ DOMAIN req' = Requests /\ req' = [r \in Requests |-> req'[r]]
          /\ \A r \in Requests : Settles(req[r], req'[r])
      BY <1>1, <2>2, NextSettles
    <3> QED
      BY <1>2, <3>1, SettledTypes
  <2> QED
    BY <2>1, <2>2
<1>4. answer' \in {"none", "200", "400", "429", "502", "504"}
  <2>1. answer' \in {"none", "200", "400", "429", "502", "504", answer}
    BY StepKinds
  <2> QED
    BY <1>1, <2>1 DEF TypeOK
<1>5. restarts' \in Nat
  <2>1. restarts' = restarts \/ restarts' = restarts + 1
    BY StepKinds DEF Steady
  <2>2. restarts \in Nat
    BY <1>1 DEF TypeOK
  <2> QED
    BY <2>1, <2>2
<1>6. effects' \in [Envelopes -> Nat]
  <2>1. CASE UNCHANGED effects
    BY <1>1, <2>1 DEF TypeOK
  <2>2. ASSUME NEW r \in Requests, UpstreamRuns(r)
        PROVE  effects' \in [Envelopes -> Nat]
    <3> DEFINE x == IF effects[req[r].env] < MostEffects THEN effects[req[r].env] + 1
                    ELSE effects[req[r].env]
    <3>1. req[r].env \in Envelopes
      BY <1>1, <2>2 DEF UpstreamRuns, Placed, Pending
    <3>2. effects' = [effects EXCEPT ![req[r].env] = x]
      BY <2>2 DEF UpstreamRuns
    <3>3. x \in Nat
      BY <1>1, <3>1 DEF TypeOK
    <3> HIDE DEF x
    <3> QED
      BY <1>1, <3>2, <3>3 DEF TypeOK
  <2> QED
    BY <2>1, <2>2, StepKinds DEF Steady
<1>7. TypeOK'
  <2>1. \A r \in Requests :
          /\ req'[r].pc \in {"free", "waiting", "orphan"}
          /\ req'[r].env \in Envelopes \cup {NoEnvelope}
          /\ req'[r].since \in Nat /\ req'[r].timer \in Nat
          /\ req'[r].job \in {"none", "due", "sent", "done"}
    BY <1>3 DEF Attempts
  <2> QED
    BY <1>2, <1>4, <1>5, <1>6, <2>1 DEF TypeOK, Caches, CacheOK
<1> QED
  BY <1>3, <1>7 DEF Types

-----------------------------------------------------------------------------
(* The calls in progress.                                                  *)

\* A call that is in progress after a step was before, unless it starts.
LEMMA StillWaiting ==
    ASSUME Types, [Next]_vars,
           ~\E r \in Requests, i \in Instances, e \in Envelopes : Forward(r, i, e),
           NEW r \in Requests, req'[r].pc = "waiting"
    PROVE  /\ req[r].pc = "waiting"
           /\ req'[r].at = req[r].at /\ req'[r].env = req[r].env
           /\ req'[r].since = req[r].since
<1>1. req[r] \in Attempts /\ Settles(req[r], req'[r])
  BY NextSettles, SettingsAssumption DEF Types
<1> QED
  BY <1>1, SettledAttempt

LEMMA SpentStep ==
    ASSUME Types, Spent, [Next]_vars, RequireNonce, Roomy
    PROVE  Spent'
<1> SUFFICES ASSUME NEW r \in Requests, req'[r].pc = "waiting",
                    now' < req'[r].since + MaxSkew
             PROVE  /\ req'[r].env.nonce \in DOMAIN seen'[req'[r].at]
                    /\ seen'[req'[r].at][req'[r].env.nonce].val >= req'[r].since + MaxSkew
  BY DEF Spent
<1> DEFINE x == req[r].since + MaxSkew
           n == req[r].env.nonce
           i == req[r].at
<1>1. /\ now \in Nat /\ now' \in Nat /\ now <= now'
      /\ MaxSkew \in Nat
      /\ req[r] \in Attempts
      /\ \A j \in Instances : CacheOK(seen[j]) /\ CacheOK(seen'[j])
  BY SeenStep, CachesOK, LimitsAssumption DEF Types, TypeOK, Caches
<1>2. CASE /\ req[r].pc = "waiting"
           /\ req'[r].at = i /\ req'[r].env = req[r].env
           /\ req'[r].since = req[r].since
  <2>1. i \in Instances /\ x \in Nat /\ now' < x /\ now < x
    BY <1>1, <1>2 DEF Types, Placed, Attempts
  <2>2. n \in DOMAIN seen[i] /\ seen[i][n].val >= x
    BY <1>2, <2>1 DEF Spent
  <2>3. seen[i][n].val \in Nat /\ seen[i][n].val > now
    BY <1>1, <2>1, <2>2, Entry
  <2>4. n \in DOMAIN seen'[i] /\ seen'[i][n].val >= seen[i][n].val
    <3>1. CASE AllKeep
      BY <2>1, <2>2, <2>3, <3>1 DEF AllKeep, Keeps
    <3>2. ASSUME NEW j \in Instances, Restart(j)
          PROVE  n \in DOMAIN seen'[i] /\ seen'[i][n].val >= seen[i][n].val
      <4>1. i # j
        <5>1. req' = [q \in Requests |-> IF req[q].pc = "waiting" /\ req[q].at = j
                                         THEN Ended(req[q]) ELSE req[q]]
          BY <3>2, Zenon DEF Restart
        <5>2. i = j => req'[r] = Ended(req[r])
          BY <1>2, <5>1
        <5>3. Ended(req[r]).pc # "waiting"
          BY <1>1, AttemptTypes
        <5> QED
          BY <5>2, <5>3
      <4>2. seen'[i] = seen[i]
        BY <2>1, <3>2, <4>1, CachesOK DEF Types, Restart
      <4> QED
        BY <2>2, <2>3, <4>2
    <3> QED
      BY <3>1, <3>2, SeenStep
  <2>5. seen'[i][n].val \in Nat
    BY <1>1, <2>1, <2>4, Entry
  <2> HIDE DEF x, n, i
  <2>6. n \in DOMAIN seen'[i] /\ seen'[i][n].val >= x
    BY <2>1, <2>2, <2>3, <2>4, <2>5
  <2> QED
    BY <1>2, <2>6 DEF x, n, i
<1>3. ASSUME NEW s \in Requests, NEW j \in Instances, NEW e \in Envelopes, Forward(s, j, e)
      PROVE  \/ r = s
             \/ /\ req[r].pc = "waiting"
                /\ req'[r].at = i /\ req'[r].env = req[r].env
                /\ req'[r].since = req[r].since
  BY <1>3, ForwardTypes
<1>4. ASSUME NEW j \in Instances, NEW e \in Envelopes, Forward(r, j, e)
      PROVE  /\ req'[r].env.nonce \in DOMAIN seen'[req'[r].at]
             /\ seen'[req'[r].at][req'[r].env.nonce].val >= req'[r].since + MaxSkew
  <2>1. req'[r] = Waiting(j, e) /\ Spend(j, e)
    BY <1>4, ForwardTypes DEF Forward
  <2>2. e.nonce \in DOMAIN seen'[j] /\ seen'[j][e.nonce].val = now + MaxSkew
    BY <2>1, SpendStep
  <2>3. req'[r].at = j /\ req'[r].env = e /\ req'[r].since = now
    BY <2>1 DEF Waiting
  <2> QED
    BY <1>1, <2>2, <2>3
<1>5. CASE \E s \in Requests, j \in Instances, e \in Envelopes : Forward(s, j, e)
  BY <1>2, <1>3, <1>4, <1>5
<1>6. CASE ~\E s \in Requests, j \in Instances, e \in Envelopes : Forward(s, j, e)
  BY <1>2, <1>6, StillWaiting
<1> QED
  BY <1>5, <1>6

\* A call that starts beside another with its nonce does so a skew after that
\* one's start: until then the nonce is spent.
LEMMA ApartStep ==
    ASSUME Types, RequireNonce /\ Roomy => Spent, CallsApart, [Next]_vars
    PROVE  CallsApart'
<1> SUFFICES ASSUME RequireNonce, Roomy,
                    NEW r \in Requests, NEW s \in Requests, r # s,
                    req'[r].pc = "waiting", req'[s].pc = "waiting",
                    req'[r].at = req'[s].at, req'[r].env.nonce = req'[s].env.nonce
             PROVE  \/ req'[r].since + MaxSkew <= req'[s].since
                    \/ req'[s].since + MaxSkew <= req'[r].since
  BY DEF CallsApart, Roomy
<1>1. ASSUME NEW a \in Requests, NEW b \in Requests, a # b,
             NEW i \in Instances, NEW e \in Envelopes, Forward(a, i, e),
             req'[b].pc = "waiting",
             req'[a].at = req'[b].at, req'[a].env.nonce = req'[b].env.nonce
      PROVE  req'[b].since + MaxSkew <= req'[a].since
  <2>1. req'[a] = Waiting(i, e) /\ req'[b] = req[b] /\ Spend(i, e)
    BY <1>1, ForwardTypes DEF Forward
  <2>2. req'[a].at = i /\ req'[a].env = e /\ req'[a].since = now
    BY <2>1 DEF Waiting
  <2>3. req[b].at = i /\ req[b].env.nonce = e.nonce /\ req[b].pc = "waiting"
    BY <1>1, <2>1, <2>2
  <2>4. now \in Nat /\ req[b].since \in Nat /\ MaxSkew \in Nat
    BY LimitsAssumption DEF Types, TypeOK
  <2>5. ~(now < req[b].since + MaxSkew)
    <3> SUFFICES ASSUME now < req[b].since + MaxSkew
                 PROVE  FALSE
      OBVIOUS
    <3>1. e.nonce \in DOMAIN seen[i] /\ seen[i][e.nonce].val >= req[b].since + MaxSkew
      BY <2>3 DEF Spent
    <3>2. seen[i][e.nonce].val <= now
      BY <2>1, <3>1, SpendStep
    <3>3. seen[i][e.nonce].val \in Nat
      BY <3>1, CachesOK, Entry DEF Types
    <3> QED
      BY <2>4, <3>1, <3>2, <3>3
  <2> QED
    BY <2>1, <2>2, <2>4, <2>5
<1>2. CASE ~\E q \in Requests, i \in Instances, e \in Envelopes : Forward(q, i, e)
  <2>1. /\ req[r].pc = "waiting" /\ req'[r].at = req[r].at
        /\ req'[r].env = req[r].env /\ req'[r].since = req[r].since
        /\ req[s].pc = "waiting" /\ req'[s].at = req[s].at
        /\ req'[s].env = req[s].env /\ req'[s].since = req[s].since
    BY <1>2, StillWaiting
  <2> QED
    BY <2>1 DEF CallsApart
<1>3. ASSUME NEW q \in Requests, NEW i \in Instances, NEW e \in Envelopes, Forward(q, i, e)
      PROVE  \/ req'[r].since + MaxSkew <= req'[s].since
             \/ req'[s].since + MaxSkew <= req'[r].since
  <2>1. CASE q = r
    BY <1>1, <1>3, <2>1
  <2>2. CASE q = s
    BY <1>1, <1>3, <2>2
  <2>3. CASE q # r /\ q # s
    <3>1. req'[r] = req[r] /\ req'[s] = req[s]
      BY <1>3, <2>3, ForwardTypes
    <3> QED
      BY <3>1 DEF CallsApart
  <2> QED
    BY <2>1, <2>2, <2>3
<1> QED
  BY <1>2, <1>3

-----------------------------------------------------------------------------
(* The runs of an envelope.                                                *)

\* Sizes of the sets that Runs counts.
LEMMA CountTypes ==
    ASSUME NEW e, NEW late
    PROVE  /\ IsFiniteSet(Jobs(e)) /\ Cardinality(Jobs(e)) \in Nat
           /\ IsFiniteSet(Left(e, late)) /\ Cardinality(Left(e, late)) \in Nat
           /\ Cardinality(Left(e, late)) <= Cardinality(Instances)
           /\ Cardinality(Instances) \in Nat
<1>1. Jobs(e) \in SUBSET Requests /\ Left(e, late) \in SUBSET Instances
  BY DEF Jobs, Left
<1> QED
  BY <1>1, SettingsAssumption, FS_Subset, FS_CardinalityType

\* A set that loses an element, or gains none.
LEMMA Shrinks ==
    ASSUME NEW S, IsFiniteSet(S), NEW T \in SUBSET S
    PROVE  /\ Cardinality(T) <= Cardinality(S)
           /\ \A x \in S : x \notin T => Cardinality(T) <= Cardinality(S) - 1
<1>1. Cardinality(T) <= Cardinality(S)
  BY FS_Subset
<1>2. ASSUME NEW x \in S, x \notin T
      PROVE  Cardinality(T) <= Cardinality(S) - 1
  <2>1. T \in SUBSET (S \ {x}) /\ IsFiniteSet(S \ {x})
    BY <1>2, FS_RemoveElement
  <2>2. Cardinality(S \ {x}) = Cardinality(S) - 1
    BY <1>2, FS_RemoveElement
  <2> QED
    BY <2>1, <2>2, FS_Subset
<1> QED
  BY <1>1, <1>2

\* While no cache forgets, no instance may accept what it could not before.
LEMMA LeftShrinks ==
    ASSUME Types, now' \in Nat, now <= now', AllKeep,
           Caches, NEW e \in Envelopes, NEW late \in Nat
    PROVE  Left(e, late)' \subseteq Left(e, late)
<1> SUFFICES ASSUME NEW i \in Left(e, late)'
             PROVE  i \in Left(e, late)
  OBVIOUS
<1>1. /\ i \in Instances /\ e.ts \in Int
      /\ now' + late <= e.ts + MaxSkew
      /\ e.nonce \in DOMAIN seen'[i] => seen'[i][e.nonce].val + late <= e.ts + MaxSkew
  BY DEF Left
<1>2. now \in Nat /\ MaxSkew \in Nat /\ CacheOK(seen[i]) /\ CacheOK(seen'[i])
  BY <1>1, LimitsAssumption, CachesOK DEF Types, TypeOK, Caches
<1>3. ASSUME e.nonce \in DOMAIN seen[i]
      PROVE  seen[i][e.nonce].val + late <= e.ts + MaxSkew
  <2>1. seen[i][e.nonce].val \in Nat
    BY <1>2, <1>3, Entry
  <2>2. CASE seen[i][e.nonce].val > now
    <3>1. e.nonce \in DOMAIN seen'[i] /\ seen'[i][e.nonce].val >= seen[i][e.nonce].val
      BY <1>1, <1>3, <2>2 DEF AllKeep, Keeps
    <3>2. seen'[i][e.nonce].val \in Nat
      BY <1>2, <3>1, Entry
    <3> QED
      BY <1>1, <1>2, <2>1, <3>1, <3>2
  <2>3. CASE ~(seen[i][e.nonce].val > now)
    BY <1>1, <1>2, <2>1, <2>3
  <2> QED
    BY <2>2, <2>3
<1> QED
  BY <1>1, <1>2, <1>3 DEF Left

\* An acceptance costs the instance one of the three.
LEMMA AcceptCosts ==
    ASSUME Types, RequireNonce, Roomy,
           NEW i \in Instances, NEW e \in Envelopes, Spend(i, e), UNCHANGED now
    PROVE  \/ i \in Left(e, 0) /\ i \notin Left(e, 0)'
           \/ i \in Left(e, MaxSkew) /\ i \notin Left(e, MaxSkew)'
           \/ i \in Left(e, 2 * MaxSkew) /\ i \notin Left(e, 2 * MaxSkew)'
<1> DEFINE B(late) == /\ now + late <= e.ts + MaxSkew
                      /\ e.nonce \in DOMAIN seen[i] =>
                            seen[i][e.nonce].val + late <= e.ts + MaxSkew
           A(late) == now + MaxSkew + late <= e.ts + MaxSkew
<1>1. /\ now \in Nat /\ MaxSkew \in Nat \ {0}
      /\ e.nonce \in DOMAIN seen[i] => seen[i][e.nonce].val \in Nat
  BY LimitsAssumption, CachesOK, Entry DEF Types, TypeOK
<1>2. /\ InTime(e)
      /\ e.nonce \in DOMAIN seen'[i] /\ seen'[i][e.nonce].val = now + MaxSkew
      /\ e.nonce \in DOMAIN seen[i] => seen[i][e.nonce].val <= now
  BY SpendStep
<1>3. e.ts \in Int
  BY <1>2, InTimeTypes
<1>4. now <= e.ts + MaxSkew /\ e.ts <= now + MaxSkew
  BY <1>1, <1>2, <1>3 DEF InTime, InWindow, Distance
<1>5. ASSUME NEW late \in Nat
      PROVE  /\ i \in Left(e, late) <=> B(late)
             /\ i \in Left(e, late)' => A(late)
  BY <1>2, <1>3 DEF Left
<1>6. B(0) /\ ~A(2 * MaxSkew)
  BY <1>1, <1>2, <1>3, <1>4
<1>7. (A(0) => B(MaxSkew)) /\ (A(MaxSkew) => B(2 * MaxSkew))
  BY <1>1, <1>2, <1>3, <1>4
<1> HIDE DEF A, B
<1>8. 0 \in Nat /\ MaxSkew \in Nat /\ 2 * MaxSkew \in Nat
  BY <1>1
<1> QED
  BY <1>5, <1>6, <1>7, <1>8

\* Only Forward adds a job.
LEMMA JobsShrink ==
    ASSUME Types, [Next]_vars,
           ~\E r \in Requests, i \in Instances, e \in Envelopes : Forward(r, i, e),
           NEW e \in Envelopes
    PROVE  Jobs(e)' \subseteq Jobs(e)
<1>1. ASSUME NEW r \in Requests, req'[r].job \in Pending, req'[r].env = e
      PROVE  req[r].job \in Pending /\ req[r].env = e
  <2>1. req[r] \in Attempts /\ Settles(req[r], req'[r])
    BY NextSettles, SettingsAssumption DEF Types
  <2> QED
    BY <1>1, <2>1, SettledAttempt
<1> QED
  BY <1>1 DEF Jobs

\* A restart gives an instance its three acceptances back.
LEMMA LeftAfterRestart ==
    ASSUME Types, NEW i \in Instances, Restart(i), NEW e \in Envelopes, NEW late \in Nat
    PROVE  Cardinality(Left(e, late)') <= Cardinality(Left(e, late)) + 1
<1>1. seen' = [seen EXCEPT ![i] = EmptyMap] /\ now' = now /\ DOMAIN seen = Instances
  BY CachesOK DEF Restart, Types
<1>2. Left(e, late)' \subseteq Left(e, late) \cup {i}
  BY <1>1 DEF Left
<1> DEFINE S == Left(e, late)
           T == Left(e, late)'
<1>3. IsFiniteSet(S) /\ Cardinality(S) \in Nat
  BY CountTypes
<1>4. T \in SUBSET (S \cup {i})
  BY <1>2
<1> HIDE DEF S, T
<1>5. /\ IsFiniteSet(S \cup {i})
      /\ Cardinality(S \cup {i}) \in Nat
      /\ Cardinality(S \cup {i}) <= Cardinality(S) + 1
  BY <1>3, AddOne
<1>6. Cardinality(T) <= Cardinality(S \cup {i}) /\ Cardinality(T) \in Nat
  BY <1>4, <1>5, FS_Subset, FS_CardinalityType
<1>7. Cardinality(T) <= Cardinality(S) + 1
  BY <1>3, <1>5, <1>6
<1> QED
  BY <1>7 DEF S, T

LEMMA BudgetStep ==
    ASSUME Types, Budget, [Next]_vars, RequireNonce, Roomy
    PROVE  Budget'
<1> SUFFICES ASSUME NEW e \in Envelopes
             PROVE  Runs(e)' <= 3 * (Cardinality(Instances) + restarts')
  BY DEF Budget
<1> DEFINE E == effects[e]
           J == Cardinality(Jobs(e))
           L0 == Cardinality(Left(e, 0))
           L1 == Cardinality(Left(e, MaxSkew))
           L2 == Cardinality(Left(e, 2 * MaxSkew))
           N == Cardinality(Instances)
           Enew == effects'[e]
           Jnew == Cardinality(Jobs(e)')
           L0new == Cardinality(Left(e, 0)')
           L1new == Cardinality(Left(e, MaxSkew)')
           L2new == Cardinality(Left(e, 2 * MaxSkew)')
<1>1. /\ E \in Nat /\ J \in Nat /\ L0 \in Nat /\ L1 \in Nat /\ L2 \in Nat
      /\ N \in Nat /\ restarts \in Nat
      /\ E + J + L0 + L1 + L2 <= 3 * (N + restarts)
  <2>1. Runs(e) <= 3 * (N + restarts)
    BY DEF Budget
  <2> QED
    BY <2>1, CountTypes DEF Types, TypeOK, Runs
<1>2. /\ Enew \in Nat /\ Jnew \in Nat /\ L0new \in Nat /\ L1new \in Nat /\ L2new \in Nat
      /\ restarts' \in Nat
  <2>1. Enew \in Nat /\ restarts' \in Nat
    BY TypesStep DEF Types, TypeOK
  <2>2. ASSUME NEW late
        PROVE  Cardinality(Left(e, late)') \in Nat /\ Cardinality(Jobs(e)') \in Nat
    <3>1. Left(e, late)' \in SUBSET Instances /\ Jobs(e)' \in SUBSET Requests
      BY DEF Left, Jobs
    <3> QED
      BY <3>1, SettingsAssumption, FS_Subset, FS_CardinalityType
  <2> QED
    BY <2>1, <2>2
<1>3. MaxSkew \in Nat /\ 2 * MaxSkew \in Nat /\ 0 \in Nat
  BY LimitsAssumption
<1>4. Caches /\ now' \in Nat /\ now <= now'
  BY SeenStep
<1>5. ASSUME AllKeep
      PROVE  L0new <= L0 /\ L1new <= L1 /\ L2new <= L2
  <2>1. ASSUME NEW late \in Nat
        PROVE  Cardinality(Left(e, late)') <= Cardinality(Left(e, late))
    <3>1. Left(e, late)' \in SUBSET Left(e, late)
      BY <1>4, <1>5, LeftShrinks
    <3> QED
      BY <3>1, CountTypes, FS_Subset
  <2> QED
    BY <1>3, <2>1
<1>6. ASSUME ~\E r \in Requests, i \in Instances, d \in Envelopes : Forward(r, i, d)
      PROVE  Jnew <= J /\ \A r \in Jobs(e) : r \notin Jobs(e)' => Jnew <= J - 1
  <2>1. Jobs(e)' \in SUBSET Jobs(e)
    BY <1>6, JobsShrink
  <2> QED
    BY <2>1, CountTypes, Shrinks
<1> HIDE DEF N
<1> DEFINE Goal == Enew + Jnew + L0new + L1new + L2new <= 3 * (N + restarts')
<1>7. ASSUME NEW i \in Instances, Restart(i)
      PROVE  Goal
  <2>1. Enew = E /\ restarts' = restarts + 1
    BY <1>7 DEF Restart
  <2>2. Jnew <= J
    <3>1. req \in [Requests -> Attempts]
      BY DEF Types
    <3>2. ASSUME NEW r \in Requests, NEW j \in Instances, NEW d \in Envelopes, Forward(r, j, d)
          PROVE  FALSE
      BY <1>7, <3>2, <2>1, <1>1 DEF Forward, history
    <3> QED
      BY <1>6, <3>2
  <2>3. L0new <= L0 + 1 /\ L1new <= L1 + 1 /\ L2new <= L2 + 1
    BY <1>3, <1>7, LeftAfterRestart
  <2> HIDE DEF E, J, L0, L1, L2, Enew, Jnew, L0new, L1new, L2new
  <2> QED
    BY <1>1, <1>2, <2>1, <2>2, <2>3
<1>8. ASSUME NEW r \in Requests, NEW i \in Instances, NEW d \in Envelopes, Forward(r, i, d)
      PROVE  Goal
  <2>1. Enew = E /\ restarts' = restarts /\ Spend(i, d) /\ UNCHANGED now
    BY <1>8 DEF Forward, history
  <2>2. AllKeep
    BY <2>1, SpendStep
  <2>3. L0new <= L0 /\ L1new <= L1 /\ L2new <= L2
    BY <1>5, <2>2
  <2>4. req'[r] = Waiting(i, d) /\ \A s \in Requests \ {r} : req'[s] = req[s]
    BY <1>8, ForwardTypes
  <2>5. CASE d = e
    <3>1. Jnew <= J + 1
      <4> DEFINE S == Jobs(e) \cup {r}
      <4>1. Jobs(e)' \in SUBSET S
        BY <2>4 DEF Jobs
      <4>2. IsFiniteSet(S) /\ Cardinality(S) \in Nat /\ Cardinality(S) <= J + 1
        BY CountTypes, AddOne
      <4>3. Cardinality(Jobs(e)') <= Cardinality(S)
        BY <4>1, <4>2, FS_Subset
      <4> HIDE DEF S
      <4> QED
        BY <1>1, <1>2, <4>2, <4>3
    <3>2. L0new <= L0 - 1 \/ L1new <= L1 - 1 \/ L2new <= L2 - 1
      <4>1. ASSUME NEW late \in Nat, i \in Left(e, late), i \notin Left(e, late)'
            PROVE  Cardinality(Left(e, late)') <= Cardinality(Left(e, late)) - 1
        <5>1. Left(e, late)' \in SUBSET Left(e, late)
          BY <1>4, <2>2, LeftShrinks
        <5> QED
          BY <4>1, <5>1, CountTypes, Shrinks
      <4> QED
        BY <1>3, <2>1, <2>5, <4>1, AcceptCosts
    <3> HIDE DEF E, J, L0, L1, L2, Enew, Jnew, L0new, L1new, L2new
    <3> QED
      BY <1>1, <1>2, <2>1, <2>3, <3>1, <3>2
  <2>6. CASE d # e
    <3>1. req'[r].env = d
      BY <2>4 DEF Waiting
    <3>2. Jobs(e)' \in SUBSET Jobs(e)
      BY <2>4, <2>6, <3>1 DEF Jobs
    <3>3. Jnew <= J
      BY <3>2, CountTypes, FS_Subset
    <3> HIDE DEF E, J, L0, L1, L2, Enew, Jnew, L0new, L1new, L2new
    <3> QED
      BY <1>1, <1>2, <2>1, <2>3, <3>3
  <2> QED
    BY <2>5, <2>6
<1>9. ASSUME ~\E i \in Instances : Restart(i),
             ~\E r \in Requests, i \in Instances, d \in Envelopes : Forward(r, i, d)
      PROVE  Goal
  <2>1. L0new <= L0 /\ L1new <= L1 /\ L2new <= L2
    BY <1>5, <1>9, SeenStep
  <2>2. restarts' = restarts
    BY <1>9, StepKinds DEF Steady
  <2>3. CASE Enew = E
    <3>1. Jnew <= J
      BY <1>6, <1>9
    <3> HIDE DEF E, J, L0, L1, L2, Enew, Jnew, L0new, L1new, L2new
    <3> QED
      BY <1>1, <1>2, <2>1, <2>2, <2>3, <3>1
  <2>4. ASSUME Enew # E
        PROVE  Enew <= E + 1 /\ Jnew <= J - 1
    <3>1. PICK r \in Requests : UpstreamRuns(r)
      BY <1>9, <2>4, StepKinds DEF Steady
    <3>2. /\ effects' = [effects EXCEPT ![req[r].env] = IF @ < MostEffects THEN @ + 1 ELSE @]
          /\ req[r].job = "sent"
      BY <3>1 DEF UpstreamRuns
    <3>3. effects \in [Envelopes -> Nat]
      BY DEF Types, TypeOK
    <3>4. req[r].env = e /\ Enew <= E + 1
      BY <1>1, <2>4, <3>2, <3>3
    <3>5. r \in Jobs(e)
      BY <3>2, <3>4 DEF Jobs, Pending
    <3>6. req'[r].job \notin Pending
      <4>1. /\ req \in [Requests -> Attempts]
            /\ req'[r] = IF req[r].pc = "orphan" THEN Free ELSE [req[r] EXCEPT !.job = "done"]
        BY <3>1 DEF UpstreamRuns, Types
      <4> QED
        BY <4>1, AttemptTypes DEF Attempts, Pending
    <3>7. r \notin Jobs(e)'
      BY <3>6 DEF Jobs
    <3> QED
      BY <1>6, <1>9, <3>4, <3>5, <3>7
  <2>5. CASE Enew # E
    <3>1. Enew <= E + 1 /\ Jnew <= J - 1
      BY <2>4, <2>5
    <3> HIDE DEF E, J, L0, L1, L2, Enew, Jnew, L0new, L1new, L2new
    <3> QED
      BY <1>1, <1>2, <2>1, <2>2, <3>1
  <2> QED
    BY <2>3, <2>5
<1>10. Goal
  BY <1>7, <1>8, <1>9
<1> QED
  BY <1>10 DEF Runs, N

-----------------------------------------------------------------------------
(* The theorems.                                                           *)

LEMMA IInvInit ==
    ASSUME Init
    PROVE  IInv
<1>1. CacheOK(EmptyMap)
  BY DEF CacheOK, IsMapOver, WellOrdered, EmptyMap
<1>2. req \in [Requests -> Attempts] /\ Placed
  BY AttemptTypes DEF Init, Placed, Pending
<1>3. TypeOK
  BY <1>1, <1>2 DEF Init, TypeOK, CacheOK, Attempts
<1>4. \A r \in Requests : req[r].pc = "free" /\ req[r].job = "none"
  BY AttemptTypes DEF Init
<1>5. Spent /\ CallsApart
  BY <1>4 DEF Spent, CallsApart
<1>6. ASSUME NEW e \in Envelopes
      PROVE  Runs(e) <= 3 * (Cardinality(Instances) + restarts)
  <2>1. Jobs(e) = {}
    BY <1>4 DEF Jobs, Pending
  <2>2. effects[e] = 0 /\ Cardinality(Jobs(e)) = 0 /\ restarts = 0
    BY <2>1, FS_EmptySet DEF Init
  <2>3. \A late : /\ Cardinality(Left(e, late)) \in Nat
                  /\ Cardinality(Left(e, late)) <= Cardinality(Instances)
                  /\ Cardinality(Instances) \in Nat
    BY CountTypes
  <2> QED
    BY <2>2, <2>3 DEF Runs
<1> QED
  BY <1>2, <1>3, <1>5, <1>6 DEF IInv, Types, Budget

LEMMA IInvNext ==
    ASSUME IInv, [Next]_vars
    PROVE  IInv'
<1>1. Types' /\ CallsApart'
  BY TypesStep, ApartStep DEF IInv
<1>2. RequireNonce /\ Roomy => Spent' /\ Budget'
  BY SpentStep, BudgetStep DEF IInv
<1> QED
  BY <1>1, <1>2 DEF IInv, Roomy

LEMMA IInvAlways == Spec => []IInv
BY IInvInit, IInvNext, PTL DEF Spec

\* Types of all variables; every cache stays a well-ordered Map.
THEOREM TypeCorrect == Spec => []TypeOK
<1>1. IInv => TypeOK
  BY DEF IInv, Types
<1> QED
  BY <1>1, IInvAlways, PTL

\* An envelope is run at most three times per life of an instance, however often
\* it is sent, and however late the upstream runs it.
THEOREM RunsAreBounded == Spec => []EffectsBounded
<1>1. ASSUME IInv, RequireNonce, Roomy, NEW e \in Envelopes
      PROVE  effects[e] <= 3 * (Cardinality(Instances) + restarts)
  <2> DEFINE J == Cardinality(Jobs(e))
             L0 == Cardinality(Left(e, 0))
             L1 == Cardinality(Left(e, MaxSkew))
             L2 == Cardinality(Left(e, 2 * MaxSkew))
             E == effects[e]
             N == 3 * (Cardinality(Instances) + restarts)
  <2>1. J \in Nat /\ L0 \in Nat /\ L1 \in Nat /\ L2 \in Nat /\ Cardinality(Instances) \in Nat
    BY CountTypes
  <2>2. effects \in [Envelopes -> Nat] /\ restarts \in Nat
    BY <1>1 DEF IInv, Types, TypeOK
  <2>3. E \in Nat /\ N \in Nat
    BY <2>1, <2>2
  <2>4. E + J + L0 + L1 + L2 <= N
    BY <1>1 DEF IInv, Budget, Runs
  <2> HIDE DEF J, L0, L1, L2, E, N
  <2>5. E <= N
    BY <2>1, <2>3, <2>4
  <2> QED
    BY <2>5 DEF E, N
<1>2. IInv => EffectsBounded
  BY <1>1 DEF EffectsBounded
<1> QED
  BY <1>2, IInvAlways, PTL

\* While a call is in progress, its nonce is spent.
THEOREM NonceIsSpent == Spec => []SpentWhileWaiting
<1>1. ASSUME IInv, RequireNonce, Roomy, NEW r \in Requests, req[r].pc = "waiting",
             now < req[r].since + MaxSkew
      PROVE  Known(seen[req[r].at], req[r].env.nonce, now)
  <2> DEFINE i == req[r].at
             n == req[r].env.nonce
  <2>1. /\ i \in Instances /\ req[r].since \in Nat /\ now \in Nat /\ MaxSkew \in Nat
        /\ CacheOK(seen[i])
    BY <1>1, CachesOK, LimitsAssumption DEF IInv, Types, TypeOK, Placed
  <2>2. n \in DOMAIN seen[i] /\ seen[i][n].val >= req[r].since + MaxSkew
    BY <1>1 DEF IInv, Spent
  <2>3. seen[i][n].val \in Nat
    BY <2>1, <2>2, Entry
  <2> QED
    BY <1>1, <2>1, <2>2, <2>3 DEF Known
<1>2. IInv => SpentWhileWaiting
  BY <1>1 DEF SpentWhileWaiting
<1> QED
  BY <1>2, IInvAlways, PTL

\* Two calls with one nonce at one instance are started a skew apart at least,
\* although nothing bounds how long they last.
THEOREM CallsStartApart == Spec => []CallsApart
<1>1. IInv => CallsApart
  BY DEF IInv
<1> QED
  BY <1>1, IInvAlways, PTL
=============================================================================
