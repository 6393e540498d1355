--------------------------- MODULE RateLimitProofs ---------------------------
(* Theorems about RateLimit, for every set of clients (finite or not),     *)
(* every TTL, limit and table size.                                        *)
EXTENDS RateLimit, InsertionMapProofs, FiniteSetTheorems, TLAPS

-----------------------------------------------------------------------------
(* The inductive invariant.                                                *)

\* There is room for the overflow counter, whether it exists or not.
RoomForOverflow ==
    /\ IsFiniteSet(DOMAIN hits)
    /\ Cardinality(DOMAIN hits \ {Overflow}) <= MaxEntries - 1

\* Every window ends later than the last sweep, at nextSweepAt - TTL, and a
\* call leaves the next sweep in the future.
SweptInTime ==
    /\ nextSweepAt <= now + TTL
    /\ \A k \in DOMAIN hits : nextSweepAt < hits[k].resetAt + TTL
    /\ answer.code \in {"allowed", "limited"} => now < nextSweepAt

IInv == TypeOK /\ RoomForOverflow /\ WindowKept /\ SweptInTime

LEMMA IInvInit == Init => IInv
<1> SUFFICES ASSUME Init
             PROVE  IInv
  OBVIOUS
<1>1. DOMAIN hits = {} /\ hits = [k \in DOMAIN hits |-> hits[k]]
  BY DEF Init
<1>2. TypeOK
  BY <1>1, LimitsAssumption DEF Init, TypeOK, Idle, Keys
<1>3. RoomForOverflow
  <2>1. DOMAIN hits \ {Overflow} = {}
    BY <1>1
  <2> QED
    BY <1>1, <2>1, FS_EmptySet, LimitsAssumption DEF RoomForOverflow
<1>4. WindowKept
  BY DEF Init, WindowKept
<1>5. SweptInTime
  BY <1>1, LimitsAssumption DEF Init, SweptInTime, Idle
<1> QED
  BY <1>2, <1>3, <1>4, <1>5 DEF IInv

-----------------------------------------------------------------------------
(* What the parts of canActivate do.                                       *)

\* The sweep keeps the windows that are running, and everything else that it
\* keeps is as it was; when it is due it keeps nothing that is finished.
LEMMA SweptFacts ==
    ASSUME TypeOK, IsFiniteSet(DOMAIN hits)
    PROVE  /\ Swept = [k \in DOMAIN Swept |-> Swept[k]]
           /\ DOMAIN Swept \subseteq DOMAIN hits
           /\ IsFiniteSet(DOMAIN Swept)
           /\ \A k \in DOMAIN Swept : Swept[k] = hits[k]
           /\ \A k \in DOMAIN hits : now < hits[k].resetAt => k \in DOMAIN Swept
           /\ SweepDue => \A k \in DOMAIN Swept : now < hits[k].resetAt
<1>1. DOMAIN Swept \subseteq DOMAIN hits
  BY DEF Swept
<1>2. IsFiniteSet(DOMAIN Swept)
  BY <1>1, FS_Subset
<1>3. \A k \in DOMAIN hits : hits[k].resetAt \in Nat /\ now \in Nat
  BY DEF TypeOK
<1>4. \A k \in DOMAIN hits : now < hits[k].resetAt => k \in DOMAIN Swept
  BY <1>3 DEF Swept, Dead
<1>5. SweepDue => \A k \in DOMAIN Swept : now < hits[k].resetAt
  BY <1>3 DEF Swept, Dead
<1> QED
  BY <1>1, <1>2, <1>4, <1>5 DEF Swept

\* The counter charged is the client's own, or the overflow counter; a counter
\* of its own is new only while there is room for it.
LEMMA ChargedKeyFacts ==
    ASSUME NEW table, NEW c \in Clients, IsFiniteSet(DOMAIN table)
    PROVE  /\ ChargedKey(table, c) \in Keys
           /\ ChargedKey(table, c) # Overflow /\ ChargedKey(table, c) \notin DOMAIN table
                 => Cardinality(DOMAIN table) < MaxEntries - 1
<1>1. Cardinality(DOMAIN table) \in Nat
  BY FS_CardinalityType
<1> QED
  BY <1>1, LimitsAssumption DEF ChargedKey, Keys

\* The counter afterwards has a running window, the old one if that runs.
LEMMA ChargedFacts ==
    ASSUME TypeOK, NEW table, NEW k,
           k \in DOMAIN table => table[k] \in [count : 1 .. Limit + 1, resetAt : Nat]
    PROVE  /\ Charged(table, k) \in [count : 1 .. Limit + 1, resetAt : Nat]
           /\ now < Charged(table, k).resetAt
           /\ k \in DOMAIN table /\ now < table[k].resetAt
                 => Charged(table, k).resetAt = table[k].resetAt
<1>1. now \in Nat
  BY DEF TypeOK
<1>2. CASE k \notin DOMAIN table \/ table[k].resetAt <= now
  <2>1. Charged(table, k) = [count |-> 1, resetAt |-> now + TTL]
    BY <1>2 DEF Charged
  <2> QED
    BY <1>1, <1>2, <2>1, LimitsAssumption
<1>3. CASE k \in DOMAIN table /\ ~(table[k].resetAt <= now)
  <2> DEFINE e == table[k]
  <2>1. e \in [count : 1 .. Limit + 1, resetAt : Nat]
    BY <1>3
  <2>2. Charged(table, k) = [e EXCEPT !.count = IF @ > Limit THEN @ ELSE @ + 1]
    BY <1>3 DEF Charged
  <2> HIDE DEF e
  <2>3. Charged(table, k) = [count |-> IF e.count > Limit THEN e.count ELSE e.count + 1,
                             resetAt |-> e.resetAt]
    BY <2>1, <2>2
  <2> QED
    BY <1>1, <1>3, <2>1, <2>3, LimitsAssumption DEF e
<1> QED
  BY <1>2, <1>3

-----------------------------------------------------------------------------
(* The steps.                                                              *)

\* A request that is counted, whatever the answer.
LEMMA CountStep ==
    ASSUME IInv, NEW c \in Clients, NEW k, k = ChargedKey(Swept, c),
           NEW entry, entry = Charged(Swept, k), Count(k, entry),
           NEW code \in {"allowed", "limited"}, answer' = [code |-> code, key |-> k],
           recent' \in [Clients -> [Ages -> Nat]], UNCHANGED now
    PROVE  IInv'
<1> DEFINE t == Swept
<1>1. /\ t = [j \in DOMAIN t |-> t[j]]
      /\ DOMAIN t \subseteq DOMAIN hits
      /\ IsFiniteSet(DOMAIN t)
      /\ \A j \in DOMAIN t : t[j] = hits[j]
      /\ \A j \in DOMAIN hits : now < hits[j].resetAt => j \in DOMAIN t
      /\ SweepDue => \A j \in DOMAIN t : now < hits[j].resetAt
  BY SweptFacts DEF IInv, RoomForOverflow
<1>2. /\ hits' = Charge(t, k, entry)
      /\ nextSweepAt' = IF SweepDue THEN now + TTL ELSE nextSweepAt
      /\ told' = [told EXCEPT ![k] = entry.resetAt]
  BY DEF Count
<1> HIDE DEF t
<1>3. /\ now \in Nat /\ nextSweepAt \in Nat
      /\ \A j \in DOMAIN hits : hits[j] \in [count : 1 .. Limit + 1, resetAt : Nat]
      /\ DOMAIN hits \subseteq Keys
      /\ told \in [Keys -> Nat]
  BY DEF IInv, TypeOK
<1>4. /\ k \in Keys
      /\ k # Overflow /\ k \notin DOMAIN t => Cardinality(DOMAIN t) < MaxEntries - 1
  BY <1>1, ChargedKeyFacts DEF t
<1>5. /\ entry \in [count : 1 .. Limit + 1, resetAt : Nat]
      /\ now < entry.resetAt
      /\ k \in DOMAIN t /\ now < t[k].resetAt => entry.resetAt = t[k].resetAt
  <2>1. k \in DOMAIN t => t[k] \in [count : 1 .. Limit + 1, resetAt : Nat]
    BY <1>1, <1>3
  <2> QED
    BY <2>1, ChargedFacts DEF IInv, t
<1>6. /\ hits' = [j \in DOMAIN hits' |-> hits'[j]]
      /\ DOMAIN hits' = DOMAIN t \cup {k}
      /\ hits'[k] = entry
      /\ \A j \in DOMAIN t \ {k} : hits'[j] = hits[j]
  BY <1>1, <1>2 DEF Charge
<1>7. TypeOK'
  <2>1. DOMAIN hits' \subseteq Keys
    BY <1>1, <1>3, <1>4, <1>6
  <2>2. \A j \in DOMAIN hits' : hits'[j] \in [count : 1 .. Limit + 1, resetAt : Nat]
    BY <1>1, <1>3, <1>5, <1>6
  <2>3. told' \in [Keys -> Nat]
    BY <1>2, <1>3, <1>5
  <2>4. nextSweepAt' \in Nat /\ now' \in Nat
    BY <1>2, <1>3, LimitsAssumption
  <2>5. answer' \in [code : {"none", "allowed", "limited", "exempt"}, key : Keys]
    BY <1>4
  <2> QED
    BY <1>6, <2>1, <2>2, <2>3, <2>4, <2>5 DEF TypeOK
<1>8. RoomForOverflow'
  <2>1. IsFiniteSet(DOMAIN hits')
    BY <1>1, <1>6, FS_AddElement
  <2> DEFINE own == DOMAIN t \ {Overflow}
  <2>2. /\ IsFiniteSet(own) /\ Cardinality(own) \in Nat
        /\ Cardinality(own) <= MaxEntries - 1
    <3>1. IsFiniteSet(DOMAIN hits \ {Overflow})
      BY FS_Subset, DOMAIN hits \ {Overflow} \subseteq DOMAIN hits DEF IInv, RoomForOverflow
    <3>2. own \subseteq DOMAIN hits \ {Overflow}
      BY <1>1
    <3>3. IsFiniteSet(own) /\ Cardinality(own) <= Cardinality(DOMAIN hits \ {Overflow})
      BY <3>1, <3>2, FS_Subset
    <3>4. Cardinality(own) \in Nat /\ Cardinality(DOMAIN hits \ {Overflow}) \in Nat
      BY <3>1, <3>3, FS_CardinalityType
    <3>5. Cardinality(DOMAIN hits \ {Overflow}) <= MaxEntries - 1
      BY DEF IInv, RoomForOverflow
    <3> QED
      BY <3>3, <3>4, <3>5, LimitsAssumption
  <2>3. CASE k = Overflow \/ k \in DOMAIN t
    <3>1. DOMAIN hits' \ {Overflow} = own
      BY <1>6, <2>3
    <3> QED
      BY <2>1, <2>2, <3>1 DEF RoomForOverflow
  <2>4. CASE k # Overflow /\ k \notin DOMAIN t
    <3>1. DOMAIN hits' \ {Overflow} = own \cup {k} /\ k \notin own
      BY <1>6, <2>4
    <3>2. Cardinality(own \cup {k}) = Cardinality(own) + 1
      BY <2>2, <3>1, FS_AddElement
    <3>3. Cardinality(own) <= Cardinality(DOMAIN t)
      BY <1>1, FS_Subset, own \subseteq DOMAIN t
    <3>4. Cardinality(DOMAIN t) < MaxEntries - 1 /\ Cardinality(DOMAIN t) \in Nat
      BY <1>1, <1>4, <2>4, FS_CardinalityType
    <3> HIDE DEF own
    <3>5. Cardinality(own) + 1 <= MaxEntries - 1
      BY <2>2, <3>3, <3>4, LimitsAssumption
    <3> QED
      BY <2>1, <3>1, <3>2, <3>5 DEF RoomForOverflow
  <2> QED
    BY <2>3, <2>4
<1>9. WindowKept'
  <2> SUFFICES ASSUME NEW j \in Keys, now < told'[j]
               PROVE  j \in DOMAIN hits' /\ hits'[j].resetAt = told'[j]
    BY DEF WindowKept
  <2>1. CASE j = k
    BY <1>2, <1>3, <1>6, <2>1
  <2>2. CASE j # k
    <3>1. told'[j] = told[j]
      BY <1>2, <1>3, <2>2
    <3>2. j \in DOMAIN hits /\ hits[j].resetAt = told[j]
      BY <3>1 DEF IInv, WindowKept
    <3>3. j \in DOMAIN t
      BY <1>1, <3>1, <3>2
    <3> QED
      BY <1>6, <2>2, <3>1, <3>2, <3>3
  <2> QED
    BY <2>1, <2>2
<1>10. SweptInTime'
  <2>1. nextSweepAt <= now + TTL /\ \A j \in DOMAIN hits : nextSweepAt < hits[j].resetAt + TTL
    BY DEF IInv, SweptInTime
  <2>2. now < nextSweepAt' /\ nextSweepAt' <= now + TTL
    BY <1>2, <1>3, <2>1, LimitsAssumption DEF SweepDue
  <2>3. ASSUME NEW j \in DOMAIN hits'
        PROVE  nextSweepAt' < hits'[j].resetAt + TTL
    <3>1. CASE j = k
      <4>1. now + TTL < entry.resetAt + TTL
        BY <1>3, <1>5, LimitsAssumption
      <4>2. nextSweepAt' \in Nat /\ entry.resetAt \in Nat
        BY <1>2, <1>3, <1>5, LimitsAssumption
      <4> QED
        BY <1>3, <1>6, <2>2, <3>1, <4>1, <4>2, LimitsAssumption
    <3>2. CASE j # k
      <4>1. j \in DOMAIN t /\ j \in DOMAIN hits /\ hits'[j] = hits[j]
        BY <1>1, <1>6, <2>3, <3>2
      <4>2. hits[j].resetAt \in Nat
        BY <1>3, <4>1
      <4>3. CASE SweepDue
        BY <1>1, <1>2, <1>3, <4>1, <4>2, <4>3, LimitsAssumption
      <4>4. CASE ~SweepDue
        BY <1>2, <2>1, <4>1, <4>4
      <4> QED
        BY <4>3, <4>4
    <3> QED
      BY <3>1, <3>2
  <2> QED
    BY <2>2, <2>3 DEF SweptInTime
<1> QED
  BY <1>7, <1>8, <1>9, <1>10 DEF IInv

LEMMA TickStep ==
    ASSUME IInv, Tick
    PROVE  IInv'
<1>1. /\ UNCHANGED <<hits, nextSweepAt, told>>
      /\ now' = now + 1
      /\ answer' = Idle
      /\ recent' = [c \in Clients |-> [a \in Ages |->
                       IF a = 0 THEN 0 ELSE recent[c][a - 1]]]
  BY DEF Tick
<1>2. TypeOK'
  <2>1. \A c \in Clients : \A a \in Ages \ {0} : recent[c][a - 1] \in Nat
    <3>1. \A a \in Ages \ {0} : a - 1 \in Ages
      BY LimitsAssumption DEF Ages
    <3> QED
      BY <3>1 DEF IInv, TypeOK
  <2>2. recent' \in [Clients -> [Ages -> Nat]]
    BY <1>1, <2>1
  <2> QED
    BY <1>1, <2>2 DEF IInv, TypeOK, Idle, Keys
<1>3. RoomForOverflow'
  BY <1>1 DEF IInv, RoomForOverflow
<1>4. WindowKept'
  BY <1>1 DEF IInv, TypeOK, WindowKept
<1>5. SweptInTime'
  BY <1>1, LimitsAssumption DEF IInv, TypeOK, SweptInTime, Idle
<1> QED
  BY <1>2, <1>3, <1>4, <1>5 DEF IInv

LEMMA IInvNext == IInv /\ [Next]_vars => IInv'
<1> SUFFICES ASSUME IInv, [Next]_vars
             PROVE  IInv'
  OBVIOUS
<1>1. CASE UNCHANGED vars
  BY <1>1 DEF vars, history, IInv, TypeOK, RoomForOverflow, WindowKept, SweptInTime
<1>2. CASE Tick
  BY <1>2, TickStep
<1>3. ASSUME NEW c \in Clients, CanActivate(c)
      PROVE  IInv'
  <2>1. recent \in [Clients -> [Ages -> Nat]] /\ 0 \in Ages
    BY LimitsAssumption DEF IInv, TypeOK, Ages
  <2> DEFINE k == ChargedKey(Swept, c)
             entry == Charged(Swept, k)
  <2>2. CASE Allow(c)
    <3>1. /\ Count(k, entry)
          /\ answer' = [code |-> "allowed", key |-> k]
          /\ recent' = [recent EXCEPT ![c][0] = @ + 1]
          /\ UNCHANGED now
      BY <2>2 DEF Allow
    <3>2. recent' \in [Clients -> [Ages -> Nat]]
      BY <2>1, <3>1
    <3> HIDE DEF k, entry
    <3> QED
      BY <3>1, <3>2, CountStep DEF k, entry
  <2>3. CASE Refuse(c)
    <3>1. /\ Count(k, entry)
          /\ answer' = [code |-> "limited", key |-> k]
          /\ UNCHANGED <<now, recent>>
      BY <2>3 DEF Refuse
    <3>2. recent' \in [Clients -> [Ages -> Nat]]
      BY <2>1, <3>1
    <3> HIDE DEF k, entry
    <3> QED
      BY <3>1, <3>2, CountStep DEF k, entry
  <2>4. CASE Exempt(c)
    <3>1. /\ UNCHANGED <<hits, nextSweepAt, now, told, recent>>
          /\ answer' = [code |-> "exempt", key |-> c]
      BY <2>4 DEF Exempt, history
    <3> QED
      BY <3>1 DEF IInv, TypeOK, Keys, RoomForOverflow, WindowKept, SweptInTime
  <2> QED
    BY <1>3, <2>2, <2>3, <2>4 DEF CanActivate
<1> QED
  BY <1>1, <1>2, <1>3 DEF Next

LEMMA IInvAlways == Spec => []IInv
BY IInvInit, IInvNext, PTL DEF Spec

-----------------------------------------------------------------------------
(* Requests let through since a time.                                      *)

\* The sums that SlidingCount takes: at a, the requests of the last a ticks
\* and of this one.
Totals(r) ==
    CHOOSE sum : sum = [a \in Ages |-> r[a] + IF a = 0 THEN 0 ELSE sum[a - 1]]

LEMMA TotalsFacts ==
    ASSUME NEW r \in [Ages -> Nat]
    PROVE  /\ Totals(r) \in [Ages -> Nat]
           /\ Totals(r)[0] = r[0]
           /\ \A a \in Ages \ {0} : a - 1 \in Ages /\ Totals(r)[a] = r[a] + Totals(r)[a - 1]
<1> DEFINE n == TTL - 1
           next == [k \in 1 .. n |-> [s \in Nat |-> r[k] + s]]
           Body(f) == [a \in Ages |-> r[a] + IF a = 0 THEN 0 ELSE f[a - 1]]
<1>1. n \in Nat /\ Ages = 0 .. n /\ 0 \in Ages
  BY LimitsAssumption DEF Ages
<1> HIDE DEF n
<1>2. \A k \in 1 .. n : k \in Ages /\ k - 1 \in Ages /\ r[k] \in Nat
  BY <1>1
<1>3. next \in [1 .. n -> [Nat -> Nat]]
  BY <1>2
<1>4. PICK f : Unfolds(f, n, Nat, r[0], next)
  <2>1. r[0] \in Nat
    BY <1>1
  <2> HIDE DEF next
  <2> QED
    BY <1>1, <1>3, <2>1, ByRecursion
<1>5. /\ f \in [0 .. n -> Nat] /\ f[0] = r[0]
      /\ \A k \in 1 .. n : f[k] = next[k][f[k - 1]]
  BY <1>4 DEF Unfolds
<1>6. ASSUME NEW k \in 1 .. n
      PROVE  f[k - 1] \in Nat /\ f[k] = r[k] + f[k - 1]
  <2>1. k - 1 \in 0 .. n
    BY <1>1
  <2> QED
    BY <1>5, <2>1
<1>7. f = Body(f)
  <2>1. ASSUME NEW a \in Ages
        PROVE  f[a] = r[a] + IF a = 0 THEN 0 ELSE f[a - 1]
    <3>1. r[a] \in Nat
      OBVIOUS
    <3>2. CASE a = 0
      BY <1>5, <3>1, <3>2
    <3>3. CASE a # 0
      <4>1. a \in 1 .. n
        BY <1>1, <3>3
      <4> QED
        BY <1>6, <3>3, <4>1
    <3> QED
      BY <3>2, <3>3
  <2>2. f = [a \in Ages |-> f[a]]
    BY <1>1, <1>5
  <2> HIDE DEF next
  <2> QED
    BY <2>1, <2>2
<1>8. Totals(r) = Body(Totals(r))
  <2> DEFINE total == CHOOSE g : g = Body(g)
  <2>1. total = Body(total)
    <3> HIDE DEF Body
    <3> QED
      BY <1>7
  <2>2. Totals(r) = total
    BY DEF Totals
  <2> HIDE DEF total, Body
  <2> QED
    BY <2>1, <2>2
<1> DEFINE total == Totals(r)
<1>9. \A a \in Ages : total[a] = r[a] + IF a = 0 THEN 0 ELSE total[a - 1]
  <2> HIDE DEF total
  <2> QED
    BY <1>8 DEF total
<1>10. total = [a \in Ages |-> total[a]]
  <2>1. \A g : Body(g) = [a \in Ages |-> Body(g)[a]]
    OBVIOUS
  <2> HIDE DEF Body
  <2> QED
    BY <1>8, <2>1
<1> HIDE DEF total
<1> DEFINE G == {a \in Ages : total[a] \in Nat}
<1>11. total[0] = r[0] /\ 0 \in G
  <2>1. r[0] \in Nat
    BY <1>1
  <2> QED
    BY <1>1, <1>9, <2>1
<1>12. ASSUME NEW a \in Ages \ {0}
       PROVE  a - 1 \in Ages /\ total[a] = r[a] + total[a - 1]
  BY <1>1, <1>9, <1>12
<1>13. ASSUME NEW a \in 0 .. n, a # n, a \in G
       PROVE  a + 1 \in G
  <2>1. PICK b \in Ages \ {0} : b = a + 1 /\ b - 1 = a
    BY <1>1, <1>13
  <2>2. total[b] = r[b] + total[a] /\ r[b] \in Nat /\ total[a] \in Nat
    BY <1>12, <1>13, <2>1
  <2> QED
    BY <2>1, <2>2
<1>14. \A a \in Ages : total[a] \in Nat
  <2>1. \A a \in 0 .. n : a # n /\ a \in G => a + 1 \in G
    BY <1>13
  <2>2. 0 .. n \subseteq G
    <3> HIDE DEF G
    <3> QED
      BY <1>1, <1>11, <2>1, UpTo
  <2> QED
    BY <1>1, <2>2
<1> QED
  BY <1>10, <1>11, <1>12, <1>14 DEF total

LEMMA SlidingIsTotal ==
    ASSUME NEW c
    PROVE  SlidingCount(c) = Totals(recent[c])[TTL - 1]
BY DEF SlidingCount, Totals

\* One request more in this tick.
LEMMA TotalsMore ==
    ASSUME NEW r \in [Ages -> Nat], NEW s, s = [r EXCEPT ![0] = @ + 1]
    PROVE  \A a \in Ages : Totals(s)[a] = Totals(r)[a] + 1
<1> DEFINE n == TTL - 1
           t == Totals(r)
           u == Totals(s)
           G == {a \in Ages : u[a] = t[a] + 1}
<1>1. n \in Nat /\ Ages = 0 .. n /\ 0 \in Ages
  BY LimitsAssumption DEF Ages
<1>2. s \in [Ages -> Nat] /\ s[0] = r[0] + 1 /\ \A a \in Ages \ {0} : s[a] = r[a]
  BY <1>1
<1>3. /\ t \in [Ages -> Nat] /\ t[0] = r[0]
      /\ \A a \in Ages \ {0} : a - 1 \in Ages /\ t[a] = r[a] + t[a - 1]
  BY TotalsFacts
<1>4. /\ u \in [Ages -> Nat] /\ u[0] = s[0]
      /\ \A a \in Ages \ {0} : a - 1 \in Ages /\ u[a] = s[a] + u[a - 1]
  BY <1>2, TotalsFacts
<1> HIDE DEF n, t, u
<1>5. 0 \in G
  BY <1>1, <1>2, <1>3, <1>4
<1>6. ASSUME NEW a \in 0 .. n, a # n, a \in G
      PROVE  a + 1 \in G
  <2>1. PICK b \in Ages \ {0} : b = a + 1 /\ b - 1 = a
    BY <1>1, <1>6
  <2>2. t[b] = r[b] + t[a] /\ u[b] = r[b] + u[a] /\ u[a] = t[a] + 1
    BY <1>2, <1>3, <1>4, <1>6, <2>1
  <2>3. r[b] \in Nat /\ t[a] \in Nat
    BY <1>1, <1>3
  <2> QED
    BY <2>1, <2>2, <2>3
<1>7. 0 .. n \subseteq G
  <2>1. \A a \in 0 .. n : a # n /\ a \in G => a + 1 \in G
    BY <1>6
  <2> HIDE DEF G
  <2> QED
    BY <1>1, <1>5, <2>1, UpTo
<1> QED
  BY <1>1, <1>7 DEF t, u

\* One tick later.
LEMMA TotalsLater ==
    ASSUME NEW r \in [Ages -> Nat],
           NEW s, s = [a \in Ages |-> IF a = 0 THEN 0 ELSE r[a - 1]]
    PROVE  /\ Totals(s)[0] = 0
           /\ \A a \in Ages \ {0} : Totals(s)[a] = Totals(r)[a - 1]
<1> DEFINE n == TTL - 1
           t == Totals(r)
           u == Totals(s)
           G == {a \in Ages : a = 0 \/ u[a] = t[a - 1]}
<1>1. n \in Nat /\ Ages = 0 .. n /\ 0 \in Ages
  BY LimitsAssumption DEF Ages
<1>2. \A a \in Ages \ {0} : a - 1 \in Ages
  BY <1>1
<1>3. s \in [Ages -> Nat] /\ s[0] = 0 /\ \A a \in Ages \ {0} : s[a] = r[a - 1]
  BY <1>1, <1>2
<1>4. /\ t \in [Ages -> Nat] /\ t[0] = r[0]
      /\ \A a \in Ages \ {0} : t[a] = r[a] + t[a - 1]
  BY TotalsFacts
<1>5. /\ u \in [Ages -> Nat] /\ u[0] = s[0]
      /\ \A a \in Ages \ {0} : u[a] = s[a] + u[a - 1]
  BY <1>3, TotalsFacts
<1> HIDE DEF n, t, u
<1>6. ASSUME NEW a \in 0 .. n, a # n, a \in G
      PROVE  a + 1 \in G
  <2>1. PICK b \in Ages \ {0} : b = a + 1 /\ b - 1 = a
    BY <1>1, <1>6
  <2>2. u[b] = r[a] + u[a] /\ r[a] \in Nat
    BY <1>1, <1>3, <1>5, <2>1
  <2>3. CASE a = 0
    BY <1>3, <1>4, <1>5, <2>1, <2>2, <2>3
  <2>4. CASE a # 0
    <3>1. a \in Ages \ {0} /\ u[a] = t[a - 1]
      BY <1>1, <1>6, <2>4
    <3>2. t[a] = r[a] + t[a - 1]
      BY <1>4, <3>1
    <3> QED
      BY <2>1, <2>2, <3>1, <3>2
  <2> QED
    BY <2>3, <2>4
<1>7. 0 .. n \subseteq G
  <2>1. \A a \in 0 .. n : a # n /\ a \in G => a + 1 \in G
    BY <1>6
  <2>2. 0 \in G
    BY <1>1
  <2> HIDE DEF G
  <2> QED
    BY <1>1, <2>1, <2>2, UpTo
<1> QED
  BY <1>1, <1>3, <1>5, <1>7 DEF t, u

-----------------------------------------------------------------------------
(* What a client can have got through.  Seen from a counter with its       *)
(* window: the requests of a client since time d are those that the window *)
(* has counted, but for the one that opened it when d is later than that,  *)
(* and what came before the window when d is not.                          *)

Used(window) == IF window.count < Limit THEN window.count ELSE Limit
Opened(window) == window.resetAt - TTL

\* With a counter of its own: before the window there was less than a window
\* of the overflow counter and one more beside it.
OnOwn(window, d, n) ==
    /\ n <= Used(window) + 2 * Limit - 1
    /\ d > Opened(window) => n < Used(window)
    /\ d >= window.resetAt => n = 0

\* What the overflow counter accounts for: its window, and less than the limit
\* from the window before.
SharedQuota(table, d) ==
    IF Overflow \notin DOMAIN table THEN Limit - 1
    ELSE Used(table[Overflow]) - 1 + IF d > Opened(table[Overflow]) THEN 0 ELSE Limit

\* On the overflow counter: before the last sweep, at sweepAt - TTL, it may
\* have had a counter of its own.  While there is room for a counter, there
\* has been no window of the overflow counter since that sweep.
OnShared(table, sweepAt, d, n) ==
    /\ n <= SharedQuota(table, d) + IF d < sweepAt - TTL THEN Limit - 1 ELSE 0
    /\ Cardinality(DOMAIN table) < MaxEntries - 1 => n < 2 * Limit

\* Client c may have got n requests through since time d.
Fits(table, sweepAt, c, d, n) ==
    IF c \in DOMAIN table THEN OnOwn(table[c], d, n) ELSE OnShared(table, sweepAt, d, n)

Windows == [count : 1 .. Limit + 1, resetAt : Nat]

LEMMA QuotaFacts ==
    ASSUME NEW table, Overflow \in DOMAIN table => table[Overflow] \in Windows, NEW d \in Int
    PROVE  /\ SharedQuota(table, d) \in 0 .. 2 * Limit - 1
           /\ Overflow \in DOMAIN table /\ d > Opened(table[Overflow])
                 => SharedQuota(table, d) < Limit
<1>1. CASE Overflow \notin DOMAIN table
  BY <1>1, LimitsAssumption DEF SharedQuota
<1>2. CASE Overflow \in DOMAIN table
  <2> DEFINE w == table[Overflow]
  <2>1. w \in Windows
    BY <1>2
  <2>2. SharedQuota(table, d) = Used(w) - 1 + IF d > Opened(w) THEN 0 ELSE Limit
    BY <1>2 DEF SharedQuota
  <2> HIDE DEF w
  <2>3. Used(w) \in 1 .. Limit
    BY <2>1, LimitsAssumption DEF Used, Windows
  <2> QED
    BY <1>2, <2>2, <2>3, LimitsAssumption DEF w
<1> QED
  BY <1>1, <1>2

\* The sweep.
LEMMA SweepFits ==
    ASSUME IInv, NEW c \in Clients, NEW d \in now - TTL + 1 .. now + 1, NEW n \in Nat,
           Fits(hits, nextSweepAt, c, d, n)
    PROVE  Fits(Swept, IF SweepDue THEN now + TTL ELSE nextSweepAt, c, d, n)
<1> DEFINE t == Swept
<1>1. /\ t = [j \in DOMAIN t |-> t[j]]
      /\ DOMAIN t \subseteq DOMAIN hits
      /\ \A j \in DOMAIN t : t[j] = hits[j]
      /\ \A j \in DOMAIN hits : now < hits[j].resetAt => j \in DOMAIN t
  BY SweptFacts DEF IInv, RoomForOverflow
<1>2. /\ now \in Nat /\ nextSweepAt \in Nat /\ d \in Int
      /\ \A j \in DOMAIN hits : hits[j] \in Windows
  BY DEF IInv, TypeOK, Windows
<1>3. CASE ~SweepDue
  <2>1. t = hits
    BY <1>3 DEF Swept, IInv, TypeOK
  <2> QED
    BY <1>3, <2>1
<1>4. CASE SweepDue
  <2>1. nextSweepAt <= now /\ nextSweepAt - TTL < d
    BY <1>2, <1>4, LimitsAssumption DEF SweepDue
  <2>2. \A j \in DOMAIN hits \ DOMAIN t : hits[j].resetAt <= now /\ Opened(hits[j]) < d
    <3> SUFFICES ASSUME NEW j \in DOMAIN hits \ DOMAIN t
                 PROVE  hits[j].resetAt <= now /\ Opened(hits[j]) < d
      OBVIOUS
    <3>1. hits[j].resetAt \in Nat /\ ~(now < hits[j].resetAt)
      BY <1>1, <1>2 DEF Windows
    <3> QED
      BY <1>2, <3>1, LimitsAssumption DEF Opened
  <2>3. SharedQuota(t, d) \in 0 .. 2 * Limit - 1
    BY <1>1, <1>2, QuotaFacts
  <2>4. CASE c \in DOMAIN t
    <3>1. OnOwn(t[c], d, n)
      BY <1>1, <2>4 DEF Fits
    <3> QED
      BY <2>4, <3>1 DEF Fits
  <2>5. CASE c \in DOMAIN hits \ DOMAIN t
    <3> DEFINE w == hits[c]
    <3>1. w \in Windows /\ OnOwn(w, d, n) /\ w.resetAt <= now /\ Opened(w) < d
      BY <1>2, <2>2, <2>5 DEF Fits
    <3> HIDE DEF w
    <3>2. n < Limit
      BY <3>1, <1>2, LimitsAssumption DEF OnOwn, Used, Windows, Opened
    <3>3. d >= now => n = 0
      BY <3>1, <1>2 DEF OnOwn, Windows
    <3>4. OnShared(t, now + TTL, d, n)
      BY <1>2, <2>3, <3>2, <3>3, LimitsAssumption DEF OnShared
    <3> QED
      BY <1>4, <2>5, <3>4 DEF Fits
  <2>6. CASE c \notin DOMAIN hits
    <3>1. OnShared(hits, nextSweepAt, d, n)
      BY <2>6 DEF Fits
    <3>2. SharedQuota(hits, d) \in 0 .. 2 * Limit - 1
      BY <1>2, QuotaFacts
    <3>3. n <= SharedQuota(hits, d)
      BY <1>2, <2>1, <3>1, <3>2, LimitsAssumption DEF OnShared
    <3>4. SharedQuota(hits, d) <= SharedQuota(t, d)
      <4>1. CASE Overflow \in DOMAIN hits \ DOMAIN t
        <5>1. SharedQuota(hits, d) < Limit /\ SharedQuota(t, d) = Limit - 1
          BY <1>2, <2>2, <4>1, QuotaFacts DEF SharedQuota
        <5> QED
          BY <3>2, <5>1, LimitsAssumption
      <4>2. CASE ~(Overflow \in DOMAIN hits \ DOMAIN t)
        <5>1. SharedQuota(hits, d) = SharedQuota(t, d)
          BY <1>1, <4>2 DEF SharedQuota
        <5> QED
          BY <3>2, <5>1
      <4> QED
        BY <4>1, <4>2
    <3>5. OnShared(t, now + TTL, d, n)
      BY <1>2, <2>3, <3>2, <3>3, <3>4, LimitsAssumption DEF OnShared
    <3> QED
      BY <1>1, <1>4, <2>6, <3>5 DEF Fits
  <2> QED
    BY <2>4, <2>5, <2>6
<1> QED
  BY <1>3, <1>4

\* The charge of a request of client c, seen from client e: m is what e has got
\* through with it.
LEMMA ChargeFits ==
    ASSUME IInv, NEW table, IsFiniteSet(DOMAIN table),
           \A j \in DOMAIN table : table[j] \in Windows,
           NEW c \in Clients, NEW k, k = ChargedKey(table, c),
           NEW entry, entry = Charged(table, k),
           NEW sweepAt \in Nat, NEW e \in Clients,
           NEW d \in now - TTL + 1 .. now + 1,
           NEW n \in Nat, d = now + 1 => n = 0, Fits(table, sweepAt, e, d, n),
           NEW m \in {n, n + 1}, m # n => e = c /\ entry.count <= Limit /\ d <= now
    PROVE  Fits(Charge(table, k, entry), sweepAt, e, d, m)
<1> DEFINE after == Charge(table, k, entry)
<1>1. /\ now \in Nat /\ m \in Nat /\ d \in Int
      /\ k = IF c \notin DOMAIN table /\ Cardinality(DOMAIN table) >= MaxEntries - 1
             THEN Overflow ELSE c
      /\ e # Overflow /\ c # Overflow
  BY OverflowAssumption DEF IInv, TypeOK, ChargedKey
<1>2. /\ DOMAIN after = DOMAIN table \cup {k}
      /\ after[k] = entry
      /\ \A j \in DOMAIN table \ {k} : after[j] = table[j]
  BY DEF Charge
<1>3. /\ entry \in Windows /\ now < entry.resetAt
      /\ k \notin DOMAIN table \/ table[k].resetAt <= now
            => entry.count = 1 /\ entry.resetAt = now + TTL
      /\ k \in DOMAIN table /\ now < table[k].resetAt
            => /\ entry.resetAt = table[k].resetAt
               /\ Used(table[k]) <= Used(entry)
               /\ entry.count <= Limit => Used(entry) = Used(table[k]) + 1
  <2>1. k \in DOMAIN table => table[k] \in [count : 1 .. Limit + 1, resetAt : Nat]
    BY DEF Windows
  <2>2. /\ entry \in Windows /\ now < entry.resetAt
        /\ k \in DOMAIN table /\ now < table[k].resetAt => entry.resetAt = table[k].resetAt
    BY <2>1, ChargedFacts DEF IInv, Windows
  <2>3. k \notin DOMAIN table \/ table[k].resetAt <= now
           => entry.count = 1 /\ entry.resetAt = now + TTL
    BY DEF Charged
  <2>4. ASSUME k \in DOMAIN table, now < table[k].resetAt
        PROVE  /\ Used(table[k]) <= Used(entry)
               /\ entry.count <= Limit => Used(entry) = Used(table[k]) + 1
    <3> DEFINE w == table[k]
    <3>1. w \in Windows /\ ~(w.resetAt <= now)
      BY <1>1, <2>4 DEF Windows
    <3>2. entry = [w EXCEPT !.count = IF @ > Limit THEN @ ELSE @ + 1]
      BY <2>4, <3>1 DEF Charged
    <3> HIDE DEF w
    <3>3. entry.count = IF w.count > Limit THEN w.count ELSE w.count + 1
      BY <3>1, <3>2 DEF Windows
    <3>4. w.count \in 1 .. Limit + 1
      BY <3>1 DEF Windows
    <3>5. /\ Used(w) <= Used(entry)
          /\ entry.count <= Limit => Used(entry) = Used(w) + 1
      BY <3>3, <3>4, LimitsAssumption DEF Used
    <3> QED
      BY <3>5 DEF w
  <2> QED
    BY <2>2, <2>3, <2>4
<1>4. Used(entry) \in 1 .. Limit
  BY <1>3, LimitsAssumption DEF Windows, Used
<1>5. \A j \in DOMAIN table : Used(table[j]) \in 1 .. Limit /\ table[j].resetAt \in Nat
  BY LimitsAssumption DEF Windows, Used
<1>6. d = now + 1 => m = 0
  BY <1>1
<1> HIDE DEF after
\* The counter of another client, or of the client itself when it is not charged.
<1>7. CASE e \in DOMAIN table /\ e # k
  <2>1. m = n /\ after[e] = table[e]
    BY <1>1, <1>2, <1>7
  <2> QED
    BY <1>2, <1>7, <2>1 DEF Fits, after
<1>8. CASE e \in DOMAIN table /\ e = k
  <2>1. OnOwn(table[e], d, n) /\ table[e].resetAt \in Nat
    BY <1>5, <1>8 DEF Fits
  <2>2. CASE table[e].resetAt <= now
    <3>1. entry.count = 1 /\ entry.resetAt = now + TTL
      BY <1>3, <1>8, <2>2
    <3>2. n < Used(table[e]) /\ Used(table[e]) \in 1 .. Limit
      BY <1>1, <1>5, <1>8, <2>1, <2>2, LimitsAssumption DEF OnOwn, Opened
    <3>3. m <= Limit
      BY <3>2, LimitsAssumption
    <3>4. OnOwn(entry, d, m)
      BY <1>1, <1>4, <1>6, <3>1, <3>3, LimitsAssumption DEF OnOwn, Opened
    <3> QED
      BY <1>2, <1>8, <3>4 DEF Fits, after
  <2>3. CASE now < table[e].resetAt
    <3>1. /\ entry.resetAt = table[e].resetAt
          /\ Used(table[e]) <= Used(entry)
          /\ entry.count <= Limit => Used(entry) = Used(table[e]) + 1
      BY <1>3, <1>8, <2>3
    <3>2. Used(table[e]) \in 1 .. Limit
      BY <1>5, <1>8
    <3>3. m - n <= Used(entry) - Used(table[e])
      BY <1>4, <3>1, <3>2
    <3>4. d >= entry.resetAt => m = 0
      BY <1>1, <1>6, <2>1, <2>3, <3>1
    <3>5. OnOwn(entry, d, m)
      BY <1>1, <1>4, <2>1, <3>1, <3>2, <3>3, <3>4, LimitsAssumption DEF OnOwn, Opened
    <3> QED
      BY <1>2, <1>8, <3>5 DEF Fits, after
  <2> QED
    BY <1>1, <2>1, <2>2, <2>3
\* A client that gets a counter of its own.
<1>9. CASE e \notin DOMAIN table /\ e = k
  <2>1. Cardinality(DOMAIN table) \in Nat /\ Cardinality(DOMAIN table) < MaxEntries - 1
    BY <1>1, <1>9, FS_CardinalityType, LimitsAssumption
  <2>2. n < 2 * Limit
    BY <1>9, <2>1 DEF Fits, OnShared
  <2>3. entry.count = 1 /\ entry.resetAt = now + TTL
    BY <1>3, <1>9
  <2>4. m <= 2 * Limit
    BY <2>2, LimitsAssumption
  <2>5. OnOwn(entry, d, m)
    BY <1>1, <1>4, <1>6, <2>3, <2>4, LimitsAssumption DEF OnOwn, Opened
  <2> QED
    BY <1>2, <1>9, <2>5 DEF Fits, after
\* A client that has none.
<1>10. CASE e \notin DOMAIN table /\ e # k
  <2> DEFINE early == IF d < sweepAt - TTL THEN Limit - 1 ELSE 0
  <2>1. /\ n <= SharedQuota(table, d) + early
        /\ Cardinality(DOMAIN table) < MaxEntries - 1 => n < 2 * Limit
    BY <1>10 DEF Fits, OnShared
  <2>2. early \in Nat
    BY <1>1, LimitsAssumption
  <2>3. SharedQuota(table, d) \in 0 .. 2 * Limit - 1
    BY <1>1, QuotaFacts
  <2>4. IsFiniteSet(DOMAIN after)
    BY <1>2, FS_AddElement
  <2>5. /\ Cardinality(DOMAIN table) \in Nat /\ Cardinality(DOMAIN after) \in Nat
        /\ Cardinality(DOMAIN table) <= Cardinality(DOMAIN after)
    <3>1. DOMAIN table \in SUBSET DOMAIN after
      BY <1>2
    <3> QED
      BY <2>4, <3>1, FS_Subset, FS_CardinalityType
  <2> HIDE DEF early
  <2>6. m <= SharedQuota(after, d) + early
    <3>1. CASE k = Overflow
      <4>1. SharedQuota(after, d) = Used(entry) - 1 + IF d > Opened(entry) THEN 0 ELSE Limit
        BY <1>2, <3>1 DEF SharedQuota
      <4>2. CASE Overflow \notin DOMAIN table \/ table[Overflow].resetAt <= now
        <5>1. entry.count = 1 /\ entry.resetAt = now + TTL
          BY <1>3, <3>1, <4>2
        <5>2. SharedQuota(table, d) < Limit
          <6>1. CASE Overflow \notin DOMAIN table
            BY <6>1, LimitsAssumption DEF SharedQuota
          <6>2. CASE Overflow \in DOMAIN table /\ table[Overflow].resetAt <= now
            <7>1. d > Opened(table[Overflow])
              BY <1>1, <1>5, <6>2, LimitsAssumption DEF Opened
            <7> QED
              BY <1>1, <6>2, <7>1, QuotaFacts
          <6> QED
            BY <4>2, <6>1, <6>2
        <5>3. Used(entry) = 1 /\ Opened(entry) = now
          BY <1>1, <5>1, LimitsAssumption DEF Used, Opened
        <5>4. CASE d = now + 1
          BY <1>1, <1>6, <2>2, <4>1, <5>3, <5>4
        <5>5. CASE d # now + 1
          <6>1. SharedQuota(after, d) = Limit
            BY <1>1, <4>1, <5>3, <5>5, LimitsAssumption
          <6> QED
            BY <2>1, <2>2, <2>3, <5>2, <6>1, LimitsAssumption
        <5> QED
          BY <5>4, <5>5
      <4>3. CASE Overflow \in DOMAIN table /\ now < table[Overflow].resetAt
        <5> DEFINE w == table[Overflow]
        <5>1. /\ entry.resetAt = w.resetAt
              /\ Used(w) <= Used(entry)
              /\ entry.count <= Limit => Used(entry) = Used(w) + 1
          BY <1>3, <3>1, <4>3
        <5>2. SharedQuota(table, d) = Used(w) - 1 + IF d > Opened(w) THEN 0 ELSE Limit
          BY <4>3 DEF SharedQuota
        <5>3. Opened(entry) = Opened(w) /\ Used(w) \in 1 .. Limit
          BY <1>5, <4>3, <5>1 DEF Opened
        <5> HIDE DEF w
        <5>4. m - n <= Used(entry) - Used(w)
          BY <1>4, <5>1, <5>3
        <5>5. SharedQuota(after, d) - SharedQuota(table, d) = Used(entry) - Used(w)
          BY <1>4, <4>1, <5>2, <5>3, LimitsAssumption
        <5>6. SharedQuota(after, d) \in Int
          BY <1>4, <4>1, LimitsAssumption
        <5> QED
          BY <1>1, <1>4, <2>1, <2>2, <2>3, <5>3, <5>4, <5>5, <5>6
      <4> QED
        BY <1>1, <1>5, <4>2, <4>3
    <3>2. CASE k # Overflow
      <4>1. m = n
        BY <1>1, <1>10, <3>2
      <4>2. SharedQuota(after, d) = SharedQuota(table, d)
        BY <1>2, <3>2 DEF SharedQuota
      <4> QED
        BY <2>1, <4>1, <4>2
    <3> QED
      BY <3>1, <3>2
  <2>7. Cardinality(DOMAIN after) < MaxEntries - 1 => m < 2 * Limit
    <3> SUFFICES ASSUME Cardinality(DOMAIN after) < MaxEntries - 1
                 PROVE  m < 2 * Limit
      OBVIOUS
    <3>1. Cardinality(DOMAIN table) < MaxEntries - 1
      BY <2>5, LimitsAssumption
    <3>2. k = c
      BY <1>1, <2>5, <3>1, LimitsAssumption
    <3>3. m = n
      BY <1>10, <3>2
    <3> QED
      BY <2>1, <3>1, <3>3
  <2>8. OnShared(after, sweepAt, d, m)
    BY <2>6, <2>7 DEF OnShared, early
  <2> QED
    BY <1>2, <1>10, <2>8 DEF Fits, after
<1> QED
  BY <1>7, <1>8, <1>9, <1>10

-----------------------------------------------------------------------------
(* The bound is kept by every step.                                        *)

\* The requests of c that were let through at time d or later.
Since(c, d) == IF d > now THEN 0 ELSE Totals(recent[c])[now - d]

SlidingFits ==
    \A c \in Clients : \A d \in now - TTL + 1 .. now + 1 :
        Fits(hits, nextSweepAt, c, d, Since(c, d))

LEMMA SinceType ==
    ASSUME TypeOK, NEW c \in Clients, NEW d \in now - TTL + 1 .. now + 1
    PROVE  /\ Since(c, d) \in Nat
           /\ d \in Int /\ now \in Nat
           /\ d <= now => now - d \in Ages
<1>1. now \in Nat /\ d \in Int /\ recent[c] \in [Ages -> Nat]
  BY DEF TypeOK
<1>2. d <= now => now - d \in Ages
  BY <1>1, LimitsAssumption DEF Ages
<1>3. Totals(recent[c]) \in [Ages -> Nat]
  BY <1>1, TotalsFacts
<1> QED
  BY <1>1, <1>2, <1>3 DEF Since

LEMMA SlidingInit == Init => SlidingFits
<1> SUFFICES ASSUME Init, NEW c \in Clients, NEW d \in now - TTL + 1 .. now + 1
             PROVE  Fits(hits, nextSweepAt, c, d, Since(c, d))
  BY DEF SlidingFits
<1>1. IInv
  BY IInvInit
<1>2. Since(c, d) \in Nat /\ d \in Int /\ now \in Nat
  BY <1>1, SinceType DEF IInv
<1>3. now = 0 /\ DOMAIN hits = {}
  BY DEF Init
<1>4. Since(c, d) = 0
  <2>1. recent[c] = [a \in Ages |-> 0] /\ recent[c] \in [Ages -> Nat]
    BY DEF Init
  <2> DEFINE t == Totals(recent[c])
             n == TTL - 1
             G == {a \in Ages : t[a] = 0}
  <2>2. /\ t[0] = recent[c][0]
        /\ \A a \in Ages \ {0} : a - 1 \in Ages /\ t[a] = recent[c][a] + t[a - 1]
    BY <2>1, TotalsFacts
  <2>3. n \in Nat /\ Ages = 0 .. n /\ 0 \in Ages
    BY LimitsAssumption DEF Ages
  <2> HIDE DEF t, n
  <2>4. \A a \in 0 .. n : a # n /\ a \in G => a + 1 \in G
    <3> SUFFICES ASSUME NEW a \in 0 .. n, a # n, a \in G
                 PROVE  a + 1 \in G
      OBVIOUS
    <3>1. PICK b \in Ages \ {0} : b = a + 1 /\ b - 1 = a
      BY <2>3
    <3>2. t[b] = recent[c][b] + t[a] /\ recent[c][b] = 0 /\ t[a] = 0
      BY <2>1, <2>2, <3>1
    <3> QED
      BY <3>1, <3>2
  <2>5. 0 .. n \subseteq G
    <3>1. 0 \in G
      BY <2>1, <2>2, <2>3
    <3> HIDE DEF G
    <3> QED
      BY <2>3, <2>4, <3>1, UpTo
  <2>6. d <= now => Totals(recent[c])[now - d] = 0
    <3>1. d <= now => now - d \in Ages
      BY <1>1, SinceType DEF IInv
    <3> QED
      BY <2>3, <2>5, <3>1 DEF t
  <2> QED
    BY <1>2, <2>6 DEF Since
<1>5. SharedQuota(hits, d) = Limit - 1
  BY <1>3 DEF SharedQuota
<1>6. OnShared(hits, nextSweepAt, d, 0)
  BY <1>5, LimitsAssumption DEF OnShared
<1> QED
  BY <1>3, <1>4, <1>6 DEF Fits

LEMMA SlidingCountStep ==
    ASSUME IInv, SlidingFits, NEW c \in Clients, NEW k, k = ChargedKey(Swept, c),
           NEW entry, entry = Charged(Swept, k), Count(k, entry), UNCHANGED now,
           \/ entry.count <= Limit /\ recent' = [recent EXCEPT ![c][0] = @ + 1]
           \/ UNCHANGED recent
    PROVE  SlidingFits'
<1> SUFFICES ASSUME NEW e \in Clients, NEW d \in now - TTL + 1 .. now + 1
             PROVE  Fits(hits', nextSweepAt', e, d, Since(e, d)')
  BY DEF SlidingFits
<1> DEFINE n == Since(e, d)
           m == Since(e, d)'
           sweepAt == IF SweepDue THEN now + TTL ELSE nextSweepAt
<1>1. /\ now \in Nat /\ nextSweepAt \in Nat /\ d \in Int
      /\ recent \in [Clients -> [Ages -> Nat]]
      /\ n \in Nat
      /\ d <= now => now - d \in Ages
  BY SinceType DEF IInv, TypeOK
<1>2. Fits(Swept, sweepAt, e, d, n)
  BY <1>1, SweepFits DEF SlidingFits
<1>3. /\ IsFiniteSet(DOMAIN Swept)
      /\ \A j \in DOMAIN Swept : Swept[j] \in Windows
  BY SweptFacts DEF IInv, TypeOK, RoomForOverflow, Windows
<1>4. d = now + 1 => n = 0
  BY <1>1 DEF Since
<1>5. m \in {n, n + 1} /\ (m # n => e = c /\ entry.count <= Limit /\ d <= now)
  <2>1. CASE UNCHANGED recent
    BY <2>1 DEF Since
  <2>2. CASE entry.count <= Limit /\ recent' = [recent EXCEPT ![c][0] = @ + 1]
    <3>1. CASE e = c /\ d <= now
      <4>1. recent'[e] = [recent[e] EXCEPT ![0] = @ + 1] /\ recent[e] \in [Ages -> Nat]
        BY <1>1, <2>2, <3>1
      <4>2. Totals(recent'[e])[now - d] = Totals(recent[e])[now - d] + 1
        BY <1>1, <3>1, <4>1, TotalsMore
      <4>3. m = n + 1
        BY <1>1, <3>1, <4>2 DEF Since
      <4> QED
        BY <2>2, <3>1, <4>3
    <3>2. CASE ~(e = c /\ d <= now)
      <4>1. e # c => recent'[e] = recent[e]
        BY <1>1, <2>2
      <4> QED
        BY <1>1, <3>2, <4>1 DEF Since
    <3> QED
      BY <3>1, <3>2
  <2> QED
    BY <2>1, <2>2
<1>6. hits' = Charge(Swept, k, entry) /\ nextSweepAt' = sweepAt
  BY DEF Count
<1>7. sweepAt \in Nat
  BY <1>1, LimitsAssumption
<1> HIDE DEF n, m, sweepAt
<1>8. Fits(Charge(Swept, k, entry), sweepAt, e, d, m)
  BY <1>1, <1>2, <1>3, <1>4, <1>5, <1>7, ChargeFits
<1> QED
  BY <1>6, <1>8 DEF m

LEMMA SlidingTickStep ==
    ASSUME IInv, SlidingFits, Tick
    PROVE  SlidingFits'
<1>1. /\ UNCHANGED <<hits, nextSweepAt>>
      /\ now' = now + 1
      /\ recent' = [c \in Clients |-> [a \in Ages |->
                       IF a = 0 THEN 0 ELSE recent[c][a - 1]]]
  BY DEF Tick
<1> SUFFICES ASSUME NEW c \in Clients, NEW d \in now - TTL + 2 .. now + 2
             PROVE  Fits(hits, nextSweepAt, c, d, Since(c, d)')
  <2>1. now \in Nat
    BY DEF IInv, TypeOK
  <2>2. now' - TTL + 1 .. now' + 1 = now - TTL + 2 .. now + 2
    BY <1>1, <2>1, LimitsAssumption
  <2> QED
    BY <1>1, <2>2 DEF SlidingFits
<1>2. /\ now \in Nat /\ d \in Int /\ nextSweepAt \in Nat
      /\ recent[c] \in [Ages -> Nat]
      /\ \A j \in DOMAIN hits : hits[j] \in Windows
  BY DEF IInv, TypeOK, Windows
<1>3. CASE d <= now + 1
  <2>1. d \in now - TTL + 1 .. now + 1
    BY <1>2, <1>3, LimitsAssumption
  <2>2. Fits(hits, nextSweepAt, c, d, Since(c, d)) /\ (d <= now => now - d \in Ages)
    BY <2>1, SinceType DEF SlidingFits, IInv
  <2>3. /\ Totals(recent'[c])[0] = 0
        /\ \A a \in Ages \ {0} : Totals(recent'[c])[a] = Totals(recent[c])[a - 1]
    BY <1>1, <1>2, TotalsLater
  <2>4. CASE d = now + 1
    BY <1>1, <1>2, <2>2, <2>3, <2>4 DEF Since
  <2>5. CASE d <= now
    <3> DEFINE a == now + 1 - d
    <3>1. a \in Ages \ {0} /\ a - 1 = now - d
      <4>1. a \in Int /\ a >= 1 /\ a - 1 = now - d
        BY <1>2, <2>5
      <4>2. a <= TTL - 1
        BY <1>2, LimitsAssumption
      <4> HIDE DEF a
      <4> QED
        BY <4>1, <4>2, LimitsAssumption DEF Ages
    <3>2. Totals(recent'[c])[a] = Totals(recent[c])[now - d]
      BY <2>3, <3>1
    <3>3. Since(c, d)' = Since(c, d)
      BY <1>1, <1>2, <2>5, <3>2 DEF Since
    <3> QED
      BY <2>2, <3>3
  <2> QED
    BY <1>2, <1>3, <2>4, <2>5
<1>4. CASE d > now + 1
  <2>1. Since(c, d)' = 0
    BY <1>1, <1>4 DEF Since
  <2>2. SharedQuota(hits, d) \in 0 .. 2 * Limit - 1
    BY <1>2, QuotaFacts
  <2>3. OnShared(hits, nextSweepAt, d, 0)
    BY <1>2, <2>2, LimitsAssumption DEF OnShared
  <2>4. ASSUME NEW w \in Windows
        PROVE  OnOwn(w, d, 0)
    BY LimitsAssumption DEF OnOwn, Used, Windows
  <2> QED
    BY <1>2, <2>1, <2>3, <2>4 DEF Fits
<1> QED
  BY <1>2, <1>3, <1>4

LEMMA SlidingNext == IInv /\ SlidingFits /\ [Next]_vars => SlidingFits'
<1> SUFFICES ASSUME IInv, SlidingFits, [Next]_vars
             PROVE  SlidingFits'
  OBVIOUS
<1>1. CASE UNCHANGED vars
  BY <1>1 DEF vars, history, SlidingFits, Since
<1>2. CASE Tick
  BY <1>2, SlidingTickStep
<1>3. ASSUME NEW c \in Clients, CanActivate(c)
      PROVE  SlidingFits'
  <2> DEFINE k == ChargedKey(Swept, c)
             entry == Charged(Swept, k)
  <2>1. CASE Allow(c)
    <3>1. /\ entry.count <= Limit /\ Count(k, entry) /\ UNCHANGED now
          /\ recent' = [recent EXCEPT ![c][0] = @ + 1]
      BY <2>1 DEF Allow
    <3> HIDE DEF k, entry
    <3> QED
      BY <3>1, SlidingCountStep DEF k, entry
  <2>2. CASE Refuse(c)
    <3>1. Count(k, entry) /\ UNCHANGED <<now, recent>>
      BY <2>2 DEF Refuse
    <3> HIDE DEF k, entry
    <3> QED
      BY <3>1, SlidingCountStep DEF k, entry
  <2>3. CASE Exempt(c)
    BY <2>3 DEF Exempt, history, SlidingFits, Since
  <2> QED
    BY <1>3, <2>1, <2>2, <2>3 DEF CanActivate
<1> QED
  BY <1>1, <1>2, <1>3 DEF Next

-----------------------------------------------------------------------------
(* The theorems.                                                           *)

\* Every variable keeps its type.
THEOREM TypeCorrect == Spec => []TypeOK
<1>1. IInv => TypeOK
  BY DEF IInv
<1> QED
  BY <1>1, IInvAlways, PTL

\* The table of canActivate never holds more than THROTTLE_MAX_ENTRIES
\* counters, however many addresses the requests come from.
THEOREM TableStaysBounded == Spec => []EntriesBounded
<1>1. IInv => EntriesBounded
  <2> SUFFICES ASSUME IInv
               PROVE  Cardinality(DOMAIN hits) <= MaxEntries
    BY DEF EntriesBounded
  <2> DEFINE own == DOMAIN hits \ {Overflow}
  <2>1. IsFiniteSet(own) /\ Cardinality(own) \in Nat /\ Cardinality(own) <= MaxEntries - 1
    <3>1. own \subseteq DOMAIN hits
      OBVIOUS
    <3> QED
      BY <3>1, FS_Subset, FS_CardinalityType DEF IInv, RoomForOverflow
  <2>2. CASE Overflow \in DOMAIN hits
    <3>1. DOMAIN hits = own \cup {Overflow} /\ Overflow \notin own
      BY <2>2
    <3>2. Cardinality(DOMAIN hits) = Cardinality(own) + 1
      BY <2>1, <3>1, FS_AddElement
    <3> QED
      BY <2>1, <3>2, LimitsAssumption
  <2>3. CASE Overflow \notin DOMAIN hits
    <3>1. DOMAIN hits = own
      BY <2>3
    <3> QED
      BY <2>1, <3>1, LimitsAssumption
  <2> QED
    BY <2>2, <2>3
<1> QED
  BY <1>1, IInvAlways, PTL

\* A window that was announced to a client stays as announced until its end.
THEOREM WindowsAreKept == Spec => []WindowKept
<1>1. IInv => WindowKept
  BY DEF IInv
<1> QED
  BY <1>1, IInvAlways, PTL

\* After a call of canActivate no window in the table ended a TTL ago or more.
THEOREM WindowsGoWithinTTL == Spec => []FinishedWindowsGoWithinTTL
<1>1. IInv => FinishedWindowsGoWithinTTL
  BY LimitsAssumption DEF IInv, TypeOK, SweptInTime, FinishedWindowsGoWithinTTL
<1> QED
  BY <1>1, IInvAlways, PTL

\* Over any interval of TTL a client gets fewer than three times THROTTLE_LIMIT
\* through, whatever the other clients do and whenever the sweeps run.
THEOREM SlidingIsBounded == Spec => []SlidingBound
<1>1. Init => IInv /\ SlidingFits
  BY IInvInit, SlidingInit
<1>2. (IInv /\ SlidingFits) /\ [Next]_vars => (IInv /\ SlidingFits)'
  BY IInvNext, SlidingNext
<1>3. IInv /\ SlidingFits => SlidingBound
  <2> SUFFICES ASSUME IInv, SlidingFits, NEW c \in Clients
               PROVE  SlidingCount(c) < 3 * Limit
    BY DEF SlidingBound
  <2> DEFINE d == now - TTL + 1
             n == Since(c, d)
  <2>1. now \in Nat /\ d \in now - TTL + 1 .. now + 1 /\ ~(d > now) /\ now - d = TTL - 1
    BY LimitsAssumption DEF IInv, TypeOK
  <2>2. n \in Nat /\ Fits(hits, nextSweepAt, c, d, n)
    BY <2>1, SinceType DEF IInv, SlidingFits
  <2>3. SlidingCount(c) = n
    BY <2>1, SlidingIsTotal DEF Since
  <2> HIDE DEF n, d
  <2>4. CASE c \in DOMAIN hits
    <3>1. OnOwn(hits[c], d, n) /\ hits[c] \in Windows
      BY <2>2, <2>4 DEF Fits, IInv, TypeOK, Windows
    <3> QED
      BY <2>2, <2>3, <3>1, LimitsAssumption DEF OnOwn, Used, Windows
  <2>5. CASE c \notin DOMAIN hits
    <3>1. n <= SharedQuota(hits, d) + IF d < nextSweepAt - TTL THEN Limit - 1 ELSE 0
      BY <2>2, <2>5 DEF Fits, OnShared
    <3>2. SharedQuota(hits, d) \in 0 .. 2 * Limit - 1
      BY <2>1, QuotaFacts DEF IInv, TypeOK, Windows, d
    <3> QED
      BY <2>2, <2>3, <3>1, <3>2, LimitsAssumption
  <2> QED
    BY <2>4, <2>5
<1> QED
  BY <1>1, <1>2, <1>3, PTL DEF Spec
=============================================================================
