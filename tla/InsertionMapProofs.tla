------------------------- MODULE InsertionMapProofs -------------------------
(* What the operations of InsertionMap preserve and bound; at the end,     *)
(* induction on the natural numbers, as sets of them.                      *)
EXTENDS InsertionMap, FiniteSetTheorems, WellFoundedInduction, TLAPS

\* Removing keys leaves the values alone and the other keys' order.
LEMMA WithoutFacts ==
    ASSUME NEW K, NEW V, NEW m, IsMapOver(m, K, V), NEW S
    PROVE  /\ DOMAIN Without(m, S) = DOMAIN m \ S
           /\ \A k \in DOMAIN m \ S :
                 /\ Without(m, S)[k].val = m[k].val
                 /\ Without(m, S)[k].older = m[k].older \ S
           /\ IsMapOver(Without(m, S), K, V)
<1>1. DOMAIN Without(m, S) = DOMAIN m \ S
  BY DEF Without
<1>2. ASSUME NEW k \in DOMAIN m \ S
      PROVE  /\ Without(m, S)[k].val = m[k].val
             /\ Without(m, S)[k].older = m[k].older \ S
             /\ Without(m, S)[k] \in [val : V, older : SUBSET (DOMAIN m \ S)]
  <2>1. m[k] \in [val : V, older : SUBSET DOMAIN m]
    BY <1>2 DEF IsMapOver
  <2>2. Without(m, S)[k] = [m[k] EXCEPT !.older = @ \ S]
    BY <1>2 DEF Without
  <2> QED
    BY <2>1, <2>2
<1>3. IsMapOver(Without(m, S), K, V)
  <2>1. Without(m, S) = [k \in DOMAIN Without(m, S) |-> Without(m, S)[k]]
    BY DEF Without
  <2>2. DOMAIN Without(m, S) \subseteq K
    BY <1>1 DEF IsMapOver
  <2> QED
    BY <1>1, <1>2, <2>1, <2>2 DEF IsMapOver
<1> QED
  BY <1>1, <1>2, <1>3

LEMMA WithoutOrdered ==
    ASSUME NEW K, NEW V, NEW m, IsMapOver(m, K, V), WellOrdered(m), NEW S
    PROVE  WellOrdered(Without(m, S))
<1> DEFINE w == Without(m, S)
<1>1. DOMAIN w = DOMAIN m \ S /\ \A k \in DOMAIN w : w[k].older = m[k].older \ S
  <2>1. /\ DOMAIN Without(m, S) = DOMAIN m \ S
        /\ \A k \in DOMAIN m \ S :
              /\ Without(m, S)[k].val = m[k].val
              /\ Without(m, S)[k].older = m[k].older \ S
        /\ IsMapOver(Without(m, S), K, V)
    BY WithoutFacts, Zenon
  <2> QED
    BY <2>1
<1> HIDE DEF w
<1>2. \A k \in DOMAIN w : k \notin w[k].older
  BY <1>1 DEF WellOrdered
<1>3. \A j, k \in DOMAIN w : j # k => (j \in w[k].older <=> k \notin w[j].older)
  BY <1>1 DEF WellOrdered
<1>4. \A j, k \in DOMAIN w : j \in w[k].older => w[j].older \subseteq w[k].older
  BY <1>1 DEF WellOrdered
<1>5. WellOrdered(w)
  BY <1>2, <1>3, <1>4 DEF WellOrdered
<1> QED
  BY <1>5 DEF w

\* Setting a key adds it at the end, or keeps its place.
LEMMA PutFacts ==
    ASSUME NEW K, NEW V, NEW m, IsMapOver(m, K, V), NEW k \in K, NEW v \in V
    PROVE  /\ DOMAIN Put(m, k, v) = DOMAIN m \cup {k}
           /\ Put(m, k, v)[k].val = v
           /\ Put(m, k, v)[k].older =
                 (IF k \in DOMAIN m THEN m[k].older ELSE DOMAIN m)
           /\ \A j \in DOMAIN m \ {k} : Put(m, k, v)[j] = m[j]
           /\ IsMapOver(Put(m, k, v), K, V)
<1> DEFINE p == Put(m, k, v)
<1>1. /\ DOMAIN p = DOMAIN m \cup {k}
      /\ p = [j \in DOMAIN p |-> p[j]]
      /\ p[k] = [val |-> v, older |-> IF k \in DOMAIN m THEN m[k].older ELSE DOMAIN m]
      /\ \A j \in DOMAIN m \ {k} : p[j] = m[j]
  BY DEF Put
<1>2. \A j \in DOMAIN m : m[j] \in [val : V, older : SUBSET DOMAIN m]
  BY DEF IsMapOver
<1>3. \A j \in DOMAIN p : p[j] \in [val : V, older : SUBSET DOMAIN p]
  <2> TAKE j \in DOMAIN p
  <2>1. CASE j = k
    <3>1. (IF k \in DOMAIN m THEN m[k].older ELSE DOMAIN m) \in SUBSET DOMAIN p
      BY <1>1, <1>2
    <3> QED
      BY <1>1, <2>1, <3>1
  <2>2. CASE j # k
    BY <1>1, <1>2, <2>2
  <2> QED
    BY <2>1, <2>2
<1>4. IsMapOver(p, K, V)
  BY <1>1, <1>3 DEF IsMapOver
<1> QED
  BY <1>1, <1>4

LEMMA PutOrdered ==
    ASSUME NEW K, NEW V, NEW m, IsMapOver(m, K, V), WellOrdered(m),
           NEW k \in K, NEW v \in V
    PROVE  WellOrdered(Put(m, k, v))
<1> DEFINE p == Put(m, k, v)
<1>1. /\ DOMAIN p = DOMAIN m \cup {k}
      /\ p[k].older = (IF k \in DOMAIN m THEN m[k].older ELSE DOMAIN m)
      /\ \A j \in DOMAIN m \ {k} : p[j].older = m[j].older
  BY PutFacts
<1>2. \A j \in DOMAIN m : m[j].older \subseteq DOMAIN m
  BY DEF IsMapOver
<1> HIDE DEF p
<1>3. CASE k \in DOMAIN m
  <2>1. DOMAIN p = DOMAIN m /\ \A j \in DOMAIN m : p[j].older = m[j].older
    BY <1>1, <1>3
  <2> QED
    BY <2>1 DEF WellOrdered, p
<1>4. CASE k \notin DOMAIN m
  <2>1. p[k].older = DOMAIN m /\ \A j \in DOMAIN m : p[j].older = m[j].older
    BY <1>1, <1>4
  <2>2. \A j \in DOMAIN p : j \notin p[j].older
    BY <1>1, <1>4, <2>1 DEF WellOrdered
  <2>3. \A i, j \in DOMAIN p : i # j => (i \in p[j].older <=> j \notin p[i].older)
    BY <1>1, <1>2, <1>4, <2>1 DEF WellOrdered
  <2>4. \A i, j \in DOMAIN p : i \in p[j].older => p[i].older \subseteq p[j].older
    BY <1>1, <1>2, <1>4, <2>1 DEF WellOrdered
  <2>5. WellOrdered(p)
    BY <2>2, <2>3, <2>4 DEF WellOrdered
  <2> QED
    BY <2>5 DEF p
<1> QED
  BY <1>3, <1>4

\* A non-empty set of natural numbers has a least element.
LEMMA LeastNatural ==
    ASSUME NEW T \in SUBSET Nat, T # {}
    PROVE  \E x \in T : \A y \in T : x <= y
<1> DEFINE R == OpToRel(<, Nat)
<1>1. IsWellFoundedOn(R, Nat)
  BY NatLessThanWellFounded
<1>2. \A x, y \in Nat : y < x => <<y, x>> \in R
  BY DEF OpToRel
<1> HIDE DEF R
<1>3. PICK x \in T : \A y \in T : <<y, x>> \notin R
  BY <1>1, WFMin, Zenon
<1>4. \A y \in T : x <= y
  <2> TAKE y \in T
  <2>1. x \in Nat /\ y \in Nat
    OBVIOUS
  <2>2. ~(y < x)
    BY <1>2, <1>3, <2>1, Zenon
  <2> QED
    BY <2>1, <2>2
<1> QED
  BY <1>4

\* A finite map that is not empty has a first key.
LEMMA OldestExists ==
    ASSUME NEW K, NEW V, NEW m, IsMapOver(m, K, V), WellOrdered(m),
           IsFiniteSet(DOMAIN m), DOMAIN m # {}
    PROVE  Oldest(m) # {}
<1> DEFINE T == {Cardinality(m[k].older) : k \in DOMAIN m}
<1>1. \A k \in DOMAIN m : m[k].older \in SUBSET DOMAIN m
  BY DEF IsMapOver
<1>2. \A k \in DOMAIN m : IsFiniteSet(m[k].older) /\ Cardinality(m[k].older) \in Nat
  BY <1>1, FS_Subset, FS_CardinalityType
<1>3. PICK k \in DOMAIN m :
         \A j \in DOMAIN m : Cardinality(m[k].older) <= Cardinality(m[j].older)
  <2>1. T \in SUBSET Nat /\ T # {}
    BY <1>2
  <2>2. PICK x \in T : \A y \in T : x <= y
    BY <2>1, LeastNatural
  <2> QED
    BY <2>2
<1>4. ASSUME NEW j \in m[k].older
      PROVE  FALSE
  <2>1. j \in DOMAIN m /\ j # k
    BY <1>1, <1>4 DEF WellOrdered
  <2>2. m[j].older \in SUBSET m[k].older /\ j \notin m[j].older
    BY <1>4, <2>1 DEF WellOrdered
  <2>3. Cardinality(m[j].older) = Cardinality(m[k].older)
    <3>1. Cardinality(m[j].older) <= Cardinality(m[k].older)
      BY <1>2, <2>2, FS_Subset
    <3> QED
      BY <1>2, <1>3, <2>1, <3>1
  <2>4. m[j].older = m[k].older
    BY <1>2, <2>2, <2>3, FS_Subset
  <2> QED
    BY <1>4, <2>2, <2>4
<1>5. m[k].older = {}
  BY <1>4
<1> QED
  BY <1>5 DEF Oldest

\* There is one first key at most.
LEMMA OldestUnique ==
    ASSUME NEW m, WellOrdered(m), NEW j \in Oldest(m), NEW k \in Oldest(m)
    PROVE  j = k
BY DEF Oldest, WellOrdered

\* One more element adds one at most to the size of a set.
LEMMA AddOne ==
    ASSUME NEW S, IsFiniteSet(S), NEW x
    PROVE  /\ IsFiniteSet(S \cup {x})
           /\ Cardinality(S \cup {x}) \in Nat
           /\ Cardinality(S \cup {x}) <= Cardinality(S) + 1
<1>1. Cardinality(S) \in Nat
  BY FS_CardinalityType
<1>2. /\ IsFiniteSet(S \cup {x})
      /\ Cardinality(S \cup {x}) =
            IF x \in S THEN Cardinality(S) ELSE Cardinality(S) + 1
  BY FS_AddElement
<1> QED
  BY <1>1, <1>2

\* Sizes: removing keys never adds, setting a key adds one at most, and
\* dropping the first key of a map that has one removes exactly that one.
LEMMA WithoutSize ==
    ASSUME NEW K, NEW V, NEW m, IsMapOver(m, K, V), IsFiniteSet(DOMAIN m), NEW S
    PROVE  /\ IsFiniteSet(DOMAIN Without(m, S))
           /\ Size(Without(m, S)) \in Nat
           /\ Size(m) \in Nat
           /\ Size(Without(m, S)) <= Size(m)
<1>1. DOMAIN Without(m, S) \in SUBSET DOMAIN m
  BY DEF Without
<1> QED
  BY <1>1, FS_Subset, FS_CardinalityType DEF Size

LEMMA PutSize ==
    ASSUME NEW K, NEW V, NEW m, IsMapOver(m, K, V), IsFiniteSet(DOMAIN m),
           NEW k \in K, NEW v \in V
    PROVE  /\ IsFiniteSet(DOMAIN Put(m, k, v))
           /\ k \in DOMAIN m => Size(Put(m, k, v)) = Size(m)
           /\ k \notin DOMAIN m => Size(Put(m, k, v)) = Size(m) + 1
<1>1. DOMAIN Put(m, k, v) = DOMAIN m \cup {k}
  BY DEF Put
<1>2. k \in DOMAIN m => DOMAIN m \cup {k} = DOMAIN m
  OBVIOUS
<1> QED
  BY <1>1, <1>2, FS_AddElement DEF Size

LEMMA DropOldestSize ==
    ASSUME NEW K, NEW V, NEW m, IsMapOver(m, K, V), WellOrdered(m),
           IsFiniteSet(DOMAIN m), DOMAIN m # {}
    PROVE  Size(Without(m, Oldest(m))) = Size(m) - 1
<1>1. PICK k \in DOMAIN m : k \in Oldest(m)
  BY OldestExists DEF Oldest
<1>2. Oldest(m) = {k}
  BY <1>1, OldestUnique
<1>3. DOMAIN Without(m, Oldest(m)) = DOMAIN m \ {k}
  BY <1>2 DEF Without
<1> QED
  BY <1>1, <1>3, FS_RemoveElement DEF Size

-----------------------------------------------------------------------------
(* Induction and recursion on the natural numbers up to n.                 *)

\* The natural numbers up to n, one after the other.
LEMMA UpTo ==
    ASSUME NEW n \in Nat, NEW G, 0 \in G, \A k \in 0 .. n : k # n /\ k \in G => k + 1 \in G
    PROVE  0 .. n \subseteq G
<1> DEFINE bad == {k \in 0 .. n : k \notin G}
<1>1. SUFFICES ASSUME bad # {} PROVE FALSE
  OBVIOUS
<1>2. PICK m \in bad : \A k \in bad : m <= k
  <2>1. bad \in SUBSET Nat
    OBVIOUS
  <2> HIDE DEF bad
  <2> QED
    BY <1>1, <2>1, LeastNatural
<1>3. m \in 0 .. n /\ m \notin G /\ m # 0
  BY <1>2
<1>4. m - 1 \in 0 .. n /\ m - 1 # n /\ m - 1 + 1 = m
  BY <1>3
<1>5. m - 1 \in G
  BY <1>2, <1>4
<1> QED
  BY <1>3, <1>4, <1>5

\* A function on 0 .. n that begins with first and goes on with next.
Unfolds(f, n, S, first, next) ==
    /\ f \in [0 .. n -> S]
    /\ f[0] = first
    /\ \A k \in 1 .. n : f[k] = next[k][f[k - 1]]

\* There is one.
LEMMA ByRecursion ==
    ASSUME NEW n \in Nat, NEW S, NEW first \in S, NEW next \in [1 .. n -> [S -> S]]
    PROVE  \E f : Unfolds(f, n, S, first, next)
<1> DEFINE Up(f, m) == f[0] = first /\ \A k \in 1 .. m : f[k] = next[k][f[k - 1]]
           G == {m \in 0 .. n : \E f \in [0 .. m -> S] : Up(f, m)}
<1>1. 0 \in G
  <2> DEFINE f == [k \in 0 .. 0 |-> first]
  <2>1. f \in [0 .. 0 -> S] /\ Up(f, 0) /\ 0 \in 0 .. n
    OBVIOUS
  <2> HIDE DEF f, Up
  <2> QED
    BY <2>1
<1>2. ASSUME NEW m \in 0 .. n, m # n, m \in G
      PROVE  m + 1 \in G
  <2>1. PICK f \in [0 .. m -> S] : Up(f, m)
    BY <1>2
  <2> DEFINE value == next[m + 1][f[m]]
             g == [k \in 0 .. m + 1 |-> IF k = m + 1 THEN value ELSE f[k]]
  <2>2. m + 1 \in 1 .. n /\ f[m] \in S
    BY <1>2
  <2>3. value \in S
    BY <2>2
  <2>4. g \in [0 .. m + 1 -> S] /\ g[0] = first
    <3> HIDE DEF value
    <3> QED
      BY <1>2, <2>1, <2>3
  <2>5. ASSUME NEW k \in 1 .. m + 1
        PROVE  g[k] = next[k][g[k - 1]]
    <3>1. CASE k = m + 1
      <4>1. g[m + 1] = value /\ g[m] = f[m] /\ k - 1 = m
        <5> HIDE DEF value
        <5> QED
          BY <1>2, <3>1
      <4> HIDE DEF g
      <4> QED
        BY <3>1, <4>1
    <3>2. CASE k # m + 1
      <4>1. k \in 1 .. m /\ g[k] = f[k] /\ g[k - 1] = f[k - 1]
        <5> HIDE DEF value
        <5> QED
          BY <1>2, <3>2
      <4> HIDE DEF g
      <4> QED
        BY <2>1, <4>1
    <3> QED
      BY <3>1, <3>2
  <2>6. Up(g, m + 1)
    <3> HIDE DEF g
    <3> QED
      BY <2>4, <2>5
  <2> HIDE DEF g, Up
  <2> QED
    BY <2>2, <2>4, <2>6
<1>3. n \in G /\ n \in Nat
  <2>1. \A m \in 0 .. n : m # n /\ m \in G => m + 1 \in G
    BY <1>2
  <2> HIDE DEF G
  <2> QED
    <3>1. 0 .. n \subseteq G
      BY <1>1, <2>1, UpTo
    <3> QED
      BY <3>1
<1> QED
  BY <1>3 DEF Unfolds
=============================================================================
