--------------------------- MODULE KeyStoreProofs ---------------------------
(* Theorems about KeyStore, for every set of instances, runs of the key     *)
(* script, clients and keys: any number of processes start and stop, and   *)
(* keys are rotated, in any order.                                         *)
EXTENDS KeyStore, SequenceTheorems, TLAPS

Entries == Keys \cup {BadKey}

HasKey(s, k) == \E n \in DOMAIN s : s[n] = k

-----------------------------------------------------------------------------
(* Lists of keys.                                                          *)

\* The list of one key.
LEMMA OneKey ==
    ASSUME NEW S, NEW k \in S
    PROVE  /\ <<k>> \in Seq(S)
           /\ <<k>> # <<>>
           /\ \A x : HasKey(<<k>>, x) <=> x = k
BY DEF HasKey

\* The primary key is a key of the list.
LEMMA PrimaryKey ==
    ASSUME NEW S, NEW s \in Seq(S), s # <<>>
    PROVE  s[1] \in S /\ HasKey(s, s[1])
<1>1. Len(s) \in Nat /\ Len(s) # 0 /\ DOMAIN s = 1 .. Len(s)
  BY EmptySeq, LenProperties
<1>2. 1 \in DOMAIN s /\ s[1] \in S
  BY <1>1, ElementOfSeq
<1> QED
  BY <1>2 DEF HasKey

\* A list that passes validation holds usable keys only.
LEMMA ValidKeys ==
    ASSUME NEW s \in Seq(Entries), Valid(s)
    PROVE  s \in Seq(Keys)
<1>1. Len(s) \in Nat /\ DOMAIN s = 1 .. Len(s)
  BY LenProperties
<1>2. \A n \in 1 .. Len(s) : s[n] \in Keys
  BY <1>1 DEF Valid
<1>3. SubSeq(s, 1, Len(s)) \in Seq(Keys)
  BY <1>1, <1>2, SubSeqProperties
<1> QED
  BY <1>3, SubSeqFull

\* Rotating keeps every key that was accepted.
LEMMA RotatedKeys ==
    ASSUME NEW S, NEW k \in S, NEW s \in Seq(S)
    PROVE  /\ <<k>> \o s \in Seq(S)
           /\ <<k>> \o s # <<>>
           /\ \A x : HasKey(s, x) => HasKey(<<k>> \o s, x)
<1> DEFINE one == <<k>>
           t == one \o s
<1>1. one \in Seq(S) /\ Len(one) = 1
  OBVIOUS
<1>2. Len(s) \in Nat /\ DOMAIN s = 1 .. Len(s)
  BY LenProperties
<1> HIDE DEF one
<1>3. /\ t \in Seq(S)
      /\ Len(t) = 1 + Len(s)
      /\ \A i \in 1 .. 1 + Len(s) : t[i] = IF i <= 1 THEN one[i] ELSE s[i - 1]
  <2>1. /\ t \in Seq(S)
        /\ Len(t) = Len(one) + Len(s)
        /\ \A i \in 1 .. Len(one) + Len(s) :
              t[i] = IF i <= Len(one) THEN one[i] ELSE s[i - Len(one)]
    BY <1>1, ConcatProperties, Zenon
  <2> HIDE DEF t
  <2> QED
    BY <1>1, <2>1
<1> HIDE DEF t
<1>4. DOMAIN t = 1 .. 1 + Len(s)
  BY <1>3, LenProperties
<1>5. t # <<>>
  BY <1>2, <1>3, EmptySeq
<1>6. ASSUME NEW x, NEW n \in DOMAIN s, s[n] = x
      PROVE  n + 1 \in DOMAIN t /\ t[n + 1] = x
  BY <1>2, <1>3, <1>4, <1>6
<1>7. \A x : HasKey(s, x) => HasKey(t, x)
  BY <1>6 DEF HasKey
<1> QED
  BY <1>3, <1>5, <1>7 DEF t, one

\* Retiring removes the last key only, and never the only one.
LEMMA RetiredKeys ==
    ASSUME NEW S, NEW s \in Seq(S), Len(s) > 1
    PROVE  /\ SubSeq(s, 1, Len(s) - 1) \in Seq(S)
           /\ SubSeq(s, 1, Len(s) - 1) # <<>>
           /\ \A x : HasKey(s, x) /\ x # s[Len(s)] =>
                 HasKey(SubSeq(s, 1, Len(s) - 1), x)
<1> DEFINE n == Len(s)
           t == SubSeq(s, 1, n - 1)
<1>1. n \in Nat /\ n > 1 /\ DOMAIN s = 1 .. n
  BY LenProperties
<1>2. \A i \in 1 .. n : s[i] \in S
  BY <1>1, ElementOfSeq
<1> HIDE DEF n
<1>3. /\ t \in Seq(S)
      /\ Len(t) = n - 1
      /\ \A i \in 1 .. n - 1 : t[i] = s[i]
  <2>1. n - 1 \in Int /\ 1 \in Int /\ \A i \in 1 .. n - 1 : s[i] \in S
    BY <1>1, <1>2
  <2>2. /\ t \in Seq(S)
        /\ Len(t) = IF 1 <= n - 1 THEN (n - 1) - 1 + 1 ELSE 0
        /\ \A i \in 1 .. (n - 1) - 1 + 1 : t[i] = s[1 + i - 1]
    BY <2>1, SubSeqProperties
  <2> HIDE DEF t
  <2> QED
    BY <1>1, <2>2
<1> HIDE DEF t
<1>4. DOMAIN t = 1 .. n - 1
  BY <1>3, LenProperties
<1>5. t # <<>>
  BY <1>1, <1>3, EmptySeq
<1>6. ASSUME NEW x, HasKey(s, x), x # s[n]
      PROVE  HasKey(t, x)
  <2>1. PICK i \in 1 .. n : s[i] = x
    BY <1>1, <1>6 DEF HasKey
  <2>2. i \in 1 .. n - 1
    BY <1>1, <1>6, <2>1
  <2> QED
    BY <1>3, <1>4, <2>1, <2>2 DEF HasKey
<1> QED
  BY <1>3, <1>5, <1>6 DEF t, n

\* Correcting the first entry keeps every other one.
LEMMA CorrectedKeys ==
    ASSUME NEW S, NEW s \in Seq(S), s # <<>>, NEW k \in S
    PROVE  /\ [s EXCEPT ![1] = k] \in Seq(S)
           /\ [s EXCEPT ![1] = k] # <<>>
           /\ \A x : HasKey(s, x) /\ x # s[1] => HasKey([s EXCEPT ![1] = k], x)
<1> DEFINE t == [s EXCEPT ![1] = k]
<1>1. Len(s) \in Nat /\ Len(s) # 0 /\ DOMAIN s = 1 .. Len(s)
  BY EmptySeq, LenProperties
<1>2. 1 \in 1 .. Len(s)
  BY <1>1
<1>3. t \in Seq(S) /\ Len(t) = Len(s)
  BY <1>2, ExceptSeq
<1>4. DOMAIN t = DOMAIN s /\ \A n \in DOMAIN s : n # 1 => t[n] = s[n]
  OBVIOUS
<1> HIDE DEF t
<1>5. t # <<>>
  BY <1>1, <1>3, EmptySeq
<1>6. \A x : HasKey(s, x) /\ x # s[1] => HasKey(t, x)
  BY <1>4 DEF HasKey
<1> QED
  BY <1>3, <1>5, <1>6 DEF t

-----------------------------------------------------------------------------
(* The inductive invariant.                                                *)

Busy(i) == pc[i] \in {"generating", "writing", "saved"}

\* The service is up with the key on disk.
Bare(i) == pc[i] = "up" /\ started[i] = <<>>

\* How far a process is, and what it holds there.
StartOK == \A i \in Processes :
    /\ pc[i] = "generating" => file[i] = 1
    /\ pc[i] = "writing" => file[i] \in {1, 2}
    /\ pc[i] = "saved" => file[i] = 2
    /\ Busy(i) => own[i] \in Keys /\ started[i] = <<>>
    /\ pc[i] = "up" /\ started[i] # <<>> => keys[i] = started[i]
    /\ calm[i] => pc[i] = "up"
    /\ i \in Scripts => pc[i] \notin {"up", "failed"} /\ started[i] = <<>>

\* The private key is saved first, and nothing removes it.
PrivateStays ==
    /\ disk["private"] = Missing => disk["public"] = Missing
    /\ \A i \in Processes : pc[i] \in {"writing", "saved"} => disk["private"] # Missing

\* Once an instance has loaded a key from a quiet directory, nobody saves there.
CalmOK == \A i \in Processes : Bare(i) /\ calm[i] =>
    /\ \A j \in Processes : ~Busy(j)
    /\ disk["private"] \in Keys
    /\ keys[i] = <<disk["private"]>>

\* Without a race: one process saves a first key at a time, ...
OneStart == \A i, j \in Processes : Busy(i) /\ Busy(j) => i = j

\* ... whose progress shows on disk, ...
SavedPart == \A i \in Processes :
    /\ pc[i] = "generating" => disk["private"] = Missing
    /\ pc[i] = "writing" /\ file[i] = 1 => disk["private"] = Cut /\ disk["public"] = Missing
    /\ pc[i] = "writing" /\ file[i] = 2 => disk["private"] = own[i] /\ disk["public"] = Cut
    /\ pc[i] = "saved" => disk["private"] = own[i] /\ disk["public"] \notin Keys

\* ... every instance without configured keys serves the key on disk, ...
ServesDisk == \A i \in Processes :
    Bare(i) => keys[i] = <<disk["private"]>> /\ disk["private"] \in Keys

Paired == disk["public"] \in Keys => disk["private"] = disk["public"]

\* ... and the key of a client is in the settings, or else on disk, is accepted
\* by whoever is up, and is the one that is being saved, if any is; but the script
\* may save an unused one beside the settings.
ClientServed == \A c \in Clients : client[c] # NoKey =>
    /\ config # <<>> => HasKey(config, client[c])
    /\ config = <<>> => client[c] = disk["private"]
    /\ \A i \in Processes :
          /\ pc[i] = "up" => HasKey(keys[i], client[c])
          /\ Busy(i) /\ (i \in Instances \/ config = <<>>) => own[i] = client[c]

NoRaceInv == OneStart /\ SavedPart /\ ServesDisk /\ Paired /\ ClientServed

\* What holds whether or not first starts have raced.
Shared == StartOK /\ PrivateStays /\ CalmOK

Inv == TypeOK /\ Shared /\ (~raced => NoRaceInv)

-----------------------------------------------------------------------------
(* Types.                                                                  *)

\* The keys that a start finds, when they are valid.
LEMMA FoundKeys ==
    ASSUME TypeOK, ~FirstStart, Valid(Found)
    PROVE  /\ Found \in Seq(Keys)
           /\ Found # <<>>
           /\ config # <<>> => Found = config
           /\ config = <<>> => disk["private"] \in Keys /\ Found = <<disk["private"]>>
<1>1. CASE config # <<>>
  <2>1. Found = config /\ config \in Seq(Entries)
    BY <1>1 DEF Found, TypeOK, Entries
  <2> QED
    BY <1>1, <2>1, ValidKeys
<1>2. CASE config = <<>>
  <2>1. Found = <<disk["private"]>>
    BY <1>2 DEF Found
  <2>2. disk["private"] \in Keys
    BY <2>1 DEF Valid
  <2> QED
    BY <1>2, <2>1, <2>2, OneKey
<1> QED
  BY <1>1, <1>2

\* The list that the operator rotates.
LEMMA AcceptedKeys ==
    ASSUME TypeOK
    PROVE  /\ Accepted \in Seq(Entries)
           /\ config # <<>> => Accepted = config
           /\ config = <<>> /\ disk["private"] \in Keys => Accepted = <<disk["private"]>>
<1>1. config \in Seq(Entries)
  BY DEF TypeOK, Entries
<1>2. <<>> \in Seq(Entries)
  BY EmptySeq
<1>3. disk["private"] \in Keys => <<disk["private"]>> \in Seq(Entries)
  BY OneKey DEF Entries
<1> QED
  BY <1>1, <1>2, <1>3 DEF Accepted, Persisted

LEMMA InstanceIsProcess ==
    \A i \in Instances : i \in Processes /\ i \notin Scripts
BY ScriptsAssumption DEF Processes

\* A first start and the script begin alike.
Begins(p) == \/ p \in Instances /\ Generate(p)
             \/ p \in Scripts /\ KeygenStarts(p)

LEMMA PairMade ==
    ASSUME TypeOK, StartOK, NEW p \in Processes, Begins(p)
    PROVE  /\ disk["private"] = Missing
           /\ p \in Instances => config = <<>>
           /\ pc[p] \in {"down", "failed"}
           /\ pc' = [pc EXCEPT ![p] = "generating"]
           /\ started' = [started EXCEPT ![p] = <<>>]
           /\ file' = [file EXCEPT ![p] = 1]
           /\ own' \in [Processes -> Keys \cup {NoKey}]
           /\ own'[p] \in Keys /\ \A q \in Processes \ {p} : own'[q] = own[q]
           /\ used' \subseteq Keys
           /\ raced' = (raced \/ Generating # {})
           /\ UNCHANGED <<autoGenerate, config, disk, keys, client, calm>>
<1>1. /\ pc' = [pc EXCEPT ![p] = "generating"]
      /\ file' = [file EXCEPT ![p] = 1]
      /\ raced' = (raced \/ Generating # {})
      /\ own' \in [Processes -> Keys \cup {NoKey}]
      /\ own'[p] \in Keys /\ \A q \in Processes \ {p} : own'[q] = own[q]
      /\ used' \subseteq Keys
      /\ UNCHANGED <<autoGenerate, config, disk, keys, client, calm>>
  <2>1. NewPair(p) /\ UNCHANGED <<autoGenerate, config, disk, keys, client, calm>>
    BY DEF Begins, Generate, KeygenStarts
  <2>2. PICK k \in Keys \ used : own' = [own EXCEPT ![p] = k] /\ used' = used \cup {k}
    BY <2>1 DEF NewPair
  <2>3. own' \in [Processes -> Keys \cup {NoKey}]
    BY <2>2 DEF TypeOK
  <2>4. own'[p] \in Keys /\ \A q \in Processes \ {p} : own'[q] = own[q]
    BY <2>2 DEF TypeOK
  <2>5. used' \subseteq Keys
    BY <2>2 DEF TypeOK
  <2> QED
    BY <2>1, <2>3, <2>4, <2>5 DEF NewPair
<1>2. /\ pc[p] \in {"down", "failed"}
      /\ disk["private"] = Missing
  BY DEF TypeOK, Begins, Generate, KeygenStarts, FirstStart
<1>3. CASE p \in Instances /\ Generate(p)
  BY <1>1, <1>2, <1>3 DEF Generate, FirstStart
<1>4. CASE p \in Scripts /\ KeygenStarts(p)
  <2>1. started[p] = <<>> /\ started' = started /\ p \notin Instances
    BY <1>4, ScriptsAssumption DEF StartOK, KeygenStarts
  <2>2. started' = [started EXCEPT ![p] = <<>>]
    BY <2>1 DEF TypeOK
  <2> QED
    BY <1>1, <1>2, <2>1, <2>2
<1> QED
  BY <1>3, <1>4 DEF Begins

\* The kinds of steps.
LEMMA Steps ==
    ASSUME [Next]_vars
    PROVE  \/ \E i \in Instances : Load(i) \/ StartFails(i)
           \/ \E p \in Processes : Begins(p) \/ OpenFile(p) \/ WriteFile(p) \/ Stop(p)
           \/ \E k \in Keys : Correct(k)
           \/ \E k \in Keys \cup {BadKey} : Rotate(k)
           \/ Retire
           \/ \E c \in Clients, i \in Instances : Release(c, i)
           \/ UNCHANGED vars
<1>1. ASSUME NEW i \in Instances, OnModuleInit(i)
      PROVE  \/ Load(i) \/ StartFails(i)
             \/ i \in Processes /\ (Begins(i) \/ OpenFile(i) \/ WriteFile(i))
  BY <1>1, InstanceIsProcess DEF OnModuleInit, Begins
<1>2. ASSUME NEW s \in Scripts, Keygen(s)
      PROVE  s \in Processes /\ (Begins(s) \/ OpenFile(s) \/ WriteFile(s))
  BY <1>2 DEF Keygen, Begins, Processes
<1> QED
  BY <1>1, <1>2 DEF Next, Operate

\* What OpenFile and WriteFile do, by the file they are at.
LEMMA FileOpened ==
    ASSUME StartOK, NEW i \in Processes, OpenFile(i)
    PROVE  \/ /\ pc[i] = "generating" /\ file[i] = 1
              /\ disk' = [disk EXCEPT !["private"] = Cut]
           \/ /\ pc[i] = "saved" /\ file[i] = 2
              /\ disk' = [disk EXCEPT !["public"] = Cut]
<1>1. Files[1] = "private" /\ Files[2] = "public"
  BY DEF Files
<1> QED
  BY <1>1 DEF OpenFile, StartOK

LEMMA FileWritten ==
    ASSUME StartOK, NEW i \in Processes, WriteFile(i)
    PROVE  \/ /\ file[i] = 1
              /\ disk' = [disk EXCEPT !["private"] = own[i]]
              /\ pc' = [pc EXCEPT ![i] = "saved"]
              /\ file' = [file EXCEPT ![i] = 2]
              /\ UNCHANGED <<keys, own>>
           \/ /\ file[i] = 2
              /\ disk' = [disk EXCEPT !["public"] = own[i]]
              /\ pc' = [pc EXCEPT ![i] = IF i \in Scripts THEN "down" ELSE "up"]
              /\ keys' = [keys EXCEPT ![i] = IF i \in Scripts THEN <<>> ELSE <<own[i]>>]
              /\ own' = [own EXCEPT ![i] = NoKey]
              /\ file' = [file EXCEPT ![i] = 0]
<1>1. Files[1] = "private" /\ Files[2] = "public" /\ Len(Files) = 2
  BY DEF Files
<1>2. file[i] \in {1, 2}
  BY DEF WriteFile, StartOK
<1> HIDE DEF Files
<1>3. CASE file[i] = 1
  <2>1. file[i] < Len(Files) /\ file[i] + 1 = 2
    BY <1>1, <1>3
  <2>2. /\ disk' = [disk EXCEPT ![Files[file[i]]] = own[i]]
        /\ pc' = [pc EXCEPT ![i] = "saved"]
        /\ file' = [file EXCEPT ![i] = file[i] + 1]
        /\ UNCHANGED <<keys, own>>
    BY <2>1, Zenon DEF WriteFile
  <2> QED
    BY <1>1, <1>3, <2>1, <2>2, Zenon
<1>4. CASE file[i] = 2
  <2>1. ~(file[i] < Len(Files))
    BY <1>1, <1>4
  <2>2. /\ disk' = [disk EXCEPT ![Files[file[i]]] = own[i]]
        /\ pc' = [pc EXCEPT ![i] = IF i \in Scripts THEN "down" ELSE "up"]
        /\ keys' = [keys EXCEPT ![i] = IF i \in Scripts THEN <<>> ELSE <<own[i]>>]
        /\ own' = [own EXCEPT ![i] = NoKey]
        /\ file' = [file EXCEPT ![i] = 0]
    BY <2>1, Zenon DEF WriteFile
  <2> QED
    BY <1>1, <1>4, <2>1, <2>2, Zenon
<1> QED
  BY <1>2, <1>3, <1>4

LEMMA TypeStep ==
    ASSUME TypeOK, StartOK, [Next]_vars
    PROVE  TypeOK'
<1>1. ASSUME NEW i \in Instances, Load(i)
      PROVE  TypeOK'
  <2>1. Found \in Seq(Keys) /\ Found # <<>>
    BY <1>1, FoundKeys DEF Load
  <2> QED
    BY <1>1, <2>1 DEF TypeOK, Load, Becomes
<1>2. ASSUME NEW i \in Instances, StartFails(i)
      PROVE  TypeOK'
  <2>1. <<>> \in Seq(Keys)
    BY EmptySeq
  <2> QED
    BY <1>2, <2>1 DEF TypeOK, StartFails, Becomes
<1>3. ASSUME NEW i \in Processes, Begins(i)
      PROVE  TypeOK'
  <2>1. <<>> \in Seq(Keys \cup {BadKey})
    BY EmptySeq
  <2>2. /\ pc[i] \in {"down", "failed"}
        /\ pc' = [pc EXCEPT ![i] = "generating"]
        /\ started' = [started EXCEPT ![i] = <<>>]
        /\ file' = [file EXCEPT ![i] = 1]
        /\ own' \in [Processes -> Keys \cup {NoKey}]
        /\ used' \subseteq Keys
        /\ raced' \in BOOLEAN
        /\ UNCHANGED <<autoGenerate, config, disk, keys, client, calm>>
    BY <1>3, PairMade DEF TypeOK
  <2> QED
    BY <2>1, <2>2 DEF TypeOK
<1>4. ASSUME NEW i \in Processes, OpenFile(i)
      PROVE  TypeOK'
  BY <1>4 DEF TypeOK, OpenFile
<1>5. ASSUME NEW i \in Processes, WriteFile(i)
      PROVE  TypeOK'
  <2>1. own[i] \in Keys
    BY <1>5 DEF StartOK, WriteFile, Busy
  <2>2. <<own[i]>> \in Seq(Keys) /\ <<own[i]>> # <<>>
    BY <2>1, OneKey
  <2>3. /\ UNCHANGED <<autoGenerate, config, started, client, used, raced, calm>>
        /\ pc[i] = "writing"
    BY <1>5 DEF WriteFile
  <2>4. CASE file[i] = 1
    <3>1. /\ disk' = [disk EXCEPT !["private"] = own[i]]
          /\ pc' = [pc EXCEPT ![i] = "saved"]
          /\ file' = [file EXCEPT ![i] = 2]
          /\ UNCHANGED <<keys, own>>
      BY <1>5, <2>4, FileWritten
    <3> QED
      BY <2>1, <2>3, <3>1 DEF TypeOK
  <2>5. CASE file[i] # 1
    <3>1. /\ disk' = [disk EXCEPT !["public"] = own[i]]
          /\ pc' = [pc EXCEPT ![i] = IF i \in Scripts THEN "down" ELSE "up"]
          /\ keys' = [keys EXCEPT ![i] = IF i \in Scripts THEN <<>> ELSE <<own[i]>>]
          /\ own' = [own EXCEPT ![i] = NoKey]
          /\ file' = [file EXCEPT ![i] = 0]
      BY <1>5, <2>5, FileWritten
    <3>2. <<>> \in Seq(Keys)
      BY EmptySeq
    <3> QED
      BY <2>1, <2>2, <2>3, <3>1, <3>2 DEF TypeOK
  <2> QED
    BY <2>4, <2>5
<1>6. ASSUME NEW i \in Processes, Stop(i)
      PROVE  TypeOK'
  <2>1. <<>> \in Seq(Keys)
    BY EmptySeq
  <2> QED
    BY <1>6, <2>1 DEF TypeOK, Stop
<1>8. ASSUME NEW k \in Keys, Correct(k)
      PROVE  TypeOK'
  <2>1. config' \in Seq(Entries)
    BY <1>8, CorrectedKeys DEF TypeOK, Correct, Entries
  <2> QED
    BY <1>8, <2>1 DEF TypeOK, Correct, process, Entries
<1>9. ASSUME NEW k \in Keys \cup {BadKey}, Rotate(k)
      PROVE  TypeOK'
  <2>1. config' \in Seq(Entries)
    BY <1>9, AcceptedKeys, RotatedKeys DEF Rotate, Entries
  <2> QED
    BY <1>9, <2>1 DEF TypeOK, Rotate, process, Entries
<1>10. ASSUME Retire
       PROVE  TypeOK'
  <2>1. config' \in Seq(Entries)
    BY <1>10, RetiredKeys DEF TypeOK, Retire, Entries
  <2> QED
    BY <1>10, <2>1 DEF TypeOK, Retire, process, Entries
<1>11. ASSUME NEW c \in Clients, NEW i \in Instances, Release(c, i)
       PROVE  TypeOK'
  <2>1. keys[i] \in Seq(Keys) /\ keys[i] # <<>>
    BY <1>11, InstanceIsProcess DEF TypeOK, Release
  <2>2. keys[i][1] \in Keys
    BY <2>1, PrimaryKey
  <2> QED
    BY <1>11, <2>2 DEF TypeOK, Release, process
<1>12. ASSUME UNCHANGED vars
       PROVE  TypeOK'
  BY <1>12 DEF TypeOK, vars, process
<1> QED
  BY <1>1, <1>2, <1>3, <1>4, <1>5, <1>6, <1>8, <1>9, <1>10, <1>11, <1>12, Steps

-----------------------------------------------------------------------------
(* The steps.                                                              *)

LEMMA KeysApart ==
    /\ Missing \notin Keys /\ Cut \notin Keys /\ NoKey \notin Keys /\ BadKey \notin Keys
    /\ Missing # Cut
BY KeysAssumption

LEMMA SharedStep ==
    ASSUME TypeOK, Shared, [Next]_vars
    PROVE  Shared'
<1> USE KeysApart, InstanceIsProcess
<1>1. ASSUME NEW i \in Instances, Load(i)
      PROVE  Shared'
  <2>1. /\ config # <<>> => Found = config
        /\ config = <<>> => disk["private"] \in Keys /\ Found = <<disk["private"]>>
    BY <1>1, FoundKeys DEF Load
  <2>2. /\ pc' = [pc EXCEPT ![i] = "up"]
        /\ started' = [started EXCEPT ![i] = config]
        /\ keys' = [keys EXCEPT ![i] = Found]
        /\ calm' = [calm EXCEPT ![i] = Saving = {}]
        /\ UNCHANGED <<own, file, disk>>
        /\ pc[i] \in {"down", "failed"}
    BY <1>1 DEF Load, Becomes
  <2>3. StartOK'
    BY <2>1, <2>2 DEF TypeOK, Shared, StartOK, Busy
  <2>4. PrivateStays'
    BY <2>2 DEF TypeOK, Shared, PrivateStays
  <2>5. CalmOK'
    <3> SUFFICES ASSUME NEW j \in Processes, Bare(j)', calm'[j]
                 PROVE  /\ \A l \in Processes : ~Busy(l)'
                        /\ disk["private"] \in Keys
                        /\ keys'[j] = <<disk["private"]>>
      BY <2>2 DEF CalmOK
    <3>1. CASE j = i
      <4>1. Saving = {} /\ config = <<>>
        BY <2>2, <3>1 DEF TypeOK, Bare
      <4> QED
        BY <2>1, <2>2, <3>1, <4>1 DEF TypeOK, Saving, Busy
    <3>2. CASE j # i
      <4>1. Bare(j) /\ calm[j] /\ keys'[j] = keys[j]
        BY <2>2, <3>2 DEF TypeOK, Bare
      <4> QED
        BY <2>2, <4>1 DEF TypeOK, Shared, CalmOK, Busy
    <3> QED
      BY <3>1, <3>2
  <2> QED
    BY <2>3, <2>4, <2>5 DEF Shared
<1>2. ASSUME NEW i \in Instances, StartFails(i)
      PROVE  Shared'
  <2>1. /\ pc' = [pc EXCEPT ![i] = "failed"]
        /\ started' = [started EXCEPT ![i] = config]
        /\ keys' = [keys EXCEPT ![i] = <<>>]
        /\ calm' = [calm EXCEPT ![i] = FALSE]
        /\ UNCHANGED <<own, file, disk>>
    BY <1>2 DEF StartFails, Becomes
  <2> QED
    BY <2>1 DEF TypeOK, Shared, StartOK, PrivateStays, CalmOK, Busy, Bare
<1>3. ASSUME NEW i \in Processes, Begins(i)
      PROVE  Shared'
  <2>1. /\ disk["private"] = Missing
        /\ pc[i] \in {"down", "failed"}
        /\ pc' = [pc EXCEPT ![i] = "generating"]
        /\ started' = [started EXCEPT ![i] = <<>>]
        /\ file' = [file EXCEPT ![i] = 1]
        /\ own'[i] \in Keys /\ \A j \in Processes \ {i} : own'[j] = own[j]
        /\ UNCHANGED <<keys, disk, calm>>
    BY <1>3, PairMade DEF Shared
  <2> QED
    BY <2>1 DEF TypeOK, Shared, StartOK, PrivateStays, CalmOK, Busy, Bare
<1>4. ASSUME NEW i \in Processes, OpenFile(i)
      PROVE  Shared'
  <2>1. /\ pc[i] \in {"generating", "saved"}
        /\ pc' = [pc EXCEPT ![i] = "writing"]
        /\ UNCHANGED <<started, keys, own, file, calm>>
    BY <1>4 DEF OpenFile
  <2>2. \/ pc[i] = "generating" /\ file[i] = 1 /\ disk'["private"] = Cut
        \/ /\ pc[i] = "saved" /\ file[i] = 2
           /\ disk'["private"] = disk["private"] /\ disk["private"] # Missing
    BY <1>4, FileOpened DEF TypeOK, Shared, PrivateStays
  <2> QED
    BY <2>1, <2>2 DEF TypeOK, Shared, StartOK, PrivateStays, CalmOK, Busy, Bare
<1>5. ASSUME NEW i \in Processes, WriteFile(i)
      PROVE  Shared'
  <2>1. /\ pc[i] = "writing" /\ ~calm[i] /\ own[i] \in Keys /\ started[i] = <<>>
        /\ disk["private"] # Missing
        /\ UNCHANGED <<started, calm>>
        /\ Busy(i)
    BY <1>5 DEF WriteFile, Shared, StartOK, PrivateStays, Busy
  <2>2. \/ /\ file[i] = 1
           /\ disk' = [disk EXCEPT !["private"] = own[i]]
           /\ pc' = [pc EXCEPT ![i] = "saved"]
           /\ file' = [file EXCEPT ![i] = 2]
           /\ UNCHANGED <<keys, own>>
        \/ /\ file[i] = 2
           /\ disk' = [disk EXCEPT !["public"] = own[i]]
           /\ pc' = [pc EXCEPT ![i] = IF i \in Scripts THEN "down" ELSE "up"]
           /\ keys' = [keys EXCEPT ![i] = IF i \in Scripts THEN <<>> ELSE <<own[i]>>]
           /\ own' = [own EXCEPT ![i] = NoKey]
           /\ file' = [file EXCEPT ![i] = 0]
    BY <1>5, FileWritten DEF Shared
  <2>3. disk'["private"] # Missing
    BY <2>1, <2>2 DEF TypeOK
  <2>4. StartOK'
    BY <2>1, <2>2 DEF TypeOK, Shared, StartOK, Busy
  <2>5. PrivateStays'
    BY <2>3 DEF PrivateStays
  <2>6. CalmOK'
    BY <2>1, <2>2 DEF TypeOK, Shared, CalmOK, Busy, Bare
  <2> QED
    BY <2>4, <2>5, <2>6 DEF Shared
<1>6. ASSUME NEW i \in Processes, Stop(i)
      PROVE  Shared'
  <2>1. /\ pc' = [pc EXCEPT ![i] = "down"]
        /\ keys' = [keys EXCEPT ![i] = <<>>]
        /\ own' = [own EXCEPT ![i] = NoKey]
        /\ file' = [file EXCEPT ![i] = 0]
        /\ calm' = [calm EXCEPT ![i] = FALSE]
        /\ UNCHANGED <<disk, started>>
    BY <1>6 DEF Stop
  <2> QED
    BY <2>1 DEF TypeOK, Shared, StartOK, PrivateStays, CalmOK, Busy, Bare
<1>8. ASSUME UNCHANGED <<disk, process, calm>>
      PROVE  Shared'
  BY <1>8 DEF Shared, StartOK, PrivateStays, CalmOK, Busy, Bare, process
<1>9. ASSUME NEW k \in Keys, Correct(k)
      PROVE  Shared'
  BY <1>8, <1>9 DEF Correct
<1>10. ASSUME NEW k \in Keys \cup {BadKey}, Rotate(k)
       PROVE  Shared'
  BY <1>8, <1>10 DEF Rotate
<1>11. ASSUME Retire
       PROVE  Shared'
  BY <1>8, <1>11 DEF Retire
<1>12. ASSUME NEW c \in Clients, NEW i \in Instances, Release(c, i)
       PROVE  Shared'
  BY <1>8, <1>12 DEF Release
<1>13. ASSUME UNCHANGED vars
       PROVE  Shared'
  BY <1>8, <1>13 DEF vars
<1> QED
  BY <1>1, <1>2, <1>3, <1>4, <1>5, <1>6, <1>9, <1>10, <1>11, <1>12, <1>13, Steps

\* Nobody is saving, and no key is served or released from an empty directory.
LEMMA EmptyDirectory ==
    ASSUME TypeOK, Shared, NoRaceInv, disk["private"] = Missing
    PROVE  /\ \A i \in Processes : Busy(i) => pc[i] = "generating"
           /\ \A i \in Processes : ~Bare(i)
           /\ config = <<>> => \A c \in Clients : client[c] = NoKey
BY KeysApart DEF TypeOK, Shared, StartOK, PrivateStays, NoRaceInv, SavedPart,
                 ServesDisk, ClientServed, Busy, Bare

LEMMA NoRaceStep ==
    ASSUME Inv, [Next]_vars, ~raced'
    PROVE  NoRaceInv'
<1> USE KeysApart, InstanceIsProcess
<1>1. TypeOK /\ StartOK /\ PrivateStays
  BY DEF Inv, Shared
<1>2. ~raced
  <2>1. ASSUME NEW p \in Processes, Begins(p)
        PROVE  ~raced
    BY <1>1, <2>1, PairMade
  <2> QED
    BY <2>1, Steps DEF vars, Load, StartFails, OpenFile, WriteFile, Stop, Rotate, Correct,
                       Retire, Release
<1>3. NoRaceInv /\ OneStart /\ SavedPart /\ ServesDisk /\ Paired /\ ClientServed
  BY <1>2 DEF Inv, NoRaceInv
<1>4. ASSUME NEW i \in Instances, Load(i)
      PROVE  NoRaceInv'
  <2>1. /\ config # <<>> => Found = config
        /\ config = <<>> => disk["private"] \in Keys /\ Found = <<disk["private"]>>
    BY <1>1, <1>4, FoundKeys DEF Load
  <2>2. /\ pc' = [pc EXCEPT ![i] = "up"]
        /\ started' = [started EXCEPT ![i] = config]
        /\ keys' = [keys EXCEPT ![i] = Found]
        /\ UNCHANGED <<own, file, disk, config, client>>
    BY <1>4 DEF Load, Becomes
  <2>3. OneStart' /\ SavedPart' /\ Paired'
    BY <1>1, <1>3, <2>2 DEF TypeOK, OneStart, SavedPart, Paired, Busy
  <2>4. ServesDisk'
    BY <1>1, <1>3, <2>1, <2>2 DEF TypeOK, ServesDisk, Bare
  <2>5. \A c \in Clients : client[c] # NoKey => HasKey(Found, client[c])
    BY <1>1, <1>3, <2>1, OneKey DEF TypeOK, ClientServed
  <2>6. ClientServed'
    BY <1>1, <1>3, <2>2, <2>5 DEF TypeOK, ClientServed, Busy
  <2> QED
    BY <2>3, <2>4, <2>6 DEF NoRaceInv
<1>5. ASSUME NEW i \in Instances, StartFails(i)
      PROVE  NoRaceInv'
  <2>1. /\ pc' = [pc EXCEPT ![i] = "failed"]
        /\ started' = [started EXCEPT ![i] = config]
        /\ keys' = [keys EXCEPT ![i] = <<>>]
        /\ UNCHANGED <<own, file, disk, config, client>>
    BY <1>5 DEF StartFails, Becomes
  <2> QED
    BY <1>1, <1>3, <2>1 DEF TypeOK, NoRaceInv, OneStart, SavedPart, ServesDisk,
                            Paired, ClientServed, Busy, Bare
<1>6. ASSUME NEW i \in Processes, Begins(i)
      PROVE  NoRaceInv'
  <2>1. /\ disk["private"] = Missing
        /\ Generating = {}
        /\ i \in Instances => config = <<>>
        /\ pc' = [pc EXCEPT ![i] = "generating"]
        /\ started' = [started EXCEPT ![i] = <<>>]
        /\ file' = [file EXCEPT ![i] = 1]
        /\ UNCHANGED <<keys, disk, config, client>>
    BY <1>1, <1>6, PairMade
  <2>2. /\ \A j \in Processes : ~Busy(j) /\ ~Bare(j)
        /\ config = <<>> => \A c \in Clients : client[c] = NoKey
    BY <1>1, <1>3, <2>1, EmptyDirectory DEF Generating, Inv
  <2>3. disk["public"] = Missing
    BY <1>1, <2>1 DEF PrivateStays
  <2>4. OneStart' /\ SavedPart' /\ Paired' /\ ServesDisk'
    BY <1>1, <2>1, <2>2, <2>3 DEF TypeOK, OneStart, SavedPart, Paired, ServesDisk, Busy, Bare
  <2>5. ClientServed'
    BY <1>1, <1>3, <2>1, <2>2 DEF TypeOK, ClientServed, Busy
  <2> QED
    BY <2>4, <2>5 DEF NoRaceInv
<1>7. ASSUME NEW i \in Processes, OpenFile(i)
      PROVE  NoRaceInv'
  <2>1. /\ pc[i] \in {"generating", "saved"}
        /\ pc' = [pc EXCEPT ![i] = "writing"]
        /\ UNCHANGED <<started, keys, own, file, config, client>>
    BY <1>7 DEF OpenFile
  <2>2. \A j \in Processes : Busy(j) <=> Busy(j)'
    BY <1>1, <2>1 DEF TypeOK, Busy
  <2>3. \A j \in Processes : Busy(j) => j = i
    BY <1>3, <2>1 DEF OneStart, Busy
  <2>4. CASE pc[i] = "generating"
    <3>1. /\ file[i] = 1
          /\ disk["private"] = Missing
          /\ disk' = [disk EXCEPT !["private"] = Cut]
      BY <1>1, <1>3, <1>7, <2>4, FileOpened DEF SavedPart
    <3>2. /\ \A j \in Processes : ~Bare(j)
          /\ config = <<>> => \A c \in Clients : client[c] = NoKey
      BY <1>3, <3>1, EmptyDirectory DEF Inv
    <3>3. disk["public"] = Missing
      BY <1>1, <3>1 DEF PrivateStays
    <3>4. OneStart' /\ SavedPart' /\ Paired' /\ ServesDisk'
      BY <1>1, <2>1, <2>2, <2>3, <3>1, <3>2, <3>3
         DEF TypeOK, OneStart, SavedPart, Paired, ServesDisk, Busy, Bare
    <3>5. ClientServed'
      BY <1>1, <1>3, <2>1, <2>2, <3>2 DEF TypeOK, ClientServed
    <3> QED
      BY <3>4, <3>5 DEF NoRaceInv
  <2>5. CASE pc[i] = "saved"
    <3>1. /\ file[i] = 2
          /\ disk["private"] = own[i]
          /\ disk' = [disk EXCEPT !["public"] = Cut]
      BY <1>1, <1>3, <1>7, <2>5, FileOpened DEF SavedPart
    <3>2. disk'["private"] = disk["private"] /\ disk'["public"] = Cut
      BY <1>1, <3>1 DEF TypeOK
    <3>3. OneStart' /\ SavedPart' /\ Paired' /\ ServesDisk'
      BY <1>1, <1>3, <2>1, <2>2, <2>3, <3>1, <3>2
         DEF TypeOK, OneStart, SavedPart, Paired, ServesDisk, Busy, Bare
    <3>4. ClientServed'
      BY <1>1, <1>3, <2>1, <2>2, <3>2 DEF TypeOK, ClientServed
    <3> QED
      BY <3>3, <3>4 DEF NoRaceInv
  <2> QED
    BY <2>1, <2>4, <2>5
<1>8. ASSUME NEW i \in Processes, WriteFile(i)
      PROVE  NoRaceInv'
  <2>1. /\ pc[i] = "writing"
        /\ own[i] \in Keys /\ started[i] = <<>>
        /\ UNCHANGED <<started, config, client>>
    BY <1>1, <1>8 DEF WriteFile, StartOK, Busy
  <2>2. \A j \in Processes : Busy(j) => j = i
    BY <1>3, <2>1 DEF OneStart, Busy
  <2>3. i \in Instances \/ config = <<>> =>
            \A c \in Clients : client[c] # NoKey => client[c] = own[i]
    BY <1>3, <2>1 DEF ClientServed, Busy
  <2>4. CASE file[i] = 1
    <3>1. /\ disk' = [disk EXCEPT !["private"] = own[i]]
          /\ pc' = [pc EXCEPT ![i] = "saved"]
          /\ UNCHANGED <<keys, own>>
      BY <1>1, <1>8, <2>4, FileWritten
    <3>2. disk["private"] = Cut /\ disk["public"] = Missing
      BY <1>3, <2>1, <2>4 DEF SavedPart
    <3>3. disk'["private"] = own[i] /\ disk'["public"] = Missing
      BY <1>1, <3>1, <3>2 DEF TypeOK
    <3>4. OneStart' /\ SavedPart' /\ Paired' /\ ServesDisk'
      BY <1>1, <1>3, <2>1, <2>2, <3>1, <3>2, <3>3
         DEF TypeOK, OneStart, SavedPart, Paired, ServesDisk, Busy, Bare
    <3>5. ClientServed'
      BY <1>1, <1>3, <2>1, <2>3, <3>1, <3>3 DEF TypeOK, ClientServed, Busy
    <3> QED
      BY <3>4, <3>5 DEF NoRaceInv
  <2>5. CASE file[i] # 1
    <3>1. /\ file[i] = 2
          /\ disk' = [disk EXCEPT !["public"] = own[i]]
          /\ pc' = [pc EXCEPT ![i] = IF i \in Scripts THEN "down" ELSE "up"]
          /\ keys' = [keys EXCEPT ![i] = IF i \in Scripts THEN <<>> ELSE <<own[i]>>]
          /\ own' = [own EXCEPT ![i] = NoKey]
      BY <1>1, <1>8, <2>5, FileWritten
    <3>2. disk["private"] = own[i]
      BY <1>3, <2>1, <3>1 DEF SavedPart
    <3>3. disk'["private"] = own[i] /\ disk'["public"] = own[i]
      BY <1>1, <3>1, <3>2 DEF TypeOK
    <3>4. \A j \in Processes : ~Busy(j)'
      BY <1>1, <2>2, <3>1 DEF TypeOK, Busy
    <3>5. OneStart' /\ SavedPart' /\ Paired'
      BY <3>3, <3>4 DEF OneStart, SavedPart, Paired, Busy
    <3>6. ServesDisk'
      BY <1>1, <1>3, <2>1, <3>1, <3>2, <3>3 DEF TypeOK, ServesDisk, Bare
    <3>7. HasKey(<<own[i]>>, own[i])
      BY OneKey
    <3>8. ClientServed'
      <4>1. \A j \in Processes \ {i} : pc'[j] = pc[j] /\ keys'[j] = keys[j]
        BY <3>1
      <4>2. pc'[i] = "up" => i \in Instances /\ keys'[i] = <<own[i]>>
        BY <1>1, <3>1 DEF TypeOK, Processes
      <4> QED
        BY <1>3, <2>1, <2>3, <3>2, <3>3, <3>4, <3>7, <4>1, <4>2 DEF ClientServed
    <3> QED
      BY <3>5, <3>6, <3>8 DEF NoRaceInv
  <2> QED
    BY <2>4, <2>5
<1>9. ASSUME NEW i \in Processes, Stop(i)
      PROVE  NoRaceInv'
  <2>1. /\ pc' = [pc EXCEPT ![i] = "down"]
        /\ keys' = [keys EXCEPT ![i] = <<>>]
        /\ own' = [own EXCEPT ![i] = NoKey]
        /\ file' = [file EXCEPT ![i] = 0]
        /\ UNCHANGED <<disk, started, config, client>>
    BY <1>9 DEF Stop
  <2> QED
    BY <1>1, <1>3, <2>1 DEF TypeOK, NoRaceInv, OneStart, SavedPart, ServesDisk,
                            Paired, ClientServed, Busy, Bare
\* The operator edits the settings: the accepted keys of the clients stay.
<1>11. ASSUME UNCHANGED <<disk, process, client>>,
              \A c \in Clients : client[c] # NoKey =>
                  /\ config' # <<>> => HasKey(config', client[c])
                  /\ config' = <<>> => config = <<>>
       PROVE  NoRaceInv'
  <2>1. UNCHANGED <<disk, pc, started, keys, own, file, client>>
    BY <1>11 DEF process
  <2>2. OneStart' /\ SavedPart' /\ Paired' /\ ServesDisk'
    BY <1>3, <2>1 DEF OneStart, SavedPart, Paired, ServesDisk, Busy, Bare
  <2>3. ClientServed'
    BY <1>3, <1>11, <2>1 DEF ClientServed, Busy
  <2> QED
    BY <2>2, <2>3 DEF NoRaceInv
<1>12. ASSUME NEW k \in Keys, Correct(k)
       PROVE  NoRaceInv'
  <2>1. \A c \in Clients : client[c] # NoKey => client[c] \in Keys /\ HasKey(config, client[c])
    BY <1>1, <1>3, <1>12 DEF TypeOK, ClientServed, Correct
  <2>2. config \in Seq(Entries) /\ config # <<>> /\ k \in Entries
    BY <1>1, <1>12 DEF TypeOK, Correct, Entries
  <2>3. config' = [config EXCEPT ![1] = k]
    BY <1>12 DEF Correct
  <2>4. config' # <<>> /\ \A x : HasKey(config, x) /\ x # config[1] => HasKey(config', x)
    BY <2>2, <2>3, CorrectedKeys, Zenon
  <2> QED
    BY <1>11, <1>12, <2>1, <2>4 DEF Correct
<1>13. ASSUME NEW k \in Keys \cup {BadKey}, Rotate(k)
       PROVE  NoRaceInv'
  <2>1. \A c \in Clients : client[c] # NoKey => HasKey(Accepted, client[c])
    BY <1>1, <1>3, AcceptedKeys, OneKey DEF TypeOK, ClientServed
  <2>2. config' # <<>> /\ \A x : HasKey(Accepted, x) => HasKey(config', x)
    BY <1>1, <1>13, AcceptedKeys, RotatedKeys DEF Rotate, Entries
  <2> QED
    BY <1>11, <1>13, <2>1, <2>2 DEF Rotate
<1>14. ASSUME Retire
       PROVE  NoRaceInv'
  <2>1. config # <<>>
    BY <1>14 DEF Retire
  <2>2. \A c \in Clients : client[c] # NoKey => HasKey(config, client[c])
    BY <1>3, <2>1 DEF ClientServed
  <2>3. /\ config' # <<>>
        /\ \A x : HasKey(config, x) /\ x # config[Len(config)] => HasKey(config', x)
    BY <1>1, <1>14, RetiredKeys DEF TypeOK, Retire, Entries
  <2> QED
    BY <1>11, <1>14, <2>2, <2>3 DEF Retire
<1>15. ASSUME NEW c \in Clients, NEW i \in Instances, Release(c, i)
       PROVE  NoRaceInv'
  <2>1. /\ pc[i] = "up"
        /\ \A j \in Instances : pc[j] \notin {"down", "failed"} => started[j] = config
        /\ UNCHANGED <<disk, pc, started, keys, own, file, config>>
    BY <1>15 DEF Release, Redeployed, Running, process
  <2>2. \A j \in Processes : pc[j] = "up" => j \in Instances
    BY <1>1 DEF StartOK, Processes
  <2>3. OneStart' /\ SavedPart' /\ Paired' /\ ServesDisk'
    BY <1>3, <2>1 DEF OneStart, SavedPart, Paired, ServesDisk, Busy, Bare
  <2> DEFINE k == keys[i][1]
  <2>4. keys[i] \in Seq(Keys) /\ keys[i] # <<>>
    BY <1>1, <2>1 DEF TypeOK
  <2>5. k \in Keys /\ HasKey(keys[i], k)
    BY <2>4, PrimaryKey
  <2>6. \A d \in Clients : client'[d] = client[d] \/ client'[d] = k
    BY <1>1, <1>15 DEF TypeOK, Release
  <2> HIDE DEF k
  <2>7. CASE config = <<>>
    <3>1. keys[i] = <<disk["private"]>> /\ disk["private"] \in Keys
      BY <1>3, <2>1, <2>7 DEF ServesDisk, Bare
    <3>2. k = disk["private"]
      BY <2>5, <3>1, OneKey
    <3>3. \A j \in Processes : pc[j] = "up" => HasKey(keys[j], k)
      <4>1. HasKey(<<k>>, k)
        BY <2>5, OneKey
      <4> QED
        BY <1>3, <2>1, <2>7, <2>2, <3>2, <4>1 DEF ServesDisk, Bare
    <3>4. \A j \in Processes : Busy(j) => own[j] = k
      BY <1>1, <1>3, <3>1, <3>2 DEF StartOK, SavedPart, Busy
    <3>5. ClientServed'
      BY <1>3, <2>1, <2>6, <2>7, <3>2, <3>3, <3>4 DEF ClientServed, Busy
    <3> QED
      BY <2>3, <3>5 DEF NoRaceInv
  <2>8. CASE config # <<>>
    <3>1. \A j \in Processes : pc[j] = "up" => keys[j] = config
      BY <1>1, <2>1, <2>8, <2>2 DEF StartOK
    <3>2. \A j \in Instances : ~Busy(j)
      BY <1>1, <2>1, <2>8 DEF StartOK, Busy
    <3>3. HasKey(config, k)
      BY <2>1, <2>5, <3>1
    <3>4. ClientServed'
      BY <1>3, <2>1, <2>6, <2>8, <3>1, <3>2, <3>3 DEF ClientServed, Busy
    <3> QED
      BY <2>3, <3>4 DEF NoRaceInv
  <2> QED
    BY <2>7, <2>8
<1>16. ASSUME UNCHANGED vars
       PROVE  NoRaceInv'
  BY <1>3, <1>11, <1>16 DEF vars, ClientServed
<1> QED
  BY <1>4, <1>5, <1>6, <1>7, <1>8, <1>9, <1>12, <1>13, <1>14, <1>15, <1>16, Steps

-----------------------------------------------------------------------------
(* The theorems.                                                           *)

LEMMA InvInit ==
    ASSUME Init
    PROVE  Inv
<1>1. <<>> \in Seq(Keys) /\ <<>> \in Seq(Keys \cup {BadKey})
  BY EmptySeq
<1>2. /\ keys \in [Processes -> Seq(Keys)]
      /\ started \in [Processes -> Seq(Keys \cup {BadKey})]
      /\ config \in Seq(Keys \cup {BadKey})
  BY <1>1 DEF Init
<1>3. \A i \in Processes : pc[i] = "up" <=> keys[i] # <<>>
  BY DEF Init
<1>4. TypeOK
  <2>1. disk \in [{"private", "public"} -> Keys \cup {Missing, Cut}]
    BY DEF Init
  <2>2. /\ pc \in [Processes -> {"down", "failed", "generating", "writing", "saved", "up"}]
        /\ own \in [Processes -> Keys \cup {NoKey}]
        /\ file \in [Processes -> 0 .. 2]
        /\ client \in [Clients -> Keys \cup {NoKey}]
        /\ calm \in [Processes -> BOOLEAN]
    BY DEF Init
  <2>3. autoGenerate \in BOOLEAN /\ raced \in BOOLEAN /\ used \subseteq Keys
    BY DEF Init
  <2> QED
    BY <1>2, <1>3, <2>1, <2>2, <2>3, Zenon DEF TypeOK
<1>5. Shared
  BY DEF Init, Shared, StartOK, PrivateStays, CalmOK, Busy, Bare
<1>6. NoRaceInv
  BY KeysApart DEF Init, NoRaceInv, OneStart, SavedPart, ServesDisk, Paired, ClientServed, Busy, Bare
<1> QED
  BY <1>4, <1>5, <1>6 DEF Inv

LEMMA InvStep ==
    ASSUME Inv, [Next]_vars
    PROVE  Inv'
<1>1. TypeOK'
  BY TypeStep DEF Inv, Shared
<1>2. Shared'
  BY SharedStep DEF Inv
<1>3. ~raced' => NoRaceInv'
  BY NoRaceStep
<1> QED
  BY <1>1, <1>2, <1>3 DEF Inv

LEMMA Invariance == Spec => []Inv
BY InvInit, InvStep, PTL DEF Spec

\* Types: an instance has keys exactly when it is up, and they are usable.
THEOREM TypeCorrect == Spec => []TypeOK
<1>1. Inv => TypeOK
  BY DEF Inv
<1> QED
  BY <1>1, Invariance, PTL

\* Whatever is rotated, redeployed or cut off, every instance that is up opens
\* the requests of every released client.
THEOREM NobodyLockedOut == Spec => []NoLockout
<1>1. ASSUME Inv, ~raced, NEW i \in Instances, NEW c \in Clients,
             pc[i] = "up", client[c] # NoKey
      PROVE  Opens(i, client[c], KeyIdOf(c))
  <2>1. HasKey(keys[i], client[c])
    BY <1>1, InstanceIsProcess DEF Inv, NoRaceInv, ClientServed
  <2>2. PICK n \in DOMAIN keys[i] : keys[i][n] = client[c]
    BY <2>1 DEF HasKey
  <2>3. KeyIdOf(c) = NoId \/ keys[i][n] = KeyIdOf(c)
    BY <2>2 DEF KeyIdOf
  <2> QED
    BY <2>2, <2>3 DEF Opens, Candidates
<1>2. Inv => NoLockout
  BY <1>1 DEF NoLockout
<1> QED
  BY <1>2, Invariance, PTL

\* An instance without configured keys serves the key on disk, unless first starts
\* have raced; and whatever raced, if it loaded from a quiet directory.
THEOREM IdentityPersists == Spec => []PersistedIdentity
<1>1. ASSUME Inv, NEW i \in Instances, pc[i] = "up", started[i] = <<>>, ~raced \/ calm[i]
      PROVE  keys[i] = <<disk["private"]>>
  <2>1. CASE ~raced
    BY <1>1, <2>1, InstanceIsProcess DEF Inv, NoRaceInv, ServesDisk, Bare
  <2>2. CASE calm[i]
    BY <1>1, <2>2, InstanceIsProcess DEF Inv, Shared, CalmOK, Bare
  <2> QED
    BY <1>1, <2>1, <2>2
<1>2. Inv => PersistedIdentity
  BY <1>1 DEF PersistedIdentity
<1> QED
  BY <1>2, Invariance, PTL

\* Unless first starts have raced, no step replaces a key on disk.
THEOREM KeyOnDiskStays == Spec => IdentityKept
<1> USE KeysApart
<1>1. ASSUME Inv, [Next]_vars, ~raced, disk["private"] \in Keys
      PROVE  disk'["private"] = disk["private"]
  <2>1. TypeOK /\ StartOK /\ SavedPart
    BY <1>1 DEF Inv, Shared, NoRaceInv
  <2>2. ASSUME NEW i \in Processes, OpenFile(i)
        PROVE  disk'["private"] = disk["private"]
    <3>1. pc[i] # "generating"
      BY <1>1, <2>1 DEF SavedPart
    <3> QED
      BY <2>1, <2>2, <3>1, FileOpened DEF TypeOK
  <2>3. ASSUME NEW i \in Processes, WriteFile(i)
        PROVE  disk'["private"] = disk["private"]
    <3>1. file[i] # 1
      BY <1>1, <2>1, <2>3 DEF SavedPart, WriteFile
    <3> QED
      BY <2>1, <2>3, <3>1, FileWritten DEF TypeOK
  <2>4. ASSUME NEW p \in Processes, Begins(p)
        PROVE  disk' = disk
    BY <2>1, <2>4, PairMade
  <2>5. CASE UNCHANGED disk
    BY <2>5
  <2> QED
    BY <1>1, <2>2, <2>3, <2>4, <2>5, Steps
       DEF vars, Load, StartFails, Stop, Rotate, Correct, Retire, Release
<1>2. Inv /\ [Next]_vars =>
         [~raced /\ disk["private"] \in Keys => disk'["private"] = disk["private"]]_vars
  BY <1>1
<1> QED
  BY <1>2, Invariance, PTL DEF Spec, IdentityKept

\* public.pem belongs to the private key beside it.
THEOREM PublicIsPaired == Spec => []PairOnDisk
<1>1. Inv => PairOnDisk
  BY DEF Inv, NoRaceInv, Paired, PairOnDisk
<1> QED
  BY <1>1, Invariance, PTL
=============================================================================
