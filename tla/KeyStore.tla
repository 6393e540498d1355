----------------------------- MODULE KeyStore -----------------------------
(***************************************************************************)
(* The server keys of EncryptionService: where an instance finds them when *)
(* it starts, how it generates and saves one, and which requests it can    *)
(* open while the keys are rotated.                                        *)
(*                                                                         *)
(* Instances are processes of one deployment: they share its settings and  *)
(* the directory keys/.  Scripts are runs of npm run keygen (scripts/      *)
(* generate-keys.js, without --force), which save a pair there too.  Each  *)
(* is synchronous code, but other processes run between its system calls,  *)
(* and it may be cut off between any two.                                  *)
(*                                                                         *)
(* A key stands for its id too (the id is its digest).  config is the list *)
(* in RSA_PRIVATE_KEY or RSA_PRIVATE_KEY_PATH, empty if neither is set.    *)
(* The operator rotates keys as docs/configuration.md describes it.        *)
(*                                                                         *)
(* History variables: used are the keys that ever existed; raced tells     *)
(* whether two processes generated a first key at the same time; calm[i],  *)
(* whether instance i loaded its keys while no other was saving one.       *)
(***************************************************************************)
EXTENDS Integers, Sequences

CONSTANTS Instances, Scripts, Clients,
          Legacy,     \* the clients that send no KeyId
          Keys,
          BadKey,     \* a configured entry that is no RSA key, too small, or not readable
          Missing,    \* no such file
          Cut,        \* a file that was opened for writing and not written
          NoKey, NoId

ASSUME KeysAssumption ==
    /\ Keys \cap {BadKey, Missing, Cut, NoKey, NoId} = {}
    /\ Missing # Cut
    /\ Legacy \subseteq Clients

ASSUME ScriptsAssumption == Instances \cap Scripts = {}

VARIABLES autoGenerate,  \* AUTO_GENERATE_KEYS, or its default
          config,
          disk,          \* keys/private.pem and keys/public.pem
          pc,
          started,       \* the config that an instance was started with
          keys,          \* EncryptionService.keys, primary first
          own,           \* the key pair that a process is about to save
          file,          \* the number of the file that it saves
          client,        \* the key embedded in a client
          used, raced, calm

Processes == Instances \cup Scripts

process == <<pc, started, keys, own, file>>
vars == <<autoGenerate, config, disk, process, client, used, raced, calm>>

\* Mutant of Files: the public key is saved first.
PublicFirst == <<"public", "private">>

\* The order in which a generated pair is saved.
Files == <<"private", "public">>

\* The processes that are about to save a key.
Saving == {p \in Processes : pc[p] \in {"generating", "writing", "saved"}}

Becomes(i, to, accepted) ==
    /\ pc' = [pc EXCEPT ![i] = to]
    /\ started' = [started EXCEPT ![i] = config]
    /\ keys' = [keys EXCEPT ![i] = accepted]
    /\ calm' = [calm EXCEPT ![i] = to = "up" /\ Saving = {}]
    /\ UNCHANGED <<own, file>>

-----------------------------------------------------------------------------
(* loadPrivateKeys.                                                        *)

\* Mutant of Valid: entries are not looked at.
AnyEntries(pems) == TRUE

\* Every entry must be usable, or the start fails.
Valid(pems) == \A n \in DOMAIN pems : pems[n] \in Keys

\* Mutant of Found: the key is known by its public file.
FoundByPublic == IF config # <<>> THEN config ELSE <<disk["public"]>>

\* The keys of a start that needs no new one: those of the configuration, or
\* the one on disk.  Nothing removes private.pem, so looking for it and reading
\* it are one step.
Found == IF config # <<>> THEN config ELSE <<disk["private"]>>

\* Mutant of FirstStart: a file that was cut off is taken for none.
FirstUsableStart == config = <<>> /\ disk["private"] \in {Missing, Cut}

\* There is no key yet.
FirstStart == config = <<>> /\ disk["private"] = Missing

Load(i) ==
    /\ pc[i] \in {"down", "failed"}
    /\ ~FirstStart
    /\ Valid(Found)
    /\ Becomes(i, "up", Found)
    /\ UNCHANGED <<autoGenerate, config, disk, client, used, raced>>

StartFails(i) ==
    /\ pc[i] \in {"down", "failed"}
    /\ IF FirstStart THEN ~autoGenerate ELSE ~Valid(Found)
    /\ Becomes(i, "failed", <<>>)
    /\ UNCHANGED <<autoGenerate, config, disk, client, used, raced>>

Generating == {p \in Processes : pc[p] = "generating"}

\* A process has seen that there is no key, and makes one.
NewPair(p) ==
    /\ \E k \in Keys \ used :
          /\ own' = [own EXCEPT ![p] = k]
          /\ used' = used \cup {k}
    /\ pc' = [pc EXCEPT ![p] = "generating"]
    /\ file' = [file EXCEPT ![p] = 1]
    /\ raced' = (raced \/ Generating # {})

Generate(i) ==
    /\ pc[i] \in {"down", "failed"}
    /\ FirstStart
    /\ autoGenerate
    /\ NewPair(i)
    /\ started' = [started EXCEPT ![i] = config]
    /\ UNCHANGED <<autoGenerate, config, disk, keys, client, calm>>

\* writeFileSync opens the file, which empties it, ...
OpenFile(p) ==
    /\ pc[p] \in {"generating", "saved"}
    /\ pc' = [pc EXCEPT ![p] = "writing"]
    /\ disk' = [disk EXCEPT ![Files[file[p]]] = Cut]
    /\ UNCHANGED <<autoGenerate, config, started, keys, own, file, client, used, raced, calm>>

\* ... and writes it.  When both files are saved, the service listens, and the
\* script ends.
WriteFile(p) ==
    /\ pc[p] = "writing"
    /\ disk' = [disk EXCEPT ![Files[file[p]]] = own[p]]
    /\ IF file[p] < Len(Files)
       THEN /\ pc' = [pc EXCEPT ![p] = "saved"]
            /\ file' = [file EXCEPT ![p] = @ + 1]
            /\ UNCHANGED <<keys, own>>
       ELSE /\ pc' = [pc EXCEPT ![p] = IF p \in Scripts THEN "down" ELSE "up"]
            /\ keys' = [keys EXCEPT ![p] = IF p \in Scripts THEN <<>> ELSE <<own[p]>>]
            /\ own' = [own EXCEPT ![p] = NoKey]
            /\ file' = [file EXCEPT ![p] = 0]
    /\ UNCHANGED <<autoGenerate, config, started, client, used, raced, calm>>

\* The process ends: a crash, an error of a system call, a redeployment.
Stop(p) ==
    /\ pc[p] \notin {"down", "failed"}
    /\ pc' = [pc EXCEPT ![p] = "down"]
    /\ keys' = [keys EXCEPT ![p] = <<>>]
    /\ own' = [own EXCEPT ![p] = NoKey]
    /\ file' = [file EXCEPT ![p] = 0]
    /\ calm' = [calm EXCEPT ![p] = FALSE]
    /\ UNCHANGED <<autoGenerate, config, disk, started, client, used, raced>>

-----------------------------------------------------------------------------
(* decrypt, as far as it depends on the keys.                              *)

\* Mutant of Candidates: only the primary key is tried without a KeyId.
PrimaryCandidate(accepted, id) ==
    {accepted[n] : n \in {m \in DOMAIN accepted : IF id = NoId THEN m = 1 ELSE accepted[m] = id}}

\* The keys that are tried; at most one of them opens a request.
Candidates(accepted, id) ==
    {accepted[n] : n \in {m \in DOMAIN accepted : id = NoId \/ accepted[m] = id}}

Opens(i, sealedFor, id) == sealedFor \in Candidates(keys[i], id)

-----------------------------------------------------------------------------
(* The operator.                                                           *)

Running == {i \in Instances : pc[i] \notin {"down", "failed"}}

\* Every process that runs was started with the current settings.
Redeployed == \A i \in Running : started[i] = config

\* The script refuses to overwrite, whatever the settings are.  It looks for
\* private.pem first; public.pem is not there without it, and if it appears
\* between the two looks, the script ends (Stop).
KeygenStarts(s) ==
    /\ pc[s] = "down"
    /\ \A f \in DOMAIN disk : disk[f] = Missing
    /\ NewPair(s)
    /\ UNCHANGED <<autoGenerate, config, disk, started, keys, client, calm>>

\* The script saves its pair as a first start does, with the same calls.
Keygen(s) == KeygenStarts(s) \/ OpenFile(s) \/ WriteFile(s)

\* The key in keys/, which the operator lists behind the first one configured.
Persisted == IF disk["private"] \in Keys THEN <<disk["private"]>> ELSE <<>>

Accepted == IF config = <<>> THEN Persisted ELSE config

\* A new key is put in front of the accepted ones; it may be mistyped.
Rotate(k) ==
    /\ k \notin used
    /\ Valid(Accepted)
    /\ config' = <<k>> \o Accepted
    /\ used' = IF k \in Keys THEN used \cup {k} ELSE used
    /\ UNCHANGED <<autoGenerate, disk, process, client, raced, calm>>

Correct(k) ==
    /\ config # <<>> /\ config[1] = BadKey
    /\ k \in Keys \ used
    /\ config' = [config EXCEPT ![1] = k]
    /\ used' = used \cup {k}
    /\ UNCHANGED <<autoGenerate, disk, process, client, raced, calm>>

\* The oldest key is removed when no client has it.
Retire ==
    /\ Len(config) > 1
    /\ \A c \in Clients : client[c] # config[Len(config)]
    /\ config' = SubSeq(config, 1, Len(config) - 1)
    /\ UNCHANGED <<autoGenerate, disk, process, client, used, raced, calm>>

\* A release of a client embeds the key that a redeployed gateway publishes.
Release(c, i) ==
    /\ pc[i] = "up"
    /\ Redeployed
    /\ client' = [client EXCEPT ![c] = keys[i][1]]
    /\ UNCHANGED <<autoGenerate, config, disk, process, used, raced, calm>>

-----------------------------------------------------------------------------

Init ==
    /\ autoGenerate \in BOOLEAN
    /\ config = <<>>
    /\ disk = [f \in {"private", "public"} |-> Missing]
    /\ pc = [p \in Processes |-> "down"]
    /\ started = [p \in Processes |-> <<>>]
    /\ keys = [p \in Processes |-> <<>>]
    /\ own = [p \in Processes |-> NoKey]
    /\ file = [p \in Processes |-> 0]
    /\ client = [c \in Clients |-> NoKey]
    /\ used = {}
    /\ raced = FALSE
    /\ calm = [p \in Processes |-> FALSE]

OnModuleInit(i) ==
    \/ Load(i) \/ StartFails(i) \/ Generate(i) \/ OpenFile(i) \/ WriteFile(i)

Operate ==
    \/ \E s \in Scripts : Keygen(s)
    \/ \E k \in Keys : Correct(k)
    \/ \E k \in Keys \cup {BadKey} : Rotate(k)
    \/ Retire
    \/ \E c \in Clients, i \in Instances : Release(c, i)

Next ==
    \/ \E i \in Instances : OnModuleInit(i)
    \/ \E p \in Processes : Stop(p)
    \/ Operate

Spec == Init /\ [][Next]_vars

-----------------------------------------------------------------------------
(* Properties.                                                             *)

\* Types of all variables; an instance has keys exactly when it is up, and they
\* are usable.
TypeOK ==
    /\ autoGenerate \in BOOLEAN
    /\ config \in Seq(Keys \cup {BadKey})
    /\ disk \in [{"private", "public"} -> Keys \cup {Missing, Cut}]
    /\ pc \in [Processes -> {"down", "failed", "generating", "writing", "saved", "up"}]
    /\ started \in [Processes -> Seq(Keys \cup {BadKey})]
    /\ keys \in [Processes -> Seq(Keys)]
    /\ \A p \in Processes : pc[p] = "up" <=> keys[p] # <<>>
    /\ own \in [Processes -> Keys \cup {NoKey}]
    /\ file \in [Processes -> 0 .. 2]
    /\ client \in [Clients -> Keys \cup {NoKey}]
    /\ used \subseteq Keys
    /\ raced \in BOOLEAN
    /\ calm \in [Processes -> BOOLEAN]

KeyIdOf(c) == IF c \in Legacy THEN NoId ELSE client[c]

\* During rotations, redeployments and crashes, every instance that is up opens
\* the requests of every released client, whether it sends a KeyId or not.
NoLockout ==
    ~raced => \A i \in Instances, c \in Clients :
        pc[i] = "up" /\ client[c] # NoKey => Opens(i, client[c], KeyIdOf(c))

\* An instance without configured keys serves the key that is on disk, so the
\* next start will serve it again; a start that was cut off, another instance
\* that starts, or the script does not change the identity of the gateway.  If
\* two processes make a first key in one empty directory at the same time, an
\* instance may be left with a key that the other one has replaced; a restart
\* heals that, whatever the race was: this holds of every instance that loaded
\* its key while nobody was saving one.
PersistedIdentity ==
    \A i \in Instances :
        pc[i] = "up" /\ started[i] = <<>> /\ (~raced \/ calm[i])
            => keys[i] = <<disk["private"]>>

\* A key on disk is never replaced: clients that embed it need no release after
\* a crash or a redeployment, whether an instance is up meanwhile or not.
IdentityKept ==
    [][~raced /\ disk["private"] \in Keys => disk'["private"] = disk["private"]]_vars

\* Operators copy public.pem into clients: it never belongs to a private key
\* that was lost.
PairOnDisk ==
    ~raced /\ disk["public"] \in Keys => disk["private"] = disk["public"]
=============================================================================
